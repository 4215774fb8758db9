--------------------------- MODULE Appliance_proofs ---------------------------
(***************************************************************************)
(* Proofs about Boot, for every set of timeouts and every length of the    *)
(* lease, about Network, for every number of runs of nq-start-network, and *)
(* the types of all the programs of MCAppliance.                           *)
(***************************************************************************)
EXTENDS MCAppliance, Scripts_proofs, RootfsBuild_proofs

(* Boot: the watchdog and the autoreboot timer. *)

DogFields == {"asked", "timeout", "holder", "unfed", "nap", "lease"}

DogTyped ==
  /\ DOMAIN dog = DogFields
  /\ dog.asked \in DogTimeouts \cup {0}
  /\ dog.timeout \in DogTimeouts \cup {0, DriverTimeout, RootTimeout}
  /\ dog.holder \in {"none", "lease", "init", "root"}
  /\ dog.unfed \in Nat /\ dog.nap \in Nat /\ dog.lease \in 0..LeaseSecs

(* The seconds since the holder fed and those it still sleeps make one sleep of it, so that it
   wakes up before the timeout that its settings allow. *)
DogInv ==
  /\ DogTyped
  /\ dog.holder # "none" => dog.timeout # 0 /\ dog.unfed + dog.nap = Sleep(dog, dog.holder)
  /\ FedInTime

(* A timer that was cancelled is gone, and nothing arms it again: the stage at which it may be
   asked for is past. *)
TimerInv ==
  /\ stage \in 1..8 /\ cancelled \in BOOLEAN
  /\ timer # "fired" => leaving = 0
  /\ timer \in {"asleep", "fired"} => stage > 1
  /\ cancelled => stage > 1 /\ timer = "none"
-------------------------------------------------------------------------------
LEMMA TimeoutIsNat == ASSUME NEW t \in DogTimeouts \cup {0, DriverTimeout, RootTimeout} PROVE t \in Nat
BY BootAssumption DEF BootAssumption

LEMMA DogIsNat ==
  ASSUME DogTyped
  PROVE  dog.asked \in Nat /\ dog.timeout \in Nat /\ dog.lease \in Nat /\ LeaseSecs \in Nat \ {0}
<1>1. dog.asked \in Nat /\ dog.timeout \in Nat
  BY TimeoutIsNat DEF DogTyped
<1>2. LeaseSecs \in Nat \ {0}
  BY BootAssumption
<1>. QED BY <1>1, <1>2 DEF DogTyped

(* A feeder that sleeps by nq.watchdog sleeps for a third of it, or for 5 seconds. *)
LEMMA SleepIsNat ==
  ASSUME NEW d, d.asked \in Nat, NEW h
  PROVE  /\ Sleep(d, h) \in Nat \ {0}
         /\ h # "root" => Sleep(d, h) = 5 \/ 3 * Sleep(d, h) <= d.asked
         /\ h = "root" => Sleep(d, h) = RootSleep
<1>1. d.asked \div 3 \in Nat /\ 3 * (d.asked \div 3) <= d.asked
  OBVIOUS
<1>2. RootSleep \in Nat \ {0}
  BY BootAssumption DEF RootSleep
<1>. QED BY <1>1, <1>2 DEF Sleep, Interval

LEMMA WrittenTyped ==
  ASSUME DogTyped, NEW set \in (DogTimeouts \ {0}) \cup {RootTimeout}, NEW t \in Written(set)
  PROVE  t \in (DogTimeouts \cup {DriverTimeout, RootTimeout}) \ {0}
BY BootAssumption DEF Written, DogTyped

(* A holder that takes the device or feeds has a whole sleep before it. *)
LEMMA HoldFeeds ==
  ASSUME NEW d, DOMAIN d = DogFields, d.asked \in DogTimeouts \cup {0},
         d.timeout \in (DogTimeouts \cup {DriverTimeout, RootTimeout}) \ {0}, d.lease \in 0..LeaseSecs,
         NEW h \in {"lease", "init", "root"}, dog' = Held(d, h), device' # "bitten"
  PROVE  DogInv'
<1>1. /\ DOMAIN dog' = DogFields /\ dog'.asked = d.asked /\ dog'.timeout = d.timeout
      /\ dog'.unfed = 0 /\ dog'.nap = Sleep(d, h) /\ dog'.holder = h /\ dog'.lease = d.lease
  BY DEF Held, DogFields
<1>2. d.asked \in Nat
  BY TimeoutIsNat
<1>3. Sleep(d, h) \in Nat /\ Sleep(dog', h) = Sleep(d, h)
  BY <1>1, <1>2, SleepIsNat DEF Sleep
<1>4. Sleep(dog', dog'.holder) = Sleep(d, h)
  BY <1>1, <1>3
<1>5. DogTyped'
  BY <1>1, <1>3 DEF DogTyped
<1>. QED BY <1>1, <1>3, <1>4, <1>5 DEF DogInv, FedInTime

(* Only the timeout changes. *)
LEMMA TimeoutSet ==
  ASSUME DogInv, NEW t \in (DogTimeouts \cup {DriverTimeout, RootTimeout}) \ {0},
         dog' = [dog EXCEPT !.timeout = t], device' # "bitten"
  PROVE  DogInv'
<1>1. /\ DOMAIN dog' = DogFields /\ dog'.asked = dog.asked /\ dog'.timeout = t
      /\ dog'.unfed = dog.unfed /\ dog'.nap = dog.nap /\ dog'.holder = dog.holder /\ dog'.lease = dog.lease
  BY DEF DogInv, DogTyped, DogFields
<1>2. Sleep(dog', dog'.holder) = Sleep(dog, dog.holder)
  BY <1>1 DEF Sleep
<1>3. DogTyped'
  BY <1>1 DEF DogInv, DogTyped
<1>. QED BY <1>1, <1>2, <1>3 DEF DogInv, FedInTime

LEMMA InitDog == BootInit => DogInv
<1>. SUFFICES ASSUME BootInit PROVE DogInv
  OBVIOUS
<1>1. /\ dog = [asked |-> 0, timeout |-> 0, holder |-> "none", unfed |-> 0, nap |-> 0, lease |-> 0]
      /\ device = "up"
  BY DEF BootInit
<1>2. DogTyped
  BY <1>1, BootAssumption DEF DogTyped, DogFields
<1>. QED BY <1>1, <1>2 DEF DogInv, FedInTime

LEMMA DogStep == DogInv /\ [BootNext]_bootVars => DogInv'
<1>. SUFFICES ASSUME DogInv, [BootNext]_bootVars PROVE DogInv'
  OBVIOUS
<1>0. DogTyped /\ DOMAIN dog = DogFields /\ dog.unfed \in Nat /\ dog.nap \in Nat
  BY DEF DogInv, DogTyped
<1>1. CASE PowerOn
  <2>1. device = "up" /\ device' = device
    BY <1>1 DEF PowerOn, InStage
  <2>2. CASE dog' = dog
    BY <2>1, <2>2 DEF DogInv, DogTyped, FedInTime, Sleep
  <2>3. CASE dog' # dog
    <3>1. PICK a \in DogTimeouts \ {0} :
            \E t \in Written(a) : dog' = Held([dog EXCEPT !.asked = a, !.timeout = t], "lease")
      BY <1>1, <2>3 DEF PowerOn
    <3>2. PICK t \in Written(a) : dog' = Held([dog EXCEPT !.asked = a, !.timeout = t], "lease")
      BY <3>1
    <3>. DEFINE d == [dog EXCEPT !.asked = a, !.timeout = t]
    <3>3. DOMAIN d = DogFields /\ d.asked = a /\ d.timeout = t /\ d.lease = dog.lease /\ dog' = Held(d, "lease")
      BY <1>0, <3>2 DEF DogFields
    <3>. HIDE DEF d
    <3>4. t \in (DogTimeouts \cup {DriverTimeout, RootTimeout}) \ {0}
      BY <1>0, <3>2, WrittenTyped
    <3>. QED BY <1>0, <2>1, <3>3, <3>4, HoldFeeds DEF DogTyped
  <2>. QED BY <2>2, <2>3
<1>2. CASE InitFeeder
  <2>1. device = "up" /\ device' = device
    BY <1>2 DEF InitFeeder, InStage
  <2>2. CASE dog.asked = 0
    <3>1. dog' = dog
      BY <1>2, <2>2 DEF InitFeeder
    <3>. QED BY <2>1, <3>1 DEF DogInv, DogTyped, FedInTime, Sleep
  <2>3. CASE dog.asked # 0
    <3>1. PICK t \in Written(dog.asked) :
            dog' = IF dog.holder = "none" THEN Held([dog EXCEPT !.timeout = t], "init") ELSE [dog EXCEPT !.timeout = t]
      BY <1>2, <2>3 DEF InitFeeder
    <3>. DEFINE d == [dog EXCEPT !.timeout = t]
    <3>2. t \in (DogTimeouts \cup {DriverTimeout, RootTimeout}) \ {0}
      BY <1>0, <2>3, <3>1, WrittenTyped DEF DogTyped
    <3>3. DOMAIN d = DogFields /\ d.asked = dog.asked /\ d.timeout = t /\ d.lease = dog.lease
      BY <1>0 DEF DogFields
    <3>4. CASE dog' = d
      BY <2>1, <3>2, <3>4, TimeoutSet
    <3>5. CASE dog' = Held(d, "init")
      <4>. HIDE DEF d
      <4>. QED BY <1>0, <2>1, <3>2, <3>3, <3>5, HoldFeeds DEF DogTyped
    <3>. QED BY <3>1, <3>4, <3>5
  <2>. QED BY <2>2, <2>3
<1>3. CASE Feed
  <2>. DEFINE slept == [dog EXCEPT !.lease = IF dog.holder = "lease" THEN @ + Interval(dog.asked) ELSE @]
  <2>1. /\ DOMAIN slept = DogFields /\ slept.asked = dog.asked /\ slept.timeout = dog.timeout
        /\ slept.unfed = dog.unfed /\ slept.nap = dog.nap /\ slept.holder = dog.holder
        /\ slept.lease = IF dog.holder = "lease" THEN dog.lease + Interval(dog.asked) ELSE dog.lease
    BY <1>0 DEF DogFields
  <2>2. dog.asked \in Nat /\ dog.lease \in Nat /\ LeaseSecs \in Nat /\ Interval(dog.asked) \in Nat
    BY <1>0, DogIsNat DEF Interval
  <2>3. /\ device = "up" /\ device' = device /\ dog.holder \in {"lease", "init", "root"} /\ dog.timeout # 0
        /\ dog' = IF dog.holder = "lease" /\ slept.lease >= LeaseSecs
                  THEN [slept EXCEPT !.holder = "none", !.lease = LeaseSecs] ELSE Held(slept, dog.holder)
    BY <1>3, <1>0 DEF Feed, DogInv, DogTyped
  <2>. HIDE DEF slept
  <2>4. CASE dog.holder = "lease" /\ slept.lease >= LeaseSecs
    <3>1. /\ DOMAIN dog' = DogFields /\ dog'.asked = dog.asked /\ dog'.timeout = dog.timeout
          /\ dog'.unfed = dog.unfed /\ dog'.nap = dog.nap /\ dog'.holder = "none" /\ dog'.lease = LeaseSecs
      BY <2>1, <2>3, <2>4 DEF DogFields
    <3>. QED BY <1>0, <2>2, <2>3, <3>1 DEF DogInv, DogTyped, FedInTime
  <2>5. CASE ~(dog.holder = "lease" /\ slept.lease >= LeaseSecs)
    <3>1. slept.lease \in 0..LeaseSecs
      BY <1>0, <2>1, <2>2, <2>5 DEF DogTyped
    <3>2. dog' = Held(slept, dog.holder)
      BY <2>3, <2>5
    <3>. QED BY <1>0, <2>1, <2>3, <3>1, <3>2, HoldFeeds DEF DogTyped
  <2>. QED BY <2>4, <2>5
<1>4. CASE Tick
  <2>1. /\ device = "up" /\ dog.timeout # 0 /\ (dog.holder = "none" \/ dog.nap > 0)
        /\ device' = IF dog.unfed + 1 >= dog.timeout THEN "bitten" ELSE device
    BY <1>4 DEF Tick
  <2>2. /\ DOMAIN dog' = DogFields /\ dog'.asked = dog.asked /\ dog'.timeout = dog.timeout
        /\ dog'.holder = dog.holder /\ dog'.lease = dog.lease
        /\ dog'.unfed = dog.unfed + 1 /\ dog'.nap = IF dog.nap = 0 THEN 0 ELSE dog.nap - 1
    BY <1>0, <1>4 DEF Tick, DogFields
  <2>3. DogTyped'
    BY <1>0, <2>2 DEF DogTyped
  <2>4. CASE dog.holder = "none"
    BY <2>2, <2>3, <2>4 DEF DogInv, FedInTime
  <2>5. CASE dog.holder # "none"
    <3>. DEFINE nap == Sleep(dog, dog.holder)
    <3>1. dog.unfed + dog.nap = nap /\ dog.timeout \in Nat /\ dog.asked \in Nat
      BY <1>0, <2>5, DogIsNat DEF DogInv
    <3>2. /\ nap \in Nat \ {0} /\ Sleep(dog', dog'.holder) = nap
          /\ dog.holder # "root" => nap = 5 \/ 3 * nap <= dog.asked
          /\ dog.holder = "root" => nap = RootSleep
      BY <2>2, <3>1, SleepIsNat DEF Sleep
    <3>. HIDE DEF nap
    <3>3. dog'.unfed + dog'.nap = nap
      BY <1>0, <2>1, <2>2, <2>5, <3>1
    <3>4. device' = "bitten" => dog.timeout <= nap
      BY <1>0, <2>1, <2>5, <3>1
    <3>5. device' = "bitten" => TooShort'
      <4>1. CASE dog.holder = "root"
        BY <2>2, <3>2, <3>4, <4>1 DEF TooShort
      <4>2. CASE dog.holder # "root"
        BY <2>2, <3>1, <3>2, <3>4, <4>2 DEF TooShort
      <4>. QED BY <4>1, <4>2
    <3>. QED BY <2>1, <2>2, <2>3, <3>2, <3>3, <3>5 DEF DogInv, FedInTime
  <2>. QED BY <2>4, <2>5
<1>5. CASE RunRootTool
  <2>1. device = "up" /\ device' = device
    BY <1>5 DEF RunRootTool
  <2>2. PICK t \in IF dog.timeout = 0 THEN {0} ELSE Written(RootTimeout) : dog' = [dog EXCEPT !.timeout = t]
    BY <1>5 DEF RunRootTool
  <2>3. CASE dog.timeout = 0
    <3>1. /\ DOMAIN dog' = DogFields /\ dog'.asked = dog.asked /\ dog'.timeout = dog.timeout
          /\ dog'.unfed = dog.unfed /\ dog'.nap = dog.nap /\ dog'.holder = dog.holder /\ dog'.lease = dog.lease
      BY <1>0, <2>2, <2>3 DEF DogFields
    <3>. QED BY <1>0, <2>1, <2>3, <3>1 DEF DogInv, DogTyped, FedInTime
  <2>4. CASE dog.timeout # 0
    <3>1. t \in (DogTimeouts \cup {DriverTimeout, RootTimeout}) \ {0}
      BY <1>0, <2>2, <2>4, WrittenTyped
    <3>. QED BY <2>1, <2>2, <3>1, TimeoutSet
  <2>. QED BY <2>3, <2>4
<1>6. CASE RootFeederOpens
  <2>1. PICK t \in Written(RootTimeout) : dog' = Held([dog EXCEPT !.timeout = t], "root")
    BY <1>6 DEF RootFeederOpens
  <2>. DEFINE d == [dog EXCEPT !.timeout = t]
  <2>2. /\ DOMAIN d = DogFields /\ d.asked = dog.asked /\ d.timeout = t /\ d.lease = dog.lease
        /\ dog' = Held(d, "root") /\ device' # "bitten"
    BY <1>0, <1>6, <2>1 DEF RootFeederOpens, DogFields
  <2>. HIDE DEF d
  <2>3. t \in (DogTimeouts \cup {DriverTimeout, RootTimeout}) \ {0}
    BY <1>0, <2>1, WrittenTyped
  <2>. QED BY <1>0, <2>2, <2>3, HoldFeeds DEF DogTyped
<1>7. CASE UNCHANGED dog /\ (device' = device \/ device' # "bitten")
  BY <1>7 DEF DogInv, DogTyped, FedInTime, TooShort, Sleep
<1>. QED
  BY <1>1, <1>2, <1>3, <1>4, <1>5, <1>6, <1>7 DEF BootNext, BootStep, LoaderFails, SwitchRoot, UsbShell, ArmTimer,
     WriteTimerFile, StartServices, TimerFires, FallbackStage, SyncHangs, Reboots, CancelTimer, bootVars

(* The loader's lease, nq-init's feeder and the root feeder all feed in time, for every timeout,
   whoever has set it, and every length of the lease: the watchdog bites only when nobody holds
   it, or when the settings of its holder reach the timeout. *)
THEOREM HolderFeedsInTime == BootSpec => []FedInTime
<1>1. DogInv => FedInTime
  BY DEF DogInv
<1>. QED BY <1>1, InitDog, DogStep, PTL DEF BootSpec
-------------------------------------------------------------------------------
LEMMA InitTimer == BootInit => TimerInv
<1>. SUFFICES ASSUME BootInit PROVE TimerInv
  OBVIOUS
<1>1. stage = 1 /\ leaving = 0 /\ timer = "none" /\ cancelled = FALSE
  BY Zenon DEF BootInit
<1>2. stage \in 1..8 /\ timer \notin {"asleep", "fired"}
  BY <1>1
<1>3. cancelled \in BOOLEAN /\ ~cancelled
  BY <1>1
<1>. QED BY <1>1, <1>2, <1>3, Zenon DEF TimerInv

(* The stages are passed one by one, and the last one is not left. *)
LEMMA Proceeds ==
  ASSUME stage \in 1..8, NEW s, s # "rescue", Stages[stage] = s, Proceed
  PROVE  stage' \in 1..8 /\ stage' > 1 /\ stage' = stage + 1 /\ (s = "off" => stage = 1)
BY DEF Proceed, Stages

LEMMA TimerStep == TimerInv /\ [BootNext]_bootVars => TimerInv'
<1>. SUFFICES ASSUME TimerInv, [BootNext]_bootVars PROVE TimerInv'
  OBVIOUS
<1>. USE DEF TimerInv
<1>1. CASE PowerOn
  <2>1. stage = 1 /\ stage' \in 1..8 /\ timer' \in {"none", "asked"} /\ UNCHANGED <<cancelled, leaving, timerFile>>
    BY <1>1, Proceeds DEF PowerOn, InStage
  <2>2. ~cancelled'
    BY <2>1
  <2>3. timer' # "fired" => leaving' = 0
    BY <2>1
  <2>4. cancelled' \in BOOLEAN
    BY <2>1, Zenon
  <2>. QED BY <2>1, <2>2, <2>3, <2>4
<1>2. CASE UNCHANGED <<stage, timer, leaving, cancelled>>
  BY <1>2
<1>3. CASE SwitchRoot \/ UsbShell \/ InitFeeder \/ WriteTimerFile \/ StartServices
  <2>1. /\ UNCHANGED <<timer, leaving, cancelled>> /\ Proceed
        /\ \E s : s # "rescue" /\ Stages[stage] = s
    BY <1>3 DEF SwitchRoot, UsbShell, InitFeeder, WriteTimerFile, StartServices, InStage, rebooting
  <2>. QED BY <2>1, Proceeds
<1>4. CASE ArmTimer
  <2>1. Stages[1] # "autoreboot"
    BY DEF Stages
  <2>2. stage > 1
    BY <1>4, <2>1 DEF ArmTimer, InStage
  <2>. QED BY <1>4, <2>2 DEF ArmTimer
<1>5. CASE TimerFires
  BY <1>5 DEF TimerFires
<1>6. CASE FallbackStage
  BY <1>6 DEF FallbackStage
<1>7. CASE CancelTimer
  <2>1. /\ stage' = stage /\ leaving' = leaving
        /\ \/ timer = "asleep" /\ timer' = "none"
           \/ timer' = timer /\ cancelled' = cancelled
    BY <1>7, Zenon DEF CancelTimer
  <2>2. cancelled' \in BOOLEAN
    BY <1>7, Zenon DEF CancelTimer
  <2>3. stage > 1
    <3>1. Stages[1] # "watchdog"
      BY DEF Stages
    <3>. QED BY <1>7, <3>1 DEF CancelTimer, Reached
  <2>. QED BY <2>1, <2>2, <2>3
<1>. QED
  BY <1>1, <1>2, <1>3, <1>4, <1>5, <1>6, <1>7 DEF BootNext, BootStep, LoaderFails, Feed, Tick, RunRootTool, RootFeederOpens,
     SyncHangs, Reboots, rebooting, bootVars

(* A timer that nq-autoreboot-cancel has stopped is not armed again and takes the device down
   no more, whatever nq-init and the feeders are doing. *)
THEOREM CancelledForGood == BootSpec => []CancelHolds
<1>1. TimerInv => CancelHolds
  BY DEF TimerInv, CancelHolds
<1>. QED BY <1>1, InitTimer, TimerStep, PTL DEF BootSpec
-------------------------------------------------------------------------------
(* Types: those of the watchdog are part of its invariant; here is the rest. *)
BootInv == DogInv /\ TimerInv /\ BootTypeOK

Staged ==
  /\ stage \in 1..8
  /\ rootTool \in {"not run", "found", "waiting"}
  /\ timer \in {"none", "asked", "asleep", "fired"} /\ timerFile \in BOOLEAN /\ cancelled \in BOOLEAN
  /\ leaving \in 0..6 /\ hung \in BOOLEAN /\ device \in {"up", "down", "bitten"}

LEMMA BootParts == BootInv <=> DogInv /\ TimerInv /\ Staged
<1>1. Len(Stages) = 8
  BY DEF Stages
<1>. QED BY <1>1 DEF BootInv, DogInv, DogTyped, Staged, BootTypeOK, LastResort

LEMMA InitBoot == BootInit => BootInv
<1>. SUFFICES ASSUME BootInit PROVE BootInv
  OBVIOUS
<1>1. DogInv /\ TimerInv
  BY InitDog, InitTimer
<1>2. /\ stage = 1 /\ rootTool = "not run" /\ timer = "none" /\ timerFile = FALSE /\ cancelled = FALSE
      /\ leaving = 0 /\ hung = FALSE /\ device = "up"
  BY Zenon DEF BootInit
<1>3. timerFile \in BOOLEAN /\ cancelled \in BOOLEAN /\ hung \in BOOLEAN
  BY <1>2, Zenon
<1>9. stage = 1 /\ leaving = 0
  BY <1>2, Zenon
<1>4. stage \in 1..8 /\ leaving \in 0..6
  BY <1>9
<1>5. Staged
  BY <1>2, <1>3, <1>4, Zenon DEF Staged
<1>. QED BY <1>1, <1>5, BootParts

LEMMA StagedStep == TimerInv /\ TimerInv' /\ Staged /\ [BootNext]_bootVars => Staged'
<1>. SUFFICES ASSUME TimerInv, TimerInv', Staged, [BootNext]_bootVars PROVE Staged'
  OBVIOUS
<1>1. stage' \in 1..8 /\ cancelled' \in BOOLEAN
  BY DEF TimerInv
<1>2. leaving' \in 0..6
  <2>1. leaving \in 0..6
    BY DEF Staged
  <2>2. CASE TimerFires
    BY <2>2 DEF TimerFires
  <2>3. CASE FallbackStage
    BY <2>1, <2>3 DEF FallbackStage, LastResort
  <2>4. CASE UNCHANGED leaving
    BY <2>1, <2>4
  <2>5. TimerFires \/ FallbackStage \/ UNCHANGED leaving
    BY Zenon DEF BootNext, BootStep, PowerOn, LoaderFails, SwitchRoot, UsbShell, InitFeeder, ArmTimer, WriteTimerFile,
       StartServices, Feed, Tick, RunRootTool, RootFeederOpens, SyncHangs, Reboots, CancelTimer, rebooting, bootVars
  <2>. QED BY <2>2, <2>3, <2>4, <2>5
<1>. USE DEF BootNext, BootStep, PowerOn, LoaderFails, SwitchRoot, UsbShell, InitFeeder, ArmTimer,
   WriteTimerFile, StartServices, Feed, Tick, RunRootTool, RootFeederOpens, TimerFires, FallbackStage, SyncHangs,
   Reboots, CancelTimer, rebooting, bootVars
<1>3. rootTool' \in {"not run", "found", "waiting"}
  BY Zenon DEF Staged
<1>4. timer' \in {"none", "asked", "asleep", "fired"}
  BY Zenon DEF Staged
<1>5. device' \in {"up", "down", "bitten"}
  BY Zenon DEF Staged
<1>6. timerFile' \in BOOLEAN
  BY Zenon DEF Staged
<1>7. hung' \in BOOLEAN
  BY Zenon DEF Staged
<1>. QED BY ONLY <1>1, <1>2, <1>3, <1>4, <1>5, <1>6, <1>7, Zenon DEF Staged

LEMMA BootTypesStep == BootInv /\ [BootNext]_bootVars => BootInv'
BY BootParts, DogStep, TimerStep, StagedStep, PTL
-------------------------------------------------------------------------------
(* Network: the files of the device and the SSH server. *)

(* What is moved to its final name is a finished copy, and nothing else gets there or to the
   medium; a name without its contents was loose. *)
SecretInv ==
  /\ DOMAIN conf = Files /\ DOMAIN disk = Files
  /\ SecretsWhole
  /\ \A f \in Files : disk[f] = "part" => f \in torn

(* A server that was killed has a run that is about to start another one, unless that run
   was hung up with it. *)
ServerInv ==
  /\ DOMAIN netRun = NetRuns
  /\ \A r \in NetRuns : DOMAIN netRun[r] = {"at", "ssh"}
  /\ \/ dropbear
     \/ \A r \in NetRuns : ~NetAt(r, "done")
     \/ \E r \in NetRuns : NetAt(r, "hung up") \/ NetAt(r, "dropbear")
-------------------------------------------------------------------------------
LEMMA InitSecret == NetInit => SecretInv
BY DEF NetInit, SecretInv, SecretsWhole

LEMMA SecretStep == SecretInv /\ [NetNext]_netVars => SecretInv'
<1>. SUFFICES ASSUME SecretInv, [NetNext]_netVars PROVE SecretInv'
  OBVIOUS
<1>. USE DEF SecretInv, SecretsWhole
<1>1. CASE Clear
  <2>1. conf' = conf \/ \E f : conf' = [conf EXCEPT ![f] = "none"]
    BY <1>1 DEF Clear
  <2>2. UNCHANGED <<disk, torn>>
    BY <1>1 DEF Clear, medium
  <2>. QED BY <2>1, <2>2
<1>2. CASE Install
  <2>1. PICK f \in prov.copy : conf' = [conf EXCEPT ![f] = "new"]
    BY <1>2 DEF Install
  <2>2. UNCHANGED <<disk, torn>>
    BY <1>2 DEF Install
  <2>. QED BY <2>1, <2>2
<1>4. ASSUME NEW n \in Files, WriteBack(n) PROVE SecretInv'
  <2>1. /\ conf' = conf /\ disk' = [disk EXCEPT ![n] = conf[n]]
        /\ torn' = IF conf[n] = "part" THEN torn ELSE torn \ {n}
    BY <1>4 DEF WriteBack
  <2>2. DOMAIN disk' = Files /\ \A f \in Files : disk'[f] = IF f = n THEN conf[f] ELSE disk[f]
    BY <2>1
  <2>. QED BY <2>1, <2>2
<1>5. CASE PowerCut
  <2>1. /\ DOMAIN conf' = Files /\ disk' = conf' /\ torn' = torn \cup loose
        /\ \A f \in Files : conf'[f] \in {disk[f], conf[f]} \cup (IF f \in loose THEN {"part"} ELSE {})
    BY <1>5 DEF PowerCut
  <2>2. ASSUME NEW f \in Files, conf'[f] = "part" PROVE f \in torn'
    BY <2>1, <2>2
  <2>. QED BY <2>1, <2>2
<1>3. CASE UNCHANGED <<conf, disk, torn>>
  BY <1>3
<1>. QED
  BY <1>1, <1>2, <1>3, <1>4, <1>5 DEF NetNext, ProvStep, ProvBegins, CopyTmp, ProvDies, ProvDone, NetStep,
     StartNetwork, CopyFirmware, FirmwareCopied, LoadWifi, KillWpa, StartWpa, Dhcp, SyncTime, CopyKeys,
     KeysCopied, KillDropbear, StartDropbear, WpaGone, files, medium, netVars

(* Whenever a copy fails, nq-provision runs again or the power goes, a file of the device is
   whole or not there, but for one that was put in the place of none and not written out when
   the power went. *)
THEOREM SecretsAreWhole == NetSpec => []SecretsWhole
<1>1. SecretInv => SecretsWhole
  BY DEF SecretInv
<1>. QED BY <1>1, InitSecret, SecretStep, PTL DEF NetSpec
-------------------------------------------------------------------------------
LEMMA InitServer == NetInit => ServerInv
<1>. SUFFICES ASSUME NetInit PROVE ServerInv
  OBVIOUS
<1>1. /\ DOMAIN netRun = NetRuns
      /\ \A r \in NetRuns : DOMAIN netRun[r] = {"at", "ssh"} /\ netRun[r].at = "idle"
  BY DEF NetInit, NetIdle
<1>. QED BY <1>1 DEF ServerInv, NetAt

(* One run moves, and not from where a server is missing. *)
LEMMA RunMoves ==
  ASSUME ServerInv, NEW r \in NetRuns, NEW at, NetGoto(r, at), UNCHANGED dropbear,
         at # "done", ~NetAt(r, "dropbear"), ~NetAt(r, "hung up")
  PROVE  ServerInv'
<1>1. /\ DOMAIN netRun' = NetRuns /\ \A q \in NetRuns \ {r} : netRun'[q] = netRun[q]
      /\ DOMAIN netRun'[r] = {"at", "ssh"} /\ netRun'[r].at = at
  BY DEF ServerInv, NetGoto
<1>. QED BY <1>1 DEF ServerInv, NetAt

LEMMA NetRunBegins ==
  ASSUME ServerInv, NEW r \in NetRuns, IsNext(r), NEW ssh, NetBegins(r, ssh), UNCHANGED dropbear
  PROVE  ServerInv'
<1>1. /\ DOMAIN netRun' = NetRuns /\ \A q \in NetRuns \ {r} : netRun'[q] = netRun[q]
      /\ DOMAIN netRun'[r] = {"at", "ssh"} /\ netRun'[r].at = "wifi" /\ netRun[r].at = "idle"
  BY DEF ServerInv, NetBegins, IsNext, NetAt
<1>. QED BY <1>1 DEF ServerInv, NetAt

LEMMA ServerStep == ServerInv /\ [NetNext]_netVars => ServerInv'
<1>. SUFFICES ASSUME ServerInv, [NetNext]_netVars PROVE ServerInv'
  OBVIOUS
<1>1. ASSUME NEW r \in NetRuns, NetStep(r) PROVE ServerInv'
  <2>1. CASE StartNetwork(r)
    BY <2>1, NetRunBegins DEF StartNetwork
  <2>2. CASE CopyFirmware(r) \/ FirmwareCopied(r) \/ LoadWifi(r) \/ Dhcp(r) \/ SyncTime(r) \/ CopyKeys(r) \/ KeysCopied(r)
    <3>1. PICK at \in {"firmware", "load", "kill wpa", "time", "keys", "cp", "kill"} : NetGoto(r, at)
      BY <2>2 DEF CopyFirmware, FirmwareCopied, LoadWifi, Dhcp, SyncTime, CopyKeys, KeysCopied
    <3>2. UNCHANGED dropbear /\ ~NetAt(r, "dropbear") /\ ~NetAt(r, "hung up")
      BY <2>2 DEF CopyFirmware, FirmwareCopied, LoadWifi, Dhcp, SyncTime, CopyKeys, KeysCopied, NetAt
    <3>. QED BY <3>1, <3>2, RunMoves
  <2>3. CASE KillWpa(r) \/ StartWpa(r)
    <3>1. PICK at \in {"dhcp", "wpa"} : NetGoto(r, at)
      BY <2>3 DEF KillWpa, StartWpa
    <3>2. UNCHANGED dropbear /\ ~NetAt(r, "dropbear") /\ ~NetAt(r, "hung up")
      BY <2>3 DEF KillWpa, StartWpa, NetAt
    <3>. QED BY <3>1, <3>2, RunMoves
  <2>4. CASE KillDropbear(r)
    <3>1. /\ DOMAIN netRun' = NetRuns /\ netRun[r].at = "kill"
          /\ \A q \in NetRuns : netRun'[q] =
               IF netRun[q].ssh /\ netRun[q].at \notin {"idle", "done"} THEN [netRun[q] EXCEPT !.at = "hung up"]
               ELSE IF q = r THEN [netRun[q] EXCEPT !.at = "dropbear"] ELSE netRun[q]
      BY <2>4 DEF KillDropbear, NetAt
    <3>2. \A q \in NetRuns : DOMAIN netRun'[q] = {"at", "ssh"}
      BY <3>1 DEF ServerInv
    <3>3. netRun'[r].at \in {"hung up", "dropbear"}
      BY <3>1 DEF ServerInv
    <3>. QED BY <3>1, <3>2, <3>3 DEF ServerInv, NetAt
  <2>5. CASE StartDropbear(r)
    <3>1. dropbear' /\ NetGoto(r, "done")
      BY <2>5 DEF StartDropbear
    <3>2. DOMAIN netRun' = NetRuns /\ \A q \in NetRuns : DOMAIN netRun'[q] = {"at", "ssh"}
      BY <3>1 DEF NetGoto, ServerInv
    <3>. QED BY <3>1, <3>2 DEF ServerInv
  <2>. QED BY <1>1, <2>1, <2>2, <2>3, <2>4, <2>5 DEF NetStep
<1>2. CASE ProvDone
  <2>1. UNCHANGED dropbear /\ (UNCHANGED netRun \/ \E r \in NetRuns, ssh \in {FALSE, dropbear} : IsNext(r) /\ NetBegins(r, ssh))
    BY <1>2 DEF ProvDone
  <2>2. CASE UNCHANGED netRun
    BY <2>1, <2>2 DEF ServerInv, NetAt
  <2>. QED BY <2>1, <2>2, NetRunBegins
<1>3. CASE PowerCut
  <2>1. /\ DOMAIN netRun' = NetRuns
        /\ \A r \in NetRuns : DOMAIN netRun'[r] = {"at", "ssh"} /\ netRun'[r].at = "idle"
    BY <1>3 DEF PowerCut, NetIdle
  <2>. QED BY <2>1 DEF ServerInv, NetAt
<1>4. CASE UNCHANGED <<netRun, dropbear>>
  BY <1>4 DEF ServerInv, NetAt
<1>. QED
  BY <1>1, <1>2, <1>3, <1>4 DEF NetNext, ProvStep, ProvBegins, Clear, CopyTmp, Install, ProvDies, WpaGone,
     WriteBack, netVars

(* However many runs of nq-start-network overlap, and whatever fails in them, SSH is back when
   the last one is done, unless one of them was hung up by the kill of the server it was run
   over. *)
THEOREM SshIsBack == NetSpec => []SshComesBack
<1>1. ServerInv => SshComesBack
  BY DEF ServerInv, SshComesBack, NetBusy, NetAt
<1>. QED BY <1>1, InitServer, ServerStep, PTL DEF NetSpec
-------------------------------------------------------------------------------
(* Types. *)
NetRunState == [at : {"idle", "wifi", "firmware", "load", "kill wpa", "wpa", "dhcp", "time", "keys", "cp",
                      "kill", "dropbear", "done", "hung up"}, ssh : BOOLEAN]

ProvState == [at : {"idle", "clear", "copy", "done"}, clear : SUBSET Files, copy : SUBSET Files, tmp : Contents]

LEMMA NoRunTypes == NoProv \in ProvState /\ ProvOver \in ProvState /\ NetIdle \in [NetRuns -> NetRunState]
BY DEF NoProv, ProvOver, ProvState, NetIdle, NetRunState, Contents

LEMMA InitNetTypes == NetInit => NetTypeOK
<1>. SUFFICES ASSUME NetInit PROVE NetTypeOK
  OBVIOUS
<1>1. /\ conf \in [Files -> Contents] /\ disk \in [Files -> Contents] /\ rootKeys \in Contents
      /\ loose \subseteq Files /\ torn \subseteq Files
  BY DEF NetInit, Contents
<1>2. prov \in ProvState /\ netRun \in [NetRuns -> NetRunState]
  BY NoRunTypes DEF NetInit
<1>3. firmware \in Contents /\ wpa \in {"none", "up", "dying"}
  BY DEF NetInit, Contents
<1>4. wlan \in BOOLEAN /\ online \in BOOLEAN /\ clockSet \in BOOLEAN /\ dropbear \in BOOLEAN
  BY DEF NetInit
<1>. QED BY <1>1, <1>2, <1>3, <1>4 DEF NetTypeOK, NetRunState, ProvState

LEMMA ProvTypes == NetTypeOK /\ ProvStep => NetTypeOK'
<1>. SUFFICES ASSUME NetTypeOK, ProvStep PROVE NetTypeOK'
  OBVIOUS
<1>1. conf \in [Files -> Contents] /\ prov \in ProvState /\ netRun \in [NetRuns -> NetRunState]
  BY DEF NetTypeOK, ProvState, NetRunState
<1>2. conf' \in [Files -> Contents]
  <2>1. CASE Clear
    BY <1>1, <2>1 DEF Clear, Contents
  <2>2. CASE Install
    <3>1. PICK f : conf' = [conf EXCEPT ![f] = prov.tmp]
      BY <2>2 DEF Install
    <3>2. prov.tmp \in Contents
      BY <1>1 DEF ProvState
    <3>. QED BY <1>1, <3>1, <3>2
  <2>. QED BY <1>1, <2>1, <2>2 DEF ProvStep, ProvBegins, CopyTmp, ProvDies, ProvDone, files
<1>3. prov' \in ProvState
  <2>1. CASE ProvBegins
    BY <2>1 DEF ProvBegins, NoProv, ProvState, Contents
  <2>2. CASE Clear
    <3>1. \/ prov' = [prov EXCEPT !.at = "copy"]
          \/ \E f : prov' = [prov EXCEPT !.clear = @ \ {f}]
      BY <2>2 DEF Clear
    <3>. QED BY <1>1, <3>1 DEF ProvState
  <2>3. CASE CopyTmp
    BY <1>1, <2>3 DEF CopyTmp, ProvState, Contents
  <2>4. CASE Install
    <3>1. PICK f : prov' = [prov EXCEPT !.copy = @ \ {f}, !.tmp = "none"]
      BY <2>4 DEF Install
    <3>. QED BY <1>1, <3>1 DEF ProvState, Contents
  <2>5. CASE ProvDies \/ ProvDone
    BY <2>5, NoRunTypes DEF ProvDies, ProvDone
  <2>. QED BY <2>1, <2>2, <2>3, <2>4, <2>5 DEF ProvStep
<1>4. netRun' \in [NetRuns -> NetRunState]
  <2>1. \/ netRun' = netRun
        \/ \E r \in NetRuns, ssh \in {FALSE, dropbear} : netRun' = [netRun EXCEPT ![r] = [at |-> "wifi", ssh |-> ssh]]
    BY DEF ProvStep, ProvBegins, Clear, CopyTmp, Install, ProvDies, ProvDone, NetBegins
  <2>2. \A ssh \in {FALSE, dropbear} : [at |-> "wifi", ssh |-> ssh] \in NetRunState
    BY DEF NetTypeOK, NetRunState
  <2>. QED BY <1>1, <2>1, <2>2
<1>6. disk' \in [Files -> Contents] /\ loose' \subseteq Files /\ torn' \subseteq Files
  <2>1. disk \in [Files -> Contents] /\ loose \subseteq Files /\ torn \subseteq Files
    BY DEF NetTypeOK
  <2>2. CASE Install
    <3>1. prov.copy \subseteq Files
      BY <1>1 DEF ProvState
    <3>2. PICK f \in prov.copy : loose' = IF conf[f] = "none" THEN loose \cup {f} ELSE loose
      BY <2>2 DEF Install
    <3>3. UNCHANGED <<disk, torn>>
      BY <2>2 DEF Install
    <3>. QED BY <2>1, <3>1, <3>2, <3>3
  <2>3. CASE UNCHANGED medium
    BY <2>1, <2>3 DEF medium
  <2>. QED BY <2>2, <2>3 DEF ProvStep, ProvBegins, Clear, CopyTmp, ProvDies, ProvDone, files
<1>5. UNCHANGED <<firmware, wlan, wpa, online, clockSet, rootKeys, dropbear>>
  BY DEF ProvStep, ProvBegins, Clear, CopyTmp, Install, ProvDies, ProvDone, radio
<1>. QED BY <1>2, <1>3, <1>4, <1>5, <1>6 DEF NetTypeOK, ProvState, NetRunState

LEMMA RunTypes == ASSUME NetTypeOK, NEW r \in NetRuns, NetStep(r) PROVE NetTypeOK'
<1>1. netRun \in [NetRuns -> NetRunState] /\ netRun[r].ssh \in BOOLEAN
  BY DEF NetTypeOK, NetRunState
<1>2. netRun' \in [NetRuns -> NetRunState]
  <2>1. ASSUME NEW at \in {"firmware", "load", "kill wpa", "wpa", "dhcp", "time", "keys", "cp", "kill", "done"},
               NetGoto(r, at)
        PROVE  netRun' \in [NetRuns -> NetRunState]
    BY <1>1, <2>1 DEF NetGoto, NetRunState
  <2>2. CASE StartNetwork(r)
    <3>1. PICK ssh \in {FALSE, dropbear} : NetBegins(r, ssh)
      BY <2>2 DEF StartNetwork
    <3>2. ssh \in BOOLEAN
      BY DEF NetTypeOK
    <3>3. [at |-> "wifi", ssh |-> ssh] \in NetRunState
      BY <3>2 DEF NetRunState
    <3>. QED BY <1>1, <3>1, <3>3 DEF NetBegins
  <2>3. CASE KillDropbear(r)
    <3>. DEFINE after(q) == IF netRun[q].ssh /\ netRun[q].at \notin {"idle", "done"} THEN [netRun[q] EXCEPT !.at = "hung up"]
                          ELSE IF q = r THEN [netRun[q] EXCEPT !.at = "dropbear"] ELSE netRun[q]
    <3>1. \A q \in NetRuns : after(q) \in NetRunState
      BY <1>1 DEF NetRunState
    <3>2. netRun' = [q \in NetRuns |-> after(q)]
      BY <2>3 DEF KillDropbear
    <3>. QED BY <3>1, <3>2
  <2>. QED
    BY <2>1, <2>2, <2>3 DEF NetStep, CopyFirmware, FirmwareCopied, LoadWifi, KillWpa, StartWpa, Dhcp, SyncTime,
       CopyKeys, KeysCopied, StartDropbear
<1>3. UNCHANGED <<conf, disk, loose, torn, prov>>
  BY DEF files, medium, NetStep, StartNetwork, CopyFirmware, FirmwareCopied, LoadWifi, KillWpa, StartWpa, Dhcp, SyncTime, CopyKeys,
     KeysCopied, KillDropbear, StartDropbear
<1>4. /\ rootKeys' \in Contents /\ firmware' \in Contents /\ wpa' \in {"none", "up", "dying"}
  BY DEF NetTypeOK, Contents, radio, NetStep, StartNetwork, CopyFirmware, FirmwareCopied, LoadWifi, KillWpa, StartWpa,
     Dhcp, SyncTime, CopyKeys, KeysCopied, KillDropbear, StartDropbear
<1>5. wlan' \in BOOLEAN /\ online' \in BOOLEAN /\ clockSet' \in BOOLEAN /\ dropbear' \in BOOLEAN
  <2>1. wlan \in BOOLEAN /\ online \in BOOLEAN /\ clockSet \in BOOLEAN /\ dropbear \in BOOLEAN
    BY DEF NetTypeOK
  <2>2. CASE LoadWifi(r) \/ Dhcp(r) \/ SyncTime(r)
    BY <2>1, <2>2 DEF LoadWifi, Dhcp, SyncTime
  <2>3. CASE KillDropbear(r) \/ StartDropbear(r)
    BY <2>1, <2>3 DEF KillDropbear, StartDropbear, radio
  <2>4. CASE UNCHANGED <<wlan, online, clockSet, dropbear>>
    BY <2>1, <2>4
  <2>. QED
    BY <2>2, <2>3, <2>4 DEF radio, NetStep, StartNetwork, CopyFirmware, FirmwareCopied, KillWpa, StartWpa, CopyKeys,
       KeysCopied
<1>. QED BY <1>2, <1>3, <1>4, <1>5 DEF NetTypeOK, NetRunState

LEMMA NetTypesStep == NetTypeOK /\ [NetNext]_netVars => NetTypeOK'
<1>1. CASE WpaGone
  BY <1>1 DEF WpaGone, NetTypeOK, files, medium
<1>2. CASE PowerCut
  <2>1. /\ conf' \in [Files -> Contents] /\ disk' = conf' /\ loose' = {} /\ torn' = torn \cup loose
        /\ rootKeys' \in Contents /\ firmware' \in Contents
    BY <1>2 DEF PowerCut, Contents
  <2>2. prov' \in ProvState /\ netRun' \in [NetRuns -> NetRunState]
    BY <1>2, NoRunTypes DEF PowerCut
  <2>3. wpa' = "none" /\ wlan' \in BOOLEAN /\ online' \in BOOLEAN /\ clockSet' \in BOOLEAN /\ dropbear' \in BOOLEAN
    BY <1>2 DEF PowerCut
  <2>. QED BY <2>1, <2>2, <2>3 DEF NetTypeOK, ProvState, NetRunState
<1>4. ASSUME NEW f \in Files, WriteBack(f) PROVE NetTypeOK => NetTypeOK'
  <2>. SUFFICES ASSUME NetTypeOK PROVE NetTypeOK'
    OBVIOUS
  <2>2. /\ disk' = [disk EXCEPT ![f] = conf[f]] /\ loose' = loose \ {f} /\ torn' \in {torn, torn \ {f}}
        /\ UNCHANGED <<conf, prov, netRun, radio, rootKeys, dropbear>>
    BY <1>4 DEF WriteBack
  <2>3. conf \in [Files -> Contents] /\ disk \in [Files -> Contents] /\ loose \subseteq Files /\ torn \subseteq Files
    BY DEF NetTypeOK
  <2>4. disk' \in [Files -> Contents]
    <3>1. conf[f] \in Contents
      BY <2>3
    <3>. HIDE DEF Contents, Files
    <3>. QED BY <2>2, <2>3, <3>1
  <2>5. loose' \subseteq Files /\ torn' \subseteq Files
    BY <2>2, <2>3
  <2>6. UNCHANGED <<conf, prov, netRun, firmware, wlan, wpa, online, clockSet, rootKeys, dropbear>>
    BY <2>2 DEF radio
  <2>. QED BY <2>4, <2>5, <2>6 DEF NetTypeOK
<1>3. CASE UNCHANGED netVars
  BY <1>3 DEF netVars, NetTypeOK
<1>. QED BY <1>1, <1>2, <1>3, <1>4, ProvTypes, RunTypes DEF NetNext
-------------------------------------------------------------------------------
(* The programs side by side: one of them moves, and the others stay as they were. *)
ApplianceInv == SvcInv /\ AdbdInv /\ BootInv /\ NetTypeOK /\ BtInv /\ BuildInv

LEMMA InitAppliance == ApplianceInit => ApplianceInv
BY InitSvc, InitAdbd, InitBoot, InitNetTypes, InitBt, InitBuild DEF ApplianceInit, ApplianceInv

LEMMA EachSteps ==
  ASSUME [ApplianceNext]_all
  PROVE  /\ [SvcNext]_svcVars /\ [AdbdNext]_adbdVars /\ [BootNext]_bootVars
         /\ [NetNext]_netVars /\ [BtNext]_btVars /\ [BuildNext]_buildVars
BY DEF ApplianceNext, OneBoot, ManyBoots, NetNext, all

LEMMA ApplianceStep == ApplianceInv /\ [ApplianceNext]_all => ApplianceInv'
BY EachSteps, SvcStep, AdbdStep, BootTypesStep, NetTypesStep, BtStep, BuildStep DEF ApplianceInv

(* The state of every program around the players stays in its types, for every value of their
   constants: nq-start-adbd spawns no more daemons than its attempts, the lease is never longer
   than it was granted, and the builder keeps to the packages of its index. *)
THEOREM TypesCorrect == ApplianceSpec => []TypesOK
<1>1. ApplianceInv => TypesOK
  BY TypedIsAdbdTypeOK DEF ApplianceInv, TypesOK, SvcInv, AdbdInv, BootInv, BtInv, BuildInv
<1>. QED BY <1>1, InitAppliance, ApplianceStep, PTL DEF ApplianceSpec
===============================================================================
