--------------------------------- MODULE Boot ---------------------------------
(***************************************************************************)
(* The boot of the appliance and the two ways it comes back by itself.     *)
(* debian-loader-init, in the initramfs, opens /dev/watchdog for a bounded *)
(* lease and switches to nq-init, which tries to open it too, arms the     *)
(* autoreboot timer of the kernel command line, starts the services and    *)
(* ends in a shell.  start_watchdog_feeder_remote.sh is run over SSH.      *)
(* /dev/watchdog admits one opener and ticks on after a close (nowayout).  *)
(* Its timeout is the one last written to sysfs, which may refuse it, and  *)
(* each feeder sleeps by settings of its own.  One Tick is a second; only  *)
(* the watchdog is timed.                                                  *)
(***************************************************************************)
EXTENDS Naturals, Sequences

CONSTANTS
  DogTimeouts,     \* values of nq.watchdog; 0: none
  LeaseSecs,       \* nq.watchdog_boot_grace
  DriverTimeout,   \* what the driver keeps when it is given no other
  RootTimeout,     \* NQ_WATCHDOG_TIMEOUT of start_watchdog_feeder_remote.sh
  RootInterval     \* its NQ_WATCHDOG_INTERVAL

ASSUME BootAssumption ==
  /\ DogTimeouts \subseteq Nat /\ LeaseSecs \in Nat \ {0}
  /\ DriverTimeout \in Nat \ {0} /\ RootTimeout \in Nat \ {0} /\ RootInterval \in Nat

Stages == <<"off", "loader", "shell", "watchdog", "autoreboot", "network", "services", "rescue">>

VARIABLES
  stage,     \* where the loader and then nq-init is: an index into Stages
  dog,       \* nq.watchdog; timeout, 0 before the first open; holder of /dev/watchdog; seconds since it
             \* was fed; seconds the holder still sleeps; seconds of the lease
  rootTool,  \* start_watchdog_feeder_remote.sh: not run, found a holder, waiting to open
  timer,     \* the autoreboot subshell: asked for, asleep, fired
  timerFile, \* /run/nq-autoreboot.pid
  cancelled, \* history: nq-autoreboot-cancel has killed a timer that was asleep
  leaving,   \* nq-reboot-fastboot: the last stage that was begun
  hung,      \* a sync of it that never returns
  device     \* up, down by a reboot, or bitten by the watchdog

bootVars == <<stage, dog, rootTool, timer, timerFile, cancelled, leaving, hung, device>>

(* sync; the fallback is forked and reboot-bootloader called; the fallback's sync;
   reboot-bootloader again; reboot -f; sysrq. *)
LastResort == 6
Syncs == {1, 3}

BootInit ==
  /\ stage = 1
  /\ dog = [asked |-> 0, timeout |-> 0, holder |-> "none", unfed |-> 0, nap |-> 0, lease |-> 0]
  /\ rootTool = "not run"
  /\ timer = "none" /\ timerFile = FALSE /\ cancelled = FALSE
  /\ leaving = 0 /\ hung = FALSE /\ device = "up"

Reached(s) == \E n \in 1..stage : Stages[n] = s
InStage(s) == device = "up" /\ Stages[stage] = s
Proceed == stage' = stage + 1
rebooting == <<timer, timerFile, cancelled, leaving, hung>>

(* Mutant of Interval: no smaller bound, and no third. *)
IntervalWhole(timeout) == timeout

Interval(timeout) == IF timeout \div 3 >= 5 THEN timeout \div 3 ELSE 5

RootSleep == IF RootInterval >= 5 THEN RootInterval ELSE 5

(* Between two feeds the loader and nq-init sleep by nq.watchdog, the remote tool by its own
   setting. *)
Sleep(d, holder) == IF holder = "root" THEN RootSleep ELSE Interval(d.asked)

(* The first feed of a holder, which then sleeps. *)
Held(d, holder) ==
  [d EXCEPT !.holder = holder, !.unfed = 0, !.nap = Sleep(d, holder)]

(* The timeout is written to sysfs; before the first open it is the driver's. *)
Written(timeout) == {timeout, IF dog.timeout = 0 THEN DriverTimeout ELSE dog.timeout}

(* The power comes on; the loader starts its feeder when the command line asks for one and
   the device node is there. *)
PowerOn ==
  /\ InStage("off") /\ Proceed
  /\ \E asked \in DogTimeouts :
       IF asked = 0 THEN dog' = dog
       ELSE \E timeout \in Written(asked) :
              dog' = Held([dog EXCEPT !.asked = asked, !.timeout = timeout], "lease")
  /\ timer' \in {"none", "asked"}
  /\ UNCHANGED <<rootTool, timerFile, cancelled, leaving, hung, device>>

(* No root device, no mount or no nq-init: the loader reboots. *)
LoaderFails ==
  /\ InStage("loader") /\ device' = "down"
  /\ UNCHANGED <<stage, dog, rootTool, rebooting>>

SwitchRoot ==
  /\ InStage("loader") /\ Proceed
  /\ UNCHANGED <<dog, rootTool, rebooting, device>>

(* configure_usb_gadget and start_usb_shell: from here on a user has a shell. *)
UsbShell ==
  /\ InStage("shell") /\ Proceed
  /\ UNCHANGED <<dog, rootTool, rebooting, device>>

(* start_watchdog_feeder of nq-init writes the timeout again; its subshell ends at once when
   the device is held. *)
InitFeeder ==
  /\ InStage("watchdog") /\ Proceed
  /\ IF dog.asked = 0 THEN dog' = dog
     ELSE \E timeout \in Written(dog.asked) :
            LET set == [dog EXCEPT !.timeout = timeout]
            IN  dog' = IF dog.holder = "none" THEN Held(set, "init") ELSE set
  /\ UNCHANGED <<rootTool, rebooting, device>>

(* The subshell of the timer, and then its pid file. *)
ArmTimer ==
  /\ InStage("autoreboot") /\ timer = "asked"
  /\ timer' = "asleep"
  /\ UNCHANGED <<stage, dog, rootTool, timerFile, cancelled, leaving, hung, device>>

WriteTimerFile ==
  /\ InStage("autoreboot") /\ timer # "asked" /\ Proceed
  /\ timerFile' = (timer # "none")
  /\ UNCHANGED <<dog, rootTool, timer, cancelled, leaving, hung, device>>

(* Links, ADB and the network, and then the services: each script may fail, and nq-init
   goes on. *)
StartServices ==
  /\ InStage("network") \/ InStage("services")
  /\ Proceed
  /\ UNCHANGED <<dog, rootTool, rebooting, device>>
-------------------------------------------------------------------------------
(* A holder wakes up and feeds; the lease is over when its seconds are. *)
Feed ==
  /\ device = "up" /\ dog.holder # "none" /\ dog.nap = 0
  /\ LET slept == [dog EXCEPT !.lease = IF dog.holder = "lease" THEN @ + Interval(dog.asked) ELSE @]
     IN  dog' = IF dog.holder = "lease" /\ slept.lease >= LeaseSecs
                THEN [slept EXCEPT !.holder = "none", !.lease = LeaseSecs] ELSE Held(slept, dog.holder)
  /\ UNCHANGED <<stage, rootTool, rebooting, device>>

(* A second passes; a feeder that is due runs first. *)
Tick ==
  /\ device = "up" /\ dog.timeout # 0 /\ (dog.holder = "none" \/ dog.nap > 0)
  /\ dog' = [dog EXCEPT !.unfed = @ + 1, !.nap = IF @ = 0 THEN 0 ELSE @ - 1]
  /\ device' = IF dog.unfed + 1 >= dog.timeout THEN "bitten" ELSE device
  /\ UNCHANGED <<stage, rootTool, rebooting>>

(* start_watchdog_feeder_remote.sh writes its timeout, and then any process that holds the
   device is taken for a root feeder; else a feeder is launched, which tries until it has the
   device. *)
RunRootTool ==
  /\ device = "up" /\ Reached("services") /\ rootTool = "not run"
  /\ dog' \in {[dog EXCEPT !.timeout = timeout] : timeout \in IF dog.timeout = 0 THEN {0} ELSE Written(RootTimeout)}
  /\ rootTool' = IF dog.holder # "none" THEN "found" ELSE "waiting"
  /\ UNCHANGED <<stage, rebooting, device>>

RootFeederOpens ==
  /\ device = "up" /\ rootTool = "waiting" /\ dog.holder = "none"
  /\ \E timeout \in Written(RootTimeout) : dog' = Held([dog EXCEPT !.timeout = timeout], "root")
  /\ UNCHANGED <<stage, rootTool, rebooting, device>>
-------------------------------------------------------------------------------
(* The timer fires: nq-reboot-fastboot begins with a sync. *)
TimerFires ==
  /\ device = "up" /\ timer = "asleep"
  /\ timer' = "fired" /\ leaving' = 1
  /\ UNCHANGED <<stage, dog, rootTool, timerFile, cancelled, hung, device>>

(* Mutant of FallbackStage: the fallback ends with the forced reboot. *)
FallbackStops ==
  /\ device = "up" /\ ~hung /\ leaving \in 1..(LastResort - 2) /\ leaving' = leaving + 1
  /\ UNCHANGED <<stage, dog, rootTool, timer, timerFile, cancelled, hung, device>>

(* The sync has returned, or the device is still up when the time of this stage is over. *)
FallbackStage ==
  /\ device = "up" /\ ~hung /\ leaving \in 1..(LastResort - 1) /\ leaving' = leaving + 1
  /\ UNCHANGED <<stage, dog, rootTool, timer, timerFile, cancelled, hung, device>>

(* A sync that waits for a disk that does not answer: nothing behind it is reached. *)
SyncHangs ==
  /\ device = "up" /\ ~hung /\ leaving \in Syncs
  /\ hung' = TRUE
  /\ UNCHANGED <<stage, dog, rootTool, timer, timerFile, cancelled, leaving, device>>

(* A reboot that was called may work or not; the last one does. *)
Reboots ==
  /\ device = "up" /\ leaving >= 2
  /\ device' = "down"
  /\ UNCHANGED <<stage, dog, rootTool, rebooting>>

(* Mutant of CancelTimer: the file goes, the timer stays. *)
ForgetTimer ==
  /\ device = "up" /\ Reached("watchdog")
  /\ timerFile' = FALSE
  /\ cancelled' = (cancelled \/ (timerFile /\ timer = "asleep"))
  /\ UNCHANGED <<stage, dog, rootTool, timer, leaving, hung, device>>

(* nq-autoreboot-cancel: a timer that has fired, or that has no file yet, goes on. *)
CancelTimer ==
  /\ device = "up" /\ Reached("watchdog")
  /\ timerFile' = FALSE
  /\ timer' = IF timerFile /\ timer = "asleep" THEN "none" ELSE timer
  /\ cancelled' = (cancelled \/ (timerFile /\ timer = "asleep"))
  /\ UNCHANGED <<stage, dog, rootTool, leaving, hung, device>>

BootStep == SwitchRoot \/ UsbShell \/ InitFeeder \/ ArmTimer \/ WriteTimerFile \/ StartServices

BootNext ==
  \/ PowerOn \/ LoaderFails \/ BootStep
  \/ Feed \/ Tick \/ RunRootTool \/ RootFeederOpens
  \/ TimerFires \/ FallbackStage \/ SyncHangs \/ Reboots \/ CancelTimer

(* The fallback runs beside a reboot that hangs, a sync that does not hang returns, and sysrq
   works. *)
BootFairness == WF_bootVars(FallbackStage) /\ WF_bootVars(leaving = LastResort /\ Reboots)

BootSpec == BootInit /\ [][BootNext]_bootVars /\ BootFairness
-------------------------------------------------------------------------------
BootTypeOK ==
  /\ stage \in 1..Len(Stages)
  /\ dog.asked \in DogTimeouts \cup {0}
  /\ dog.timeout \in DogTimeouts \cup {0, DriverTimeout, RootTimeout}
  /\ dog.holder \in {"none", "lease", "init", "root"}
  /\ dog.unfed \in Nat /\ dog.nap \in Nat /\ dog.lease \in 0..LeaseSecs
  /\ rootTool \in {"not run", "found", "waiting"}
  /\ timer \in {"none", "asked", "asleep", "fired"} /\ timerFile \in BOOLEAN /\ cancelled \in BOOLEAN
  /\ leaving \in 0..LastResort /\ hung \in BOOLEAN /\ device \in {"up", "down", "bitten"}

(* The settings under which a feeder has to be late: the remote tool was given an interval that
   reaches the timeout; nq.watchdog is not above the 5 seconds an interval has at least; or the
   watchdog keeps a timeout three times shorter than nq.watchdog, the driver's because the
   write was refused, or the one the remote tool has written. *)
TooShort ==
  \/ dog.holder = "root" /\ dog.timeout <= RootSleep
  \/ dog.holder # "root" /\ (dog.timeout <= 5 \/ 3 * dog.timeout <= dog.asked)

(* Whoever holds /dev/watchdog feeds it in time, in all three programs and however the device
   passes from one to the next: the watchdog bites only when nobody holds it, or when the
   settings leave its holder no time. *)
FedInTime == device = "bitten" => dog.holder = "none" \/ TooShort

(* A timer that nq-autoreboot-cancel has stopped before it fired takes the device down
   no more, wherever nq-init is. *)
CancelHolds == cancelled => leaving = 0

(* A timer that fires takes the device down, whichever reboot hangs, unless a sync does: the
   first one holds up the fallback as well. *)
FiredReboots == (leaving > 0) ~> (device # "up" \/ hung)

(* MODERN_KERNEL_SPIKE.md, of a device that SSH reaches: the tool "starts a rootfs feeder
   that waits for /dev/watchdog to become available and then keeps healthy short experiments
   from being interrupted".  A tool that has found a holder has ended. *)
RootFeederKeepsUp ==
  rootTool = "found" /\ dog.timeout > RootSleep /\ ~TooShort => device # "bitten"
===============================================================================
