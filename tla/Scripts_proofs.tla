---------------------------- MODULE Scripts_proofs ----------------------------
(***************************************************************************)
(* Proofs about the start scripts, for every set of their runs, every      *)
(* number of tries, attempts and faults: AdbdStart, with its lock, and     *)
(* Services, without one; and about the command of BluetoothPlayer, for    *)
(* every number of phones.                                                 *)
(***************************************************************************)
EXTENDS AdbdStart, Services, BluetoothPlayer, FiniteSetTheorems, WellFoundedInduction, TLAPS

(* AdbdStart: the lock. *)

Places == {"idle", "lock", "restart", "look", "stale", "spawn", "verify", "retry", "done",
           "gave up", "failed"}
Section == {"restart", "look", "stale", "spawn", "verify", "retry"}

(* Whoever is in the section holds the lock, alone, while no signal has taken it from anyone.
   A run that leaves removes the lock without looking whose it is, so that the second
   conjunct does not hold without the third. *)
LockInv ==
  /\ DOMAIN adbStart = AdbStarts
  /\ \A s \in AdbStarts : DOMAIN adbStart[s] = {"at", "tries", "attempt", "restart"}
  /\ ~broken.lock =>
       /\ \A s \in AdbStarts : adbStart[s].at \in Section => lockDir
       /\ \A s, r \in AdbStarts : adbStart[s].at \in Section /\ adbStart[r].at \in Section => s = r
  /\ DOMAIN broken = {"lock", "left"}
-------------------------------------------------------------------------------
LEMMA InitLock == AdbdInit => LockInv
BY DEF AdbdInit, LockInv, Section

(* One run moves; it is the one inside, or was let in, or leaves, and takes the lock along. *)
LEMMA OneRun ==
  ASSUME LockInv, NEW s \in AdbStarts, UNCHANGED broken,
         DOMAIN adbStart' = AdbStarts, \A r \in AdbStarts \ {s} : adbStart'[r] = adbStart[r],
         DOMAIN adbStart'[s] = DOMAIN adbStart[s],
         \/ adbStart[s].at \in Section /\ adbStart'[s].at \in Section /\ lockDir' = lockDir
         \/ ~lockDir /\ lockDir' = TRUE
         \/ adbStart[s].at \in Section /\ adbStart'[s].at \notin Section
         \/ adbStart[s].at \notin Section /\ adbStart'[s].at \notin Section /\ lockDir' = lockDir
  PROVE  LockInv'
BY DEF LockInv

(* The record of a run after a step of it. *)
LEMMA Moved ==
  ASSUME LockInv, NEW s \in AdbStarts, NEW at, Moves(s, at)
  PROVE  /\ DOMAIN adbStart' = AdbStarts /\ \A r \in AdbStarts \ {s} : adbStart'[r] = adbStart[r]
         /\ DOMAIN adbStart'[s] = DOMAIN adbStart[s] /\ adbStart'[s].at = at
BY DEF LockInv, Moves

LEMMA LockStep == LockInv /\ [AdbdNext]_adbdVars => LockInv'
<1>. SUFFICES ASSUME LockInv, [AdbdNext]_adbdVars PROVE LockInv'
  OBVIOUS
<1>. USE DEF Section
<1>1. ASSUME NEW s \in AdbStarts, AdbBegins(s) \/ AdbStartStep(s) \/ StartSignalled(s) \/ StartKilled(s)
      PROVE  LockInv'
  <2>. USE DEF Where, daemon, LeaveStart
  <2>0. DOMAIN adbStart = AdbStarts /\ DOMAIN adbStart[s] = {"at", "tries", "attempt", "restart"}
    BY DEF LockInv
  <2>1. CASE AdbBegins(s)
    <3>1. PICK b \in BOOLEAN : adbStart' = [adbStart EXCEPT ![s].at = "lock", ![s].restart = b]
      BY <2>1 DEF AdbBegins
    <3>2. /\ DOMAIN adbStart' = AdbStarts /\ \A r \in AdbStarts \ {s} : adbStart'[r] = adbStart[r]
          /\ DOMAIN adbStart'[s] = DOMAIN adbStart[s] /\ adbStart'[s].at = "lock"
      BY <2>0, <3>1
    <3>. QED BY <2>1, <3>2, OneRun DEF AdbBegins
  <2>2. CASE TakeLock(s)
    <3>1. PICK at \in {"restart", "look"} : Moves(s, at)
      BY <2>2 DEF TakeLock
    <3>. QED BY <2>2, <3>1, Moved, OneRun DEF TakeLock
  <2>3. CASE LockBusy(s)
    <3>1. /\ DOMAIN adbStart' = AdbStarts /\ \A r \in AdbStarts \ {s} : adbStart'[r] = adbStart[r]
          /\ DOMAIN adbStart'[s] = DOMAIN adbStart[s] /\ adbStart'[s].at \in {"gave up", "lock"}
      BY <2>0, <2>3 DEF LockBusy
    <3>2. adbStart[s].at = "lock" /\ UNCHANGED <<broken, lockDir>>
      BY <2>3 DEF LockBusy
    <3>. QED BY <3>1, <3>2, OneRun
  <2>4. CASE StopAdbd(s)
    <3>1. PICK at \in {"look", "spawn"} : Moves(s, at)
      BY <2>4 DEF StopAdbd
    <3>2. adbStart[s].at \in {"restart", "stale"} /\ UNCHANGED broken /\ UNCHANGED lockDir
      BY <2>4 DEF StopAdbd
    <3>. QED BY <3>1, <3>2, Moved, OneRun
  <2>5. CASE LookAtDaemon(s)
    <3>1. PICK at \in {"done", "stale", "spawn"} : Moves(s, at) /\ (at # "done" => lockDir' = lockDir)
      BY <2>5 DEF LookAtDaemon
    <3>2. adbStart[s].at = "look" /\ UNCHANGED broken
      BY <2>5 DEF LookAtDaemon
    <3>. QED BY <3>1, <3>2, Moved, OneRun
  <2>6. CASE SpawnAdbd(s)
    <3>1. Moves(s, "verify") /\ adbStart[s].at = "spawn" /\ lockDir' = lockDir /\ UNCHANGED broken
      BY <2>6 DEF SpawnAdbd
    <3>. QED BY <3>1, Moved, OneRun
  <2>7. CASE VerifyAdbd(s)
    <3>1. PICK at \in {"done", "retry"} : Moves(s, at) /\ (at # "done" => lockDir' = lockDir)
      BY <2>7 DEF VerifyAdbd
    <3>2. adbStart[s].at = "verify" /\ UNCHANGED broken
      BY <2>7 DEF VerifyAdbd
    <3>3. CASE at = "done"
      BY <3>1, <3>2, <3>3, Moved, OneRun
    <3>4. CASE at = "retry"
      BY <3>1, <3>2, <3>4, Moved, OneRun
    <3>. QED BY <3>1, <3>3, <3>4
  <2>8. CASE RetryAdbd(s)
    <3>1. CASE LeaveStart(s, "failed")
      <4>1. adbStart[s].at = "retry" /\ UNCHANGED broken /\ Moves(s, "failed")
        BY <2>8, <3>1 DEF RetryAdbd
      <4>2. /\ DOMAIN adbStart' = AdbStarts /\ \A r \in AdbStarts \ {s} : adbStart'[r] = adbStart[r]
            /\ DOMAIN adbStart'[s] = DOMAIN adbStart[s] /\ adbStart'[s].at = "failed"
        BY <4>1, Moved
      <4>. QED BY <4>1, <4>2, OneRun
    <3>2. CASE adbStart' = [adbStart EXCEPT ![s].at = "spawn", ![s].attempt = @ + 1] /\ UNCHANGED lockDir
      <4>. DEFINE r0 == [adbStart[s] EXCEPT !.at = "spawn", !.attempt = @ + 1]
      <4>1. adbStart' = [adbStart EXCEPT ![s] = r0]
        BY <2>0, <3>2
      <4>3. DOMAIN r0 = DOMAIN adbStart[s] /\ r0.at = "spawn"
        BY <2>0
      <4>. HIDE DEF r0
      <4>4. /\ DOMAIN adbStart' = AdbStarts /\ \A r \in AdbStarts \ {s} : adbStart'[r] = adbStart[r]
            /\ DOMAIN adbStart'[s] = DOMAIN adbStart[s] /\ adbStart'[s].at = "spawn"
        BY <2>0, <4>1, <4>3
      <4>2. adbStart[s].at = "retry" /\ UNCHANGED <<broken, lockDir>>
        BY <2>8, <3>2 DEF RetryAdbd
      <4>. QED BY <4>4, <4>2, OneRun
    <3>. QED BY <2>8, <3>1, <3>2 DEF RetryAdbd
  <2>9. CASE StartSignalled(s)
    BY <2>0, <2>9 DEF StartSignalled, LockInv
  <2>10. CASE StartKilled(s)
    <3>1. /\ DOMAIN adbStart' = AdbStarts /\ \A r \in AdbStarts \ {s} : adbStart'[r] = adbStart[r]
          /\ DOMAIN adbStart'[s] = DOMAIN adbStart[s] /\ adbStart'[s].at \notin Section
          /\ lockDir' = lockDir /\ broken'.lock = broken.lock /\ DOMAIN broken' = DOMAIN broken
      BY <2>0, <2>10, Moved DEF StartKilled, LockInv
    <3>. QED BY <3>1 DEF LockInv
  <2>. QED
    BY <1>1, <2>1, <2>2, <2>3, <2>4, <2>5, <2>6, <2>7, <2>8, <2>9, <2>10 DEF AdbStartStep
<1>2. CASE DaemonCrashes \/ HostConnects \/ HostLeaves \/ UNCHANGED adbdVars
  BY <1>2 DEF DaemonCrashes, HostConnects, HostLeaves, adbdVars, LockInv
<1>. QED BY <1>1, <1>2 DEF AdbdNext

(* The lock of nq-start-adbd admits one run at a time, however many try and however often the
   daemon, a connection or a run dies, until INT or TERM reaches a run inside: its trap removes
   the lock and the run goes on. *)
THEOREM LockIsExclusive == AdbdSpec => []LockExcludes
<1>1. LockInv => LockExcludes
  <2>. SUFFICES ASSUME LockInv, ~broken.lock PROVE Cardinality(InSection) <= 1
    BY DEF LockExcludes
  <2>1. \A s, r \in InSection : s = r
    BY DEF LockInv, InSection, Section
  <2>2. CASE InSection = {}
    BY <2>2, FS_EmptySet
  <2>3. CASE InSection # {}
    <3>1. PICK s \in InSection : TRUE
      BY <2>3
    <3>2. InSection = {s}
      BY <2>1, <3>1
    <3>3. Cardinality({s}) = 1
      BY FS_Singleton
    <3>. QED BY <3>2, <3>3
  <2>. QED BY <2>2, <2>3
<1>. QED BY <1>1, InitLock, LockStep, PTL DEF AdbdSpec
-------------------------------------------------------------------------------
(* Types.  Each attempt of a run spawns one daemon at most: the attempts that are past their
   spawn count the daemons. *)
AdbRunState == [at : Places, tries : 0..LockTries, attempt : 1..Attempts, restart : BOOLEAN]
BeforeSpawn == {"idle", "lock", "restart", "look", "stale", "spawn"}
Tried == {t \in AdbStarts \X (1..Attempts) :
            \/ t[2] < adbStart[t[1]].attempt
            \/ t[2] = adbStart[t[1]].attempt /\ adbStart[t[1]].at \notin BeforeSpawn}

Most == Cardinality(AdbStarts) * Attempts

AdbdTyped ==
  /\ lockDir \in BOOLEAN /\ conns \in BOOLEAN
  /\ listener \in 0..Most /\ adbdPid \in 0..Most /\ spawned \in 0..Most
  /\ adbStart \in [AdbStarts -> AdbRunState]
  /\ faults \in 0..MaxAdbFaults /\ broken \in [lock : BOOLEAN, left : BOOLEAN]

AdbdInv ==
  /\ AdbdTyped
  /\ \A s \in AdbStarts : adbStart[s].at \in {"idle", "lock"} => adbStart[s].tries < LockTries
  /\ spawned <= Cardinality(Tried)
  /\ listener <= spawned /\ adbdPid <= spawned

LEMMA AttemptsFinite ==
  /\ IsFiniteSet(AdbStarts \X (1..Attempts))
  /\ Cardinality(AdbStarts \X (1..Attempts)) = Cardinality(AdbStarts) * Attempts
  /\ Cardinality(AdbStarts) \in Nat
<1>1. IsFiniteSet(1..Attempts) /\ Cardinality(1..Attempts) = Attempts
  BY FS_Interval, AdbdAssumption
<1>. QED BY <1>1, FS_Product, FS_CardinalityType, AdbdAssumption

LEMMA TriedFinite ==
  ASSUME NEW T, T \subseteq AdbStarts \X (1..Attempts)
  PROVE  IsFiniteSet(T) /\ Cardinality(T) \in Nat /\ Cardinality(T) <= Most
<1>1. IsFiniteSet(T) /\ Cardinality(T) <= Cardinality(AdbStarts \X (1..Attempts))
  BY AttemptsFinite, FS_Subset
<1>. QED BY <1>1, AttemptsFinite, FS_CardinalityType DEF Most

LEMMA TriedIsAttempts == Tried \subseteq AdbStarts \X (1..Attempts)
BY DEF Tried

LEMMA MostType == Most \in Nat
BY AttemptsFinite, AdbdAssumption DEF Most

LEMMA TypedIsAdbdTypeOK == AdbdTyped <=> AdbdTypeOK
<1>1. DaemonPids = 1..Most
  BY DEF DaemonPids, Most
<1>2. 0..Most = 0..(Cardinality(AdbStarts) * Attempts) /\ 0..Most = DaemonPids \cup {NoDaemon}
  <2>1. 0..Most = (1..Most) \cup {0}
    BY MostType
  <2>. QED BY <1>1, <2>1 DEF NoDaemon, Most
<1>. QED BY <1>2 DEF AdbdTyped, AdbdTypeOK, AdbRunState, Places

LEMMA InitAdbd == AdbdInit => AdbdInv
<1>. SUFFICES ASSUME AdbdInit PROVE AdbdInv
  OBVIOUS
<1>1. 1 \in 1..Attempts /\ 0 \in 0..LockTries /\ 0 \in 0..Most /\ 0 \in 0..MaxAdbFaults
  BY MostType, AdbdAssumption
<1>2. AdbdTyped
  BY <1>1 DEF AdbdInit, AdbdTyped, AdbRunState, Places, NoDaemon
<1>3. 0 <= Cardinality(Tried)
  BY TriedFinite, TriedIsAttempts
<1>4. \A s \in AdbStarts : adbStart[s].tries < LockTries
  BY AdbdAssumption DEF AdbdInit
<1>5. spawned = 0 /\ listener = 0 /\ adbdPid = 0
  BY DEF AdbdInit, NoDaemon
<1>. QED BY <1>2, <1>3, <1>4, <1>5 DEF AdbdInv

(* A run that spawns nothing forgets no attempt. *)
LEMMA StillTried ==
  ASSUME AdbdInv, spawned' = spawned, Tried \subseteq Tried' PROVE spawned' <= Cardinality(Tried')
<1>0. Tried' \subseteq AdbStarts \X (1..Attempts)
  BY DEF Tried
<1>1. IsFiniteSet(Tried') /\ Cardinality(Tried') \in Nat
  BY <1>0, TriedFinite
<1>2. Cardinality(Tried) <= Cardinality(Tried')
  BY <1>1, FS_Subset
<1>3. spawned <= Cardinality(Tried) /\ spawned \in Nat /\ Cardinality(Tried) \in Nat
  BY TriedFinite, TriedIsAttempts, MostType DEF AdbdInv, AdbdTyped
<1>. QED BY <1>1, <1>2, <1>3

(* A step of one run that spawns nothing. *)
LEMMA AdbRunSteps ==
  ASSUME AdbdInv, NEW s \in AdbStarts, NEW next \in AdbRunState, adbStart' = [adbStart EXCEPT ![s] = next],
         next.at \in {"idle", "lock"} => next.tries < LockTries,
         \/ next.attempt = adbStart[s].attempt /\ (adbStart[s].at \notin BeforeSpawn => next.at \notin BeforeSpawn)
         \/ next.attempt = adbStart[s].attempt + 1,
         spawned' = spawned, lockDir' \in BOOLEAN, conns' \in BOOLEAN,
         listener' \in {listener, NoDaemon}, adbdPid' \in {adbdPid, NoDaemon},
         faults' \in 0..MaxAdbFaults, broken' \in [lock : BOOLEAN, left : BOOLEAN]
  PROVE  AdbdInv'
<1>1. adbStart \in [AdbStarts -> AdbRunState]
  BY DEF AdbdInv, AdbdTyped
<1>2. /\ adbStart' \in [AdbStarts -> AdbRunState] /\ adbStart'[s] = next
      /\ \A r \in AdbStarts \ {s} : adbStart'[r] = adbStart[r]
  BY <1>1
<1>3. Tried \subseteq Tried'
  <2>. SUFFICES ASSUME NEW t \in Tried PROVE t \in Tried'
    OBVIOUS
  <2>1. t \in AdbStarts \X (1..Attempts) /\ t[1] \in AdbStarts /\ t[2] \in Nat
    BY DEF Tried
  <2>2. CASE t[1] = s
    <3>1. next.attempt \in Nat /\ adbStart[s].attempt \in Nat
      BY <1>1 DEF AdbRunState
    <3>. QED BY <1>2, <2>1, <2>2, <3>1 DEF Tried
  <2>3. CASE t[1] # s
    BY <1>2, <2>1, <2>3 DEF Tried
  <2>. QED BY <2>2, <2>3
<1>4. spawned' <= Cardinality(Tried')
  BY <1>3, StillTried
<1>5. AdbdTyped'
  BY <1>2, MostType DEF AdbdInv, AdbdTyped, NoDaemon
<1>6. listener' <= spawned' /\ adbdPid' <= spawned'
  BY MostType DEF AdbdInv, AdbdTyped, NoDaemon
<1>7. \A r \in AdbStarts : adbStart'[r].at \in {"idle", "lock"} => adbStart'[r].tries < LockTries
  BY <1>2 DEF AdbdInv
<1>. QED BY <1>4, <1>5, <1>6, <1>7 DEF AdbdInv

LEMMA SpawnSteps == ASSUME AdbdInv, NEW s \in AdbStarts, SpawnAdbd(s) PROVE AdbdInv'
<1>1. adbStart \in [AdbStarts -> AdbRunState]
  BY DEF AdbdInv, AdbdTyped
<1>. DEFINE next == [adbStart[s] EXCEPT !.at = "verify"]
<1>2. /\ next \in AdbRunState /\ next.at = "verify" /\ next.attempt = adbStart[s].attempt
      /\ adbStart[s].attempt \in 1..Attempts
  BY <1>1 DEF AdbRunState, Places
<1>3. adbStart[s].at = "spawn" /\ adbStart' = [adbStart EXCEPT ![s] = next]
  BY <1>1 DEF SpawnAdbd, Where, Moves
<1>. HIDE DEF next
<1>4. /\ adbStart' \in [AdbStarts -> AdbRunState] /\ adbStart'[s] = next
      /\ \A r \in AdbStarts \ {s} : adbStart'[r] = adbStart[r]
  BY <1>1, <1>2, <1>3
<1>5. <<s, adbStart[s].attempt>> \notin Tried
  BY <1>2, <1>3 DEF Tried, BeforeSpawn
<1>6. Tried \cup {<<s, adbStart[s].attempt>>} \subseteq Tried'
  <2>1. <<s, adbStart[s].attempt>> \in Tried'
    BY <1>2, <1>4 DEF Tried, BeforeSpawn
  <2>2. ASSUME NEW t \in Tried PROVE t \in Tried'
    <3>1. t \in AdbStarts \X (1..Attempts) /\ t[1] \in AdbStarts
      BY DEF Tried
    <3>2. CASE t[1] = s
      BY <1>2, <1>3, <1>4, <3>1, <3>2 DEF Tried, BeforeSpawn
    <3>3. CASE t[1] # s
      BY <1>4, <3>1, <3>3 DEF Tried
    <3>. QED BY <3>2, <3>3
  <2>. QED BY <2>1, <2>2
<1>7. IsFiniteSet(Tried') /\ Cardinality(Tried') \in Nat /\ Cardinality(Tried') <= Most
  <2>1. Tried' \subseteq AdbStarts \X (1..Attempts)
    BY DEF Tried
  <2>. QED BY <2>1, TriedFinite
<1>8. Cardinality(Tried \cup {<<s, adbStart[s].attempt>>}) <= Cardinality(Tried')
  BY <1>6, <1>7, FS_Subset
<1>9. /\ Cardinality(Tried \cup {<<s, adbStart[s].attempt>>}) = Cardinality(Tried) + 1
      /\ Cardinality(Tried) \in Nat
  BY <1>5, TriedFinite, TriedIsAttempts, FS_AddElement
<1>10. /\ spawned \in Nat /\ spawned <= Cardinality(Tried)
       /\ listener \in Nat /\ listener <= spawned
  BY MostType DEF AdbdInv, AdbdTyped
<1>11. /\ spawned' = spawned + 1 /\ adbdPid' = spawned + 1 /\ listener' \in {spawned + 1, NoDaemon, listener}
       /\ UNCHANGED <<lockDir, conns, faults, broken>>
  BY DEF SpawnAdbd
<1>12. spawned' \in Nat /\ spawned' <= Cardinality(Tried') /\ spawned' <= Most
  BY <1>7, <1>8, <1>9, <1>10, <1>11, MostType
<1>13. listener' \in Nat /\ listener' <= spawned' /\ adbdPid' \in Nat /\ adbdPid' <= spawned'
  BY <1>10, <1>11 DEF NoDaemon
<1>14. spawned' \in 0..Most /\ listener' \in 0..Most /\ adbdPid' \in 0..Most
  BY <1>12, <1>13, MostType
<1>15. AdbdTyped'
  BY <1>4, <1>11, <1>14 DEF AdbdInv, AdbdTyped
<1>16. \A r \in AdbStarts : adbStart'[r].at \in {"idle", "lock"} => adbStart'[r].tries < LockTries
  BY <1>2, <1>4 DEF AdbdInv
<1>. QED BY <1>12, <1>13, <1>15, <1>16 DEF AdbdInv

LEMMA AdbdStep == AdbdInv /\ [AdbdNext]_adbdVars => AdbdInv'
<1>. SUFFICES ASSUME AdbdInv, [AdbdNext]_adbdVars PROVE AdbdInv'
  OBVIOUS
<1>1. /\ adbStart \in [AdbStarts -> AdbRunState] /\ LockTries \in Nat \ {0} /\ Attempts \in Nat \ {0}
      /\ lockDir \in BOOLEAN /\ conns \in BOOLEAN /\ faults \in 0..MaxAdbFaults /\ MaxAdbFaults \in Nat
      /\ broken \in [lock : BOOLEAN, left : BOOLEAN]
  BY AdbdAssumption DEF AdbdInv, AdbdTyped
<1>2. ASSUME NEW s \in AdbStarts, AdbBegins(s) \/ AdbStartStep(s) \/ StartSignalled(s) \/ StartKilled(s)
      PROVE  AdbdInv'
  <2>. USE DEF Where, LeaveStart, daemon, BeforeSpawn
  <2>0. adbStart[s] \in AdbRunState
    BY <1>1
  <2>1. ASSUME NEW at \in Places, Moves(s, at), UNCHANGED <<conns, spawned, faults, broken>>,
               lockDir' \in BOOLEAN,
               at \in {"idle", "lock"} => adbStart[s].tries < LockTries,
               adbStart[s].at \notin BeforeSpawn => at \notin BeforeSpawn,
               listener' \in {listener, NoDaemon}, adbdPid' \in {adbdPid, NoDaemon}
        PROVE  AdbdInv'
    <3>. DEFINE next == [adbStart[s] EXCEPT !.at = at]
    <3>1. next \in AdbRunState /\ next.at = at /\ next.tries = adbStart[s].tries /\ next.attempt = adbStart[s].attempt
      BY <2>0 DEF AdbRunState
    <3>2. adbStart' = [adbStart EXCEPT ![s] = next]
      BY <1>1, <2>1 DEF Moves
    <3>. HIDE DEF next
    <3>. QED BY <1>1, <2>1, <3>1, <3>2, AdbRunSteps
  <2>2. CASE AdbBegins(s)
    <3>1. PICK b \in BOOLEAN : adbStart' = [adbStart EXCEPT ![s].at = "lock", ![s].restart = b]
      BY <2>2 DEF AdbBegins
    <3>2. adbStart[s].at = "idle" /\ adbStart[s].tries < LockTries
      BY <2>2 DEF AdbBegins, AdbdInv
    <3>. DEFINE next == [adbStart[s] EXCEPT !.at = "lock", !.restart = b]
    <3>3. /\ next \in AdbRunState /\ next.at = "lock" /\ next.tries = adbStart[s].tries
          /\ next.attempt = adbStart[s].attempt
      BY <2>0 DEF AdbRunState, Places
    <3>4. adbStart' = [adbStart EXCEPT ![s] = next] /\ UNCHANGED <<lockDir, listener, conns, adbdPid, spawned, faults, broken>>
      BY <1>1, <2>2, <3>1 DEF AdbBegins
    <3>. HIDE DEF next
    <3>. QED BY <1>1, <3>2, <3>3, <3>4, AdbRunSteps
  <2>3. CASE TakeLock(s)
    <3>1. PICK at \in {"restart", "look"} : Moves(s, at)
      BY <2>3 DEF TakeLock
    <3>2. lockDir' = TRUE /\ adbStart[s].at = "lock" /\ UNCHANGED <<listener, conns, adbdPid, spawned, faults, broken>>
      BY <2>3 DEF TakeLock
    <3>. QED BY <2>1, <3>1, <3>2 DEF Places
  <2>4. CASE LockBusy(s)
    <3>. DEFINE next == [adbStart[s] EXCEPT !.tries = @ + 1,
                                           !.at = IF adbStart[s].tries + 1 = LockTries THEN "gave up" ELSE "lock"]
    <3>1. adbStart[s].at = "lock" /\ UNCHANGED <<lockDir, listener, conns, adbdPid, spawned, faults, broken>>
      BY <2>4 DEF LockBusy
    <3>2. adbStart[s].tries \in Nat /\ adbStart[s].tries < LockTries
      BY <1>1, <2>0, <3>1 DEF AdbdInv, AdbRunState
    <3>3. /\ next.tries = adbStart[s].tries + 1 /\ next.attempt = adbStart[s].attempt
          /\ next.at = IF adbStart[s].tries + 1 = LockTries THEN "gave up" ELSE "lock"
      BY <2>0 DEF AdbRunState
    <3>4. adbStart[s].tries + 1 \in 0..LockTries
      BY <1>1, <3>2
    <3>5. next \in AdbRunState
      BY <2>0, <3>4 DEF AdbRunState, Places
    <3>6. next.at \in {"idle", "lock"} => next.tries < LockTries
      BY <1>1, <3>2, <3>3
    <3>7. adbStart' = [adbStart EXCEPT ![s] = next]
      BY <1>1, <2>4 DEF LockBusy
    <3>. HIDE DEF next
    <3>. QED BY <1>1, <3>1, <3>3, <3>5, <3>6, <3>7, AdbRunSteps
  <2>5. CASE StopAdbd(s)
    <3>1. PICK at \in {"look", "spawn"} : Moves(s, at)
      BY <2>5 DEF StopAdbd
    <3>. DEFINE next == [adbStart[s] EXCEPT !.at = at]
    <3>2. next \in AdbRunState /\ next.at = at /\ next.attempt = adbStart[s].attempt
      BY <2>0, <3>1 DEF AdbRunState, Places
    <3>3. adbStart' = [adbStart EXCEPT ![s] = next]
      BY <1>1, <3>1 DEF Moves
    <3>4. /\ adbStart[s].at \in {"restart", "stale"} /\ UNCHANGED <<lockDir, spawned, faults, broken>>
          /\ listener' = NoDaemon /\ conns' = FALSE /\ adbdPid' = NoDaemon
      BY <2>5 DEF StopAdbd
    <3>. HIDE DEF next
    <3>. QED BY <1>1, <3>1, <3>2, <3>3, <3>4, AdbRunSteps
  <2>6. CASE LookAtDaemon(s)
    <3>1. PICK at \in {"done", "stale", "spawn"} : Moves(s, at)
      BY <2>6 DEF LookAtDaemon
    <3>2. /\ adbStart[s].at = "look" /\ lockDir' \in {lockDir, FALSE}
          /\ UNCHANGED <<listener, conns, adbdPid, spawned, faults, broken>>
      BY <2>6 DEF LookAtDaemon
    <3>. QED BY <1>1, <2>1, <3>1, <3>2 DEF Places
  <2>7. CASE VerifyAdbd(s)
    <3>1. PICK at \in {"done", "retry"} : Moves(s, at)
      BY <2>7 DEF VerifyAdbd
    <3>2. lockDir' \in {lockDir, FALSE} /\ UNCHANGED <<listener, conns, adbdPid, spawned, faults, broken>>
      BY <2>7 DEF VerifyAdbd
    <3>. QED BY <1>1, <2>1, <3>1, <3>2 DEF Places
  <2>8. CASE RetryAdbd(s)
    <3>1. /\ adbStart[s].at = "retry" /\ listener' \in {listener, NoDaemon}
          /\ UNCHANGED <<conns, adbdPid, spawned, faults, broken>>
      BY <2>8 DEF RetryAdbd
    <3>2. CASE LeaveStart(s, "failed")
      BY <1>1, <2>1, <3>1, <3>2 DEF Places
    <3>3. CASE /\ adbStart[s].attempt # Attempts /\ UNCHANGED lockDir
               /\ adbStart' = [adbStart EXCEPT ![s].at = "spawn", ![s].attempt = @ + 1]
      <4>. DEFINE next == [adbStart[s] EXCEPT !.at = "spawn", !.attempt = @ + 1]
      <4>1. adbStart[s].attempt + 1 \in 1..Attempts
        BY <1>1, <2>0, <3>3 DEF AdbRunState
      <4>2. next \in AdbRunState /\ next.at = "spawn" /\ next.attempt = adbStart[s].attempt + 1
        BY <2>0, <4>1 DEF AdbRunState, Places
      <4>3. adbStart' = [adbStart EXCEPT ![s] = next]
        BY <1>1, <3>3
      <4>. HIDE DEF next
      <4>4. lockDir' = lockDir
        BY <3>3
      <4>. QED BY <1>1, <3>1, <4>2, <4>3, <4>4, AdbRunSteps
    <3>. QED BY <2>8, <3>2, <3>3 DEF RetryAdbd
  <2>9. CASE StartSignalled(s)
    <3>1. /\ UNCHANGED <<adbStart, listener, conns, adbdPid, spawned>> /\ lockDir' = FALSE
          /\ faults' = faults + 1 /\ faults < MaxAdbFaults
          /\ broken' = [broken EXCEPT !.lock = TRUE]
      BY <2>9 DEF StartSignalled, Fault
    <3>2. faults' \in 0..MaxAdbFaults
      BY <1>1, <3>1
    <3>3. broken' \in [lock : BOOLEAN, left : BOOLEAN]
      BY <1>1, <3>1
    <3>4. adbStart' = [adbStart EXCEPT ![s] = adbStart[s]]
      BY <1>1, <3>1
    <3>5. adbStart[s].at \in {"idle", "lock"} => adbStart[s].tries < LockTries
      BY DEF AdbdInv
    <3>. QED BY <1>1, <2>0, <3>1, <3>2, <3>3, <3>4, <3>5, AdbRunSteps
  <2>10. CASE StartKilled(s)
    <3>. DEFINE next == [adbStart[s] EXCEPT !.at = "failed"]
    <3>1. next \in AdbRunState /\ next.at = "failed" /\ next.attempt = adbStart[s].attempt
      BY <2>0 DEF AdbRunState, Places
    <3>2. /\ adbStart' = [adbStart EXCEPT ![s] = next] /\ faults' = faults + 1 /\ faults < MaxAdbFaults
          /\ broken' = [broken EXCEPT !.left = TRUE] /\ UNCHANGED <<lockDir, listener, conns, adbdPid, spawned>>
      BY <1>1, <2>10 DEF StartKilled, Fault, Moves
    <3>. HIDE DEF next
    <3>3. faults' \in 0..MaxAdbFaults
      BY <1>1, <3>2
    <3>4. broken' \in [lock : BOOLEAN, left : BOOLEAN]
      BY <1>1, <3>2
    <3>. QED BY <1>1, <3>1, <3>2, <3>3, <3>4, AdbRunSteps
  <2>. QED
    BY <1>2, <2>2, <2>3, <2>4, <2>5, <2>6, <2>7, <2>8, <2>9, <2>10, SpawnSteps DEF AdbStartStep
<1>3. CASE DaemonCrashes \/ HostConnects \/ HostLeaves \/ UNCHANGED adbdVars
  <2>1. /\ UNCHANGED <<lockDir, adbdPid, adbStart, spawned, broken>> /\ listener' \in {listener, NoDaemon}
        /\ conns' \in BOOLEAN
    BY <1>1, <1>3 DEF DaemonCrashes, HostConnects, HostLeaves, adbdVars
  <2>2. faults' \in 0..MaxAdbFaults
    BY <1>1, <1>3 DEF DaemonCrashes, HostConnects, HostLeaves, adbdVars, Fault
  <2>3. Tried' = Tried
    BY <2>1 DEF Tried
  <2>. QED BY <2>1, <2>2, <2>3, MostType DEF AdbdInv, AdbdTyped, NoDaemon
<1>. QED BY <1>2, <1>3 DEF AdbdNext
-------------------------------------------------------------------------------
(* Services: the daemons that a pid file keeps single. *)

DaemonsOf(script) == IF script = "bluetooth" THEN {"bluetoothd", "agent"} ELSE {script}

SvcRunState == [script : Scripts, daemon : Daemons, pid : SvcPids \cup {NoPidFile}, restart : BOOLEAN,
             at : {"idle", "load", "stop", "test", "start", "write", "verify", "ready", "failed"}]

(* At work on its daemon: it has found none, and has not named it in the pid file yet. *)
Starting(r, d) == run[r].at \in {"start", "write"} /\ run[r].daemon = d

(* The daemon that runs is the one the pid file names, but for one that a run has started and
   not named yet; a run that is about to start one has none beside it.  Runs of different
   scripts do not meet, since a script starts the daemons of its own. *)
SvcInv ==
  /\ SvcTypeOK
  /\ \A r \in Runs : /\ run[r].daemon \in DaemonsOf(run[r].script)
                     /\ run[r].at \in {"load", "stop"} => run[r].script = "bluetooth"
  /\ ~crowded =>
       /\ \A r, q \in Runs : Working(r) /\ Working(q) /\ run[r].script = run[q].script => r = q
       /\ \A d \in Daemons : (\A r \in Runs : ~Starting(r, d)) => alive[d] \subseteq {pidFile[d]}
       /\ \A r \in Runs : /\ run[r].at = "start" => alive[run[r].daemon] = {}
                          /\ run[r].at = "write" => alive[run[r].daemon] \subseteq {run[r].pid}

LEMMA InitSvc == SvcInit => SvcInv
<1>. SUFFICES ASSUME SvcInit PROVE SvcInv
  OBVIOUS
<1>1. SvcTypeOK
  <2>1. NoRun \in SvcRunState
    BY DEF NoRun, SvcRunState, Daemons, Scripts
  <2>2. run \in [Runs -> SvcRunState] /\ deaths \in 0..MaxDeaths
    BY <2>1, ServicesAssumption DEF SvcInit
  <2>. QED BY <2>2 DEF SvcInit, SvcTypeOK, SvcRunState
<1>2. \A r \in Runs : run[r] = NoRun
  BY DEF SvcInit
<1>. QED BY <1>1, <1>2 DEF SvcInit, SvcInv, NoRun, DaemonsOf, Working, Starting

(* The scripts of two daemons that share none are different. *)
LEMMA ScriptOf ==
  ASSUME NEW s \in Scripts, NEW t \in Scripts, DaemonsOf(s) \cap DaemonsOf(t) # {}
  PROVE  s = t
BY DEF Scripts, DaemonsOf

(* While no script was crowded, the run at work on a daemon is the only one. *)
LEMMA Alone ==
  ASSUME SvcInv, ~crowded, NEW r \in Runs, Working(r)
  PROVE  /\ \A q \in Runs \ {r} : Working(q) => run[q].script # run[r].script
                                               /\ run[q].daemon \notin DaemonsOf(run[r].script)
         /\ \A d \in DaemonsOf(run[r].script) : \A q \in Runs \ {r} : ~Starting(q, d)
<1>1. \A q \in Runs : run[q].script \in Scripts /\ run[q].daemon \in DaemonsOf(run[q].script)
  BY DEF SvcInv, SvcTypeOK
<1>2. \A q \in Runs \ {r} : Working(q) => run[q].script # run[r].script
  BY DEF SvcInv
<1>3. \A q \in Runs \ {r} : Working(q) => run[q].daemon \notin DaemonsOf(run[r].script)
  BY <1>1, <1>2, ScriptOf
<1>4. \A q \in Runs : \A d : Starting(q, d) => Working(q) /\ run[q].daemon = d
  BY DEF Starting, Working
<1>. QED BY <1>2, <1>3, <1>4

(* A run at work moves: the daemons of other scripts stay, and its own are as its next step
   needs them. *)
Ready(rec, d, procs, file) ==
  /\ rec.daemon = d /\ rec.at = "start" => procs = {}
  /\ rec.daemon = d /\ rec.at = "write" => procs \subseteq {rec.pid}
  /\ rec.daemon # d \/ rec.at \notin {"start", "write"} => procs \subseteq {file}

LEMMA SvcRunMoves ==
  ASSUME SvcInv, NEW r \in Runs, NEW rec \in SvcRunState, run' = [run EXCEPT ![r] = rec],
         Working(r), rec.script = run[r].script, rec.daemon \in DaemonsOf(rec.script),
         rec.at \in {"stop", "load"} => rec.script = "bluetooth",
         hci' \in BOOLEAN, UNCHANGED <<deaths, crowded>>,
         alive' \in [Daemons -> SUBSET SvcPids], dying' \in [Daemons -> SUBSET SvcPids],
         pidFile' \in [Daemons -> SvcPids \cup {NoPidFile}],
         \A d \in Daemons \ DaemonsOf(rec.script) : alive'[d] = alive[d] /\ pidFile'[d] = pidFile[d],
         ~crowded => \A d \in DaemonsOf(rec.script) : Ready(rec, d, alive'[d], pidFile'[d])
  PROVE  SvcInv'
<1>1. SvcTypeOK'
  BY DEF SvcInv, SvcTypeOK, SvcRunState
<1>2. run'[r] = rec /\ \A q \in Runs \ {r} : run'[q] = run[q]
  BY DEF SvcInv, SvcTypeOK
<1>3. \A q \in Runs : /\ run'[q].daemon \in DaemonsOf(run'[q].script)
                      /\ run'[q].at \in {"load", "stop"} => run'[q].script = "bluetooth"
  BY <1>2 DEF SvcInv
<1>4. ASSUME ~crowded' PROVE
       /\ \A p, q \in Runs : Working(p)' /\ Working(q)' /\ run'[p].script = run'[q].script => p = q
       /\ \A d \in Daemons : (\A q \in Runs : ~Starting(q, d)') => alive'[d] \subseteq {pidFile'[d]}
       /\ \A q \in Runs : /\ run'[q].at = "start" => alive'[run'[q].daemon] = {}
                          /\ run'[q].at = "write" => alive'[run'[q].daemon] \subseteq {run'[q].pid}
  <2>1. \A p \in Runs : Working(p)' => Working(p)
    BY <1>2 DEF Working
  <2>2. \A p \in Runs : run'[p].script = run[p].script
    BY <1>2
  <2>3. ASSUME NEW d \in Daemons, \A q \in Runs : ~Starting(q, d)' PROVE alive'[d] \subseteq {pidFile'[d]}
    <3>1. CASE d \in DaemonsOf(rec.script)
      <4>1. ~(rec.at \in {"start", "write"} /\ rec.daemon = d)
        BY <1>2, <2>3 DEF Starting
      <4>. QED BY <1>4, <3>1, <4>1 DEF Ready
    <3>2. CASE d \notin DaemonsOf(rec.script)
      <4>1. \A q \in Runs : ~Starting(q, d)
        BY <1>2, <2>3, <3>2 DEF Starting, SvcInv
      <4>. QED BY <1>4, <3>2, <4>1 DEF SvcInv
    <3>. QED BY <3>1, <3>2
  <2>4. ASSUME NEW q \in Runs, run'[q].at \in {"start", "write"}
        PROVE /\ run'[q].at = "start" => alive'[run'[q].daemon] = {}
              /\ run'[q].at = "write" => alive'[run'[q].daemon] \subseteq {run'[q].pid}
    <3>1. CASE q = r
      BY <1>2, <1>4, <3>1 DEF Ready
    <3>2. CASE q # r
      <4>1. Working(q) /\ run'[q] = run[q] /\ run[q].daemon \in Daemons
        BY <1>2, <2>4, <3>2 DEF Working, SvcInv, SvcTypeOK
      <4>2. run[q].daemon \notin DaemonsOf(rec.script)
        BY <1>4, <3>2, <4>1, Alone
      <4>3. alive'[run[q].daemon] = alive[run[q].daemon]
        BY <4>1, <4>2
      <4>4. /\ run[q].at = "start" => alive[run[q].daemon] = {}
            /\ run[q].at = "write" => alive[run[q].daemon] \subseteq {run[q].pid}
        BY <1>4 DEF SvcInv
      <4>. QED BY <4>1, <4>3, <4>4
    <3>. QED BY <3>1, <3>2
  <2>5. \A p, q \in Runs : Working(p)' /\ Working(q)' /\ run'[p].script = run'[q].script => p = q
    BY <1>4, <2>1, <2>2 DEF SvcInv
  <2>. QED BY <2>3, <2>4, <2>5
<1>. QED BY <1>1, <1>3, <1>4 DEF SvcInv

(* What a run at work finds. *)
LEMMA RunFinds ==
  ASSUME SvcInv, NEW r \in Runs, Working(r)
  PROVE  /\ run[r] \in SvcRunState /\ DaemonsOf(run[r].script) \subseteq Daemons
         /\ run[r].daemon \in DaemonsOf(run[r].script)
         /\ ~crowded => \A d \in DaemonsOf(run[r].script) : Ready(run[r], d, alive[d], pidFile[d])
<1>1. /\ run[r] \in SvcRunState /\ DaemonsOf(run[r].script) \subseteq Daemons
      /\ run[r].daemon \in DaemonsOf(run[r].script)
  BY DEF SvcInv, SvcTypeOK, SvcRunState, DaemonsOf, Daemons, Scripts
<1>2. ASSUME ~crowded, NEW d \in DaemonsOf(run[r].script) PROVE Ready(run[r], d, alive[d], pidFile[d])
  <2>1. d \in Daemons /\ \A q \in Runs \ {r} : ~Starting(q, d)
    BY <1>1, <1>2, Alone
  <2>. QED BY <1>2, <2>1 DEF SvcInv, Ready, Starting
<1>. QED BY <1>1, <1>2

LEMMA SvcStep == SvcInv /\ [SvcNext]_svcVars => SvcInv'
<1>. SUFFICES ASSUME SvcInv, [SvcNext]_svcVars PROVE SvcInv'
  OBVIOUS
<1>0. /\ hci \in BOOLEAN /\ alive \in [Daemons -> SUBSET SvcPids] /\ dying \in [Daemons -> SUBSET SvcPids]
      /\ pidFile \in [Daemons -> SvcPids \cup {NoPidFile}] /\ run \in [Runs -> SvcRunState]
      /\ deaths \in 0..MaxDeaths /\ crowded \in BOOLEAN
  BY DEF SvcInv, SvcTypeOK, SvcRunState
<1>1. ASSUME NEW r \in Runs, RunStep(r) PROVE SvcInv'
  <2>1. CASE RunBegins(r)
    <3>1. PICK rec \in SvcRunState :
            /\ run' = [run EXCEPT ![r] = rec] /\ rec.daemon \in DaemonsOf(rec.script)
            /\ rec.at \in {"load", "test"} /\ (rec.at = "load" => rec.script = "bluetooth")
            /\ crowded' = (crowded \/ \E q \in Runs \ {r} : Working(q) /\ run[q].script = rec.script)
      <4>1. PICK script \in Scripts, restart \in BOOLEAN :
              /\ run' = [run EXCEPT ![r] = [script |-> script, daemon |-> FirstOf[script], pid |-> NoPidFile,
                                            restart |-> restart,
                                            at |-> IF script = "bluetooth" THEN "load" ELSE "test"]]
              /\ crowded' = (crowded \/ \E q \in Runs \ {r} : Working(q) /\ run[q].script = script)
        BY <2>1 DEF RunBegins
      <4>2. FirstOf[script] \in Daemons /\ FirstOf[script] \in DaemonsOf(script)
        BY DEF FirstOf, Scripts, Daemons, DaemonsOf
      <4>. DEFINE rec == [script |-> script, daemon |-> FirstOf[script], pid |-> NoPidFile,
                          restart |-> restart, at |-> IF script = "bluetooth" THEN "load" ELSE "test"]
      <4>3. /\ rec \in SvcRunState /\ rec.script = script /\ rec.daemon = FirstOf[script]
            /\ rec.at \in {"load", "test"} /\ (rec.at = "load" => script = "bluetooth")
        BY <4>2 DEF SvcRunState
      <4>. QED BY <4>1, <4>2, <4>3
    <3>2. UNCHANGED <<hci, alive, dying, pidFile, deaths>> /\ run[r].at = "idle"
      BY <2>1 DEF RunBegins
    <3>3. run'[r] = rec /\ (\A q \in Runs \ {r} : run'[q] = run[q]) /\ run' \in [Runs -> SvcRunState]
      BY <1>0, <3>1
    <3>4. SvcTypeOK'
      BY <1>0, <3>1, <3>2, <3>3 DEF SvcTypeOK, SvcRunState
    <3>5. ASSUME ~crowded' PROVE
           /\ \A p, q \in Runs : Working(p)' /\ Working(q)' /\ run'[p].script = run'[q].script => p = q
           /\ \A d \in Daemons : (\A q \in Runs : ~Starting(q, d)') => alive'[d] \subseteq {pidFile'[d]}
           /\ \A q \in Runs : /\ run'[q].at = "start" => alive'[run'[q].daemon] = {}
                              /\ run'[q].at = "write" => alive'[run'[q].daemon] \subseteq {run'[q].pid}
      <4>1. ~crowded /\ \A q \in Runs \ {r} : ~(Working(q) /\ run[q].script = rec.script)
        BY <3>1, <3>5, <1>0
      <4>2. \A q \in Runs, d \in Daemons : Starting(q, d) => Starting(q, d)'
        BY <3>2, <3>3 DEF Starting
      <4>3. \A q \in Runs \ {r} : Working(q)' => Working(q)
        BY <3>3 DEF Working
      <4>4. \A p, q \in Runs : Working(p)' /\ Working(q)' /\ run'[p].script = run'[q].script => p = q
        BY <3>3, <4>1, <4>3 DEF SvcInv
      <4>5. \A d \in Daemons : (\A q \in Runs : ~Starting(q, d)') => alive'[d] \subseteq {pidFile'[d]}
        BY <3>2, <4>1, <4>2 DEF SvcInv
      <4>6. \A q \in Runs : /\ run'[q].at = "start" => alive'[run'[q].daemon] = {}
                            /\ run'[q].at = "write" => alive'[run'[q].daemon] \subseteq {run'[q].pid}
        BY <3>1, <3>2, <3>3, <4>1 DEF SvcInv
      <4>. QED BY <4>4, <4>5, <4>6
    <3>. QED BY <3>1, <3>3, <3>4, <3>5 DEF SvcInv
  <2>2. CASE Working(r) /\ ~RunBegins(r)
    <3>. DEFINE d == run[r].daemon
                rec(at) == [run[r] EXCEPT !.at = at]
                next == [run[r] EXCEPT !.at = "test", !.daemon = "agent", !.pid = NoPidFile]
    <3>0. /\ run[r] \in SvcRunState /\ DaemonsOf(run[r].script) \subseteq Daemons
          /\ d \in DaemonsOf(run[r].script)
          /\ ~crowded => \A c \in DaemonsOf(run[r].script) : Ready(run[r], c, alive[c], pidFile[c])
      BY <2>2, RunFinds
    <3>1. ASSUME NEW at \in {"stop", "test", "start", "write", "verify", "ready", "failed"}
          PROVE  /\ rec(at) \in SvcRunState /\ rec(at).at = at /\ rec(at).script = run[r].script
                 /\ rec(at).daemon = d /\ rec(at).pid = run[r].pid
      BY <3>0 DEF SvcRunState
    <3>2. d = "bluetoothd" => /\ next \in SvcRunState /\ next.at = "test" /\ next.daemon = "agent"
                              /\ next.script = run[r].script /\ "agent" \in DaemonsOf(run[r].script)
      BY <3>0 DEF SvcRunState, Daemons, DaemonsOf, Scripts
    <3>3. \A at : Goto(r, at) => run' = [run EXCEPT ![r] = rec(at)]
      BY <1>0 DEF Goto
    <3>4. After(r) => \/ d = "bluetoothd" /\ run' = [run EXCEPT ![r] = next]
                      \/ d # "bluetoothd" /\ run' = [run EXCEPT ![r] = rec("ready")]
      BY <1>0, <3>3 DEF After
    <3>. HIDE DEF rec, next
    <3>5. CASE LoadHci(r)
      <4>1. PICK at \in {"failed", "stop", "test"} : run' = [run EXCEPT ![r] = rec(at)] /\ run[r].at = "load"
        BY <3>3, <3>5 DEF LoadHci
      <4>2. hci' \in BOOLEAN /\ UNCHANGED <<alive, dying, pidFile, deaths, crowded>>
        BY <1>0, <3>5 DEF LoadHci
      <4>3. run[r].script = "bluetooth"
        BY <4>1 DEF SvcInv
      <4>4. ~crowded => \A c \in DaemonsOf(rec(at).script) : Ready(rec(at), c, alive'[c], pidFile'[c])
        BY <3>0, <3>1, <4>1, <4>2 DEF Ready
      <4>5. rec(at) \in SvcRunState /\ rec(at).script = run[r].script /\ rec(at).daemon = d
        BY <3>1, <4>1
      <4>6. /\ alive' \in [Daemons -> SUBSET SvcPids] /\ dying' \in [Daemons -> SUBSET SvcPids]
            /\ pidFile' \in [Daemons -> SvcPids \cup {NoPidFile}]
        BY <1>0, <4>2
      <4>. QED BY <2>2, <3>0, <4>1, <4>2, <4>3, <4>4, <4>5, <4>6, SvcRunMoves
    <3>6. CASE StopPidFiles(r)
      <4>1. /\ run[r].at = "stop" /\ run' = [run EXCEPT ![r] = rec("test")]
            /\ UNCHANGED <<hci, deaths, crowded>>
        BY <3>3, <3>6 DEF StopPidFiles
      <4>2. run[r].script = "bluetooth" /\ DaemonsOf(run[r].script) = {"bluetoothd", "agent"}
        BY <4>1 DEF SvcInv, DaemonsOf
      <4>3. /\ alive' \in [Daemons -> SUBSET SvcPids] /\ dying' \in [Daemons -> SUBSET SvcPids]
            /\ pidFile' \in [Daemons -> SvcPids \cup {NoPidFile}]
        BY <1>0, <3>6 DEF StopPidFiles
      <4>4. /\ \A c \in Daemons \ {"bluetoothd", "agent"} : alive'[c] = alive[c] /\ pidFile'[c] = pidFile[c]
            /\ \A c \in {"bluetoothd", "agent"} : alive'[c] = alive[c] \ {pidFile[c]}
        BY <1>0, <3>6 DEF StopPidFiles, Daemons
      <4>5. ASSUME ~crowded, NEW c \in DaemonsOf(run[r].script) PROVE Ready(rec("test"), c, alive'[c], pidFile'[c])
        BY <3>0, <3>1, <4>1, <4>2, <4>4, <4>5 DEF Ready
      <4>. QED BY <1>0, <2>2, <3>0, <3>1, <4>1, <4>2, <4>3, <4>4, <4>5, SvcRunMoves
    <3>7. CASE TestDaemon(r)
      <4>1. run[r].at = "test" /\ UNCHANGED <<hci, alive, dying, deaths, crowded>>
        BY <3>7 DEF TestDaemon
      <4>2. CASE After(r) /\ UNCHANGED pidFile
        <5>1. PICK new \in {next, rec("ready")} :
                /\ new \in SvcRunState /\ run' = [run EXCEPT ![r] = new] /\ new.script = run[r].script
                /\ new.daemon \in DaemonsOf(run[r].script) /\ new.at \in {"test", "ready"}
          BY <3>0, <3>1, <3>2, <3>4, <4>2
        <5>2. ~crowded => \A c \in DaemonsOf(run[r].script) : Ready(new, c, alive[c], pidFile[c])
          BY <3>0, <4>1, <5>1 DEF Ready
        <5>. QED BY <1>0, <2>2, <4>1, <4>2, <5>1, <5>2, SvcRunMoves
      <4>3. CASE /\ ~Present(d) /\ Goto(r, "start")
                 /\ pidFile' = IF d \in {"bluetoothd", "agent"} THEN [pidFile EXCEPT ![d] = NoPidFile] ELSE pidFile
        <5>1. /\ run' = [run EXCEPT ![r] = rec("start")] /\ pidFile' \in [Daemons -> SvcPids \cup {NoPidFile}]
              /\ \A c \in Daemons \ {d} : pidFile'[c] = pidFile[c]
          BY <1>0, <3>3, <4>3
        <5>2. ~crowded => alive[d] = {}
          BY <3>0, <4>1, <4>3 DEF Present, PidLive, Ready
        <5>3. ASSUME ~crowded, NEW c \in DaemonsOf(run[r].script) PROVE Ready(rec("start"), c, alive[c], pidFile'[c])
          BY <3>0, <3>1, <4>1, <5>1, <5>2, <5>3 DEF Ready
        <5>. QED BY <1>0, <2>2, <3>0, <3>1, <4>1, <5>1, <5>3, SvcRunMoves
      <4>. QED BY <3>7, <4>2, <4>3 DEF TestDaemon
    <3>8. CASE StartDaemon(r)
      <4>1. run[r].at = "start" /\ UNCHANGED <<hci, dying, pidFile, deaths, crowded>>
        BY <3>8 DEF StartDaemon
      <4>2. PICK pid \in SvcPids :
              /\ run' = [run EXCEPT ![r].at = "write", ![r].pid = pid]
              /\ alive' = alive \/ alive' = [alive EXCEPT ![d] = @ \cup {pid}]
        BY <3>8 DEF StartDaemon
      <4>. DEFINE new == [run[r] EXCEPT !.at = "write", !.pid = pid]
      <4>3. /\ run' = [run EXCEPT ![r] = new] /\ new \in SvcRunState /\ new.at = "write" /\ new.pid = pid
            /\ new.script = run[r].script /\ new.daemon = d
        BY <1>0, <3>0, <4>2 DEF SvcRunState
      <4>4. /\ alive' \in [Daemons -> SUBSET SvcPids] /\ alive'[d] \subseteq alive[d] \cup {pid}
            /\ \A c \in Daemons \ {d} : alive'[c] = alive[c]
        BY <1>0, <3>0, <4>2
      <4>. HIDE DEF new
      <4>5. ASSUME ~crowded, NEW c \in DaemonsOf(run[r].script) PROVE Ready(new, c, alive'[c], pidFile[c])
        BY <3>0, <4>1, <4>3, <4>4, <4>5 DEF Ready
      <4>. QED BY <1>0, <2>2, <3>0, <4>1, <4>3, <4>4, <4>5, SvcRunMoves
    <3>9. CASE WritePidFile(r)
      <4>1. /\ run[r].at = "write" /\ UNCHANGED <<hci, alive, dying, deaths, crowded>>
            /\ pidFile' = [pidFile EXCEPT ![d] = run[r].pid]
        BY <3>9 DEF WritePidFile
      <4>2. PICK new \in {next, rec("verify")} :
              /\ new \in SvcRunState /\ run' = [run EXCEPT ![r] = new] /\ new.script = run[r].script
              /\ new.daemon \in DaemonsOf(run[r].script) /\ new.at \in {"test", "verify"}
        BY <3>0, <3>1, <3>2, <3>3, <3>4, <3>9 DEF WritePidFile
      <4>3. /\ pidFile' \in [Daemons -> SvcPids \cup {NoPidFile}] /\ pidFile'[d] = run[r].pid
            /\ \A c \in Daemons \ {d} : pidFile'[c] = pidFile[c]
        BY <1>0, <3>0, <4>1 DEF SvcRunState
      <4>4. ASSUME ~crowded, NEW c \in DaemonsOf(run[r].script) PROVE Ready(new, c, alive[c], pidFile'[c])
        BY <3>0, <4>1, <4>2, <4>3, <4>4 DEF Ready
      <4>. QED BY <1>0, <2>2, <3>0, <4>1, <4>2, <4>3, <4>4, SvcRunMoves
    <3>10. CASE VerifyDaemon(r)
      <4>1. run[r].at = "verify" /\ UNCHANGED <<hci, alive, dying, deaths, crowded>>
        BY <3>10 DEF VerifyDaemon
      <4>2. PICK at \in {"ready", "failed"} : run' = [run EXCEPT ![r] = rec(at)]
        BY <3>3, <3>10 DEF VerifyDaemon
      <4>3. /\ pidFile' \in [Daemons -> SvcPids \cup {NoPidFile}]
            /\ pidFile' = pidFile \/ pidFile[d] \notin alive[d]
            /\ \A c \in Daemons \ {d} : pidFile'[c] = pidFile[c]
        BY <1>0, <3>10 DEF VerifyDaemon, PidLive
      <4>4. ASSUME ~crowded, NEW c \in DaemonsOf(run[r].script) PROVE Ready(rec(at), c, alive[c], pidFile'[c])
        BY <3>0, <3>1, <4>1, <4>2, <4>3, <4>4 DEF Ready
      <4>. QED BY <1>0, <2>2, <3>0, <3>1, <4>1, <4>2, <4>3, <4>4, SvcRunMoves
    <3>. QED BY <1>1, <2>2, <3>5, <3>6, <3>7, <3>8, <3>9, <3>10 DEF RunStep
  <2>. QED BY <1>1, <2>1, <2>2 DEF RunStep, Working, LoadHci, StopPidFiles, TestDaemon, StartDaemon, WritePidFile, VerifyDaemon
<1>2. ASSUME NEW d \in Daemons, DaemonGone(d) PROVE SvcInv'
  <2>1. dying' \in [Daemons -> SUBSET SvcPids] /\ UNCHANGED <<hci, alive, pidFile, run, deaths, crowded>>
    BY <1>0, <1>2 DEF DaemonGone
  <2>. QED BY <2>1 DEF SvcInv, SvcTypeOK, Working, Starting
<1>3. ASSUME NEW d \in Daemons, DaemonDies(d) PROVE SvcInv'
  <2>1. /\ alive' \in [Daemons -> SUBSET SvcPids] /\ UNCHANGED <<hci, dying, pidFile, run, crowded>>
        /\ \A e \in Daemons : alive'[e] \subseteq alive[e]
    BY <1>0, <1>3 DEF DaemonDies
  <2>2. deaths' \in 0..MaxDeaths
    BY <1>0, <1>3, ServicesAssumption DEF DaemonDies
  <2>3. \A r \in Runs : run[r].daemon \in Daemons
    BY <1>0 DEF SvcRunState
  <2>. QED BY <2>1, <2>2, <2>3 DEF SvcInv, SvcTypeOK, Working, Starting
<1>4. CASE UNCHANGED svcVars
  BY <1>4 DEF svcVars, SvcInv, SvcTypeOK, Working, Starting
<1>. QED BY <1>1, <1>2, <1>3, <1>4 DEF SvcNext

(* Each daemon that a pid file keeps runs once, for every number of runs of the scripts one
   after another, of restarts of Bluetooth and of daemons that die; at rest its file names
   it. *)
THEOREM DaemonsAreSingle == SvcSpec => []DaemonsSingle
<1>1. SvcInv => DaemonsSingle
  <2>. SUFFICES ASSUME SvcInv, ~crowded, NEW d \in Daemons
       PROVE  /\ Cardinality(alive[d]) <= 1
              /\ (\A r \in Runs : ~Working(r)) /\ alive[d] # {} => pidFile[d] \in alive[d]
    BY DEF DaemonsSingle
  <2>1. PICK pid : alive[d] \subseteq {pid}
    BY DEF SvcInv, Starting
  <2>2. alive[d] = {} \/ alive[d] = {pid}
    BY <2>1
  <2>3. Cardinality({}) = 0 /\ Cardinality({pid}) = 1
    BY FS_EmptySet, FS_Singleton
  <2>4. Cardinality(alive[d]) <= 1
    BY <2>2, <2>3
  <2>5. (\A r \in Runs : ~Working(r)) => alive[d] \subseteq {pidFile[d]}
    BY DEF SvcInv, Starting, Working
  <2>. QED BY <2>4, <2>5
<1>. QED BY <1>1, InitSvc, SvcStep, PTL DEF SvcSpec
-------------------------------------------------------------------------------
(* BluetoothPlayer: the command calls the phone that is there. *)

LEMMA FirstPhoneIsIn ==
  ASSUME NEW S \in SUBSET Nat, S # {}
  PROVE  FirstPhone(S) \in S
<1>1. PICK p \in S : \A q \in S : ~(<<q, p>> \in OpToRel(<, Nat))
  <2>1. IsWellFoundedOn(OpToRel(<, Nat), Nat) /\ S \subseteq Nat
    BY NatLessThanWellFounded
  <2>. QED BY <2>1, WFMin
<1>2. ASSUME NEW q \in S PROVE p <= q
  <2>1. p \in Nat /\ q \in Nat
    OBVIOUS
  <2>2. ~(q < p)
    BY <1>1, <2>1 DEF OpToRel
  <2>. QED BY <2>1, <2>2
<1>. QED BY <1>2 DEF FirstPhone

LEMMA FirstOfOne == ASSUME NEW p \in Nat PROVE FirstPhone({p}) = p
BY DEF FirstPhone

PhoneState == [media : BOOLEAN, control : BOOLEAN, device : BOOLEAN, player : BOOLEAN, playing : BOOLEAN]
CommandState ==
  [at : {"idle", "toggle", "pick", "call"}, toggle : BOOLEAN, method : {"status", "Play", "Pause"},
   phone : Phones \cup {NoPhone}]

(* A phone that has a player has a media control that is connected. *)
Coherent(b) ==
  \A p \in Phones : /\ b[p].playing => b[p].player
                    /\ b[p].player => b[p].control
                    /\ b[p].control => b[p].media

(* What a command has picked is what it would pick again, while no phone has changed. *)
BtInv ==
  /\ BtTypeOK /\ Coherent(bluez)
  /\ command.at \in {"pick", "call"} /\ command.toggle /\ ~moved =>
       command.method = IF FirstPlayer # NoPhone /\ bluez[FirstPlayer].playing THEN "Pause" ELSE "Play"
  /\ command.at = "call" => command.phone # NoPhone
  /\ command.at = "call" /\ ~moved => command.phone = ActiveDevice

LEMMA BtType ==
  BtTypeOK <=> bluez \in [Phones -> PhoneState] /\ command \in CommandState /\ moved \in BOOLEAN
BY DEF BtTypeOK, PhoneState, CommandState

LEMMA InitBt == BtInit => BtInv
<1>. SUFFICES ASSUME BtInit PROVE BtInv
  OBVIOUS
<1>1. Gone \in PhoneState /\ NoCommand \in CommandState
  BY DEF Gone, NoCommand, PhoneState, CommandState
<1>2. BtTypeOK
  BY <1>1, BtType DEF BtInit
<1>. QED BY <1>2 DEF BtInit, BtInv, Coherent, Gone, NoCommand

LEMMA ActiveIsPhone == ActiveDevice \in Phones \cup {NoPhone}
<1>1. \A S \in SUBSET Phones : FirstPhone(S) \in Phones \cup {NoPhone}
  <2>1. Phones \subseteq Nat
    BY PhonesAssumption DEF Phones
  <2>. QED BY <2>1, FirstPhoneIsIn DEF FirstPhone
<1>2. Controlled \in SUBSET Phones /\ Connected \in SUBSET Phones /\ MediaDevices \in SUBSET Phones
  BY DEF Controlled, Connected, MediaDevices
<1>. QED BY <1>1, <1>2 DEF ActiveDevice

LEMMA BtStep == BtInv /\ [BtNext]_btVars => BtInv'
<1>. SUFFICES ASSUME BtInv, [BtNext]_btVars PROVE BtInv'
  OBVIOUS
<1>0. bluez \in [Phones -> PhoneState] /\ command \in CommandState /\ moved \in BOOLEAN /\ Coherent(bluez)
  BY BtType DEF BtInv
<1>1. CASE PhoneChanges
  <2>1. PICK p \in Phones, new \in PhoneState :
          /\ bluez' = [bluez EXCEPT ![p] = new] /\ (new.playing => new.player)
          /\ (new.player => new.control) /\ (new.control => new.media)
    <3>1. PICK p \in Phones, media, control, device, player, playing \in BOOLEAN :
            /\ (playing => player) /\ (player => control) /\ (control => media /\ device)
            /\ bluez' = [bluez EXCEPT ![p] = [media |-> media, control |-> control, device |-> device,
                                              player |-> player, playing |-> playing]]
            /\ bluez' # bluez
      BY <1>1 DEF PhoneChanges
    <3>. DEFINE new == [media |-> media, control |-> control, device |-> device, player |-> player,
                        playing |-> playing]
    <3>2. /\ new \in PhoneState /\ new.playing = playing /\ new.player = player
          /\ new.control = control /\ new.media = media
      BY DEF PhoneState
    <3>. QED BY <3>1, <3>2
  <2>2. bluez' \in [Phones -> PhoneState] /\ Coherent(bluez')
    BY <1>0, <2>1 DEF Coherent
  <2>3. command' = command /\ moved' \in BOOLEAN /\ (command.at # "idle" => moved')
    BY <1>1 DEF PhoneChanges
  <2>4. BtTypeOK'
    BY <1>0, <2>2, <2>3 DEF BtTypeOK, PhoneState, CommandState
  <2>. QED BY <2>2, <2>3, <2>4 DEF BtInv
<1>2. CASE BtBegins
  <2>1. PICK method \in {"Play", "Pause"} :
          \/ command' = [NoCommand EXCEPT !.at = "pick", !.method = method]
          \/ command' = [NoCommand EXCEPT !.at = "toggle", !.toggle = TRUE]
    BY <1>2 DEF BtBegins
  <2>2. /\ command' \in CommandState /\ command'.at \in {"pick", "toggle"}
        /\ (command'.at = "pick" => ~command'.toggle)
    BY <2>1 DEF NoCommand, CommandState
  <2>3. bluez' = bluez /\ moved' \in BOOLEAN
    BY <1>2 DEF BtBegins
  <2>4. BtTypeOK'
    BY <1>0, <2>2, <2>3 DEF BtTypeOK, PhoneState, CommandState
  <2>. QED BY <1>0, <2>2, <2>3, <2>4 DEF BtInv, Coherent
<1>3. CASE AskStatus
  <2>. DEFINE m == IF FirstPlayer # NoPhone /\ bluez[FirstPlayer].playing THEN "Pause" ELSE "Play"
  <2>1. command' = [command EXCEPT !.at = "pick", !.method = m] /\ UNCHANGED <<bluez, moved>>
    BY <1>3 DEF AskStatus
  <2>2. FirstPlayer' = FirstPlayer
    BY <2>1 DEF FirstPlayer, Players, MediaDevices, FirstPhone
  <2>3. m \in {"Pause", "Play"}
    OBVIOUS
  <2>. HIDE DEF m
  <2>4. command' \in CommandState /\ command'.at = "pick" /\ command'.method = m
    BY <1>0, <2>1, <2>3 DEF CommandState
  <2>5. BtTypeOK'
    BY <1>0, <2>1, <2>4 DEF BtTypeOK, PhoneState, CommandState
  <2>. QED BY <1>0, <2>1, <2>2, <2>4, <2>5 DEF BtInv, Coherent, m
<1>4. CASE PickDevice
  <2>1. /\ command.at = "pick" /\ UNCHANGED <<bluez, moved>>
        /\ \/ command' = NoCommand
           \/ command' = [command EXCEPT !.at = "call", !.phone = ActiveDevice] /\ ActiveDevice # NoPhone
    BY <1>4 DEF PickDevice
  <2>2. FirstPlayer' = FirstPlayer /\ ActiveDevice' = ActiveDevice
    BY <2>1 DEF FirstPlayer, Players, MediaDevices, FirstPhone, ActiveDevice, Controlled, Connected
  <2>3. CASE command' = NoCommand
    <3>1. command' \in CommandState /\ command'.at = "idle"
      BY <2>3 DEF NoCommand, CommandState
    <3>2. BtTypeOK'
      BY <1>0, <2>1, <3>1 DEF BtTypeOK, PhoneState, CommandState
    <3>. QED BY <1>0, <2>1, <3>1, <3>2 DEF BtInv, Coherent
  <2>4. CASE command' = [command EXCEPT !.at = "call", !.phone = ActiveDevice] /\ ActiveDevice # NoPhone
    <3>1. /\ command' \in CommandState /\ command'.at = "call" /\ command'.phone = ActiveDevice
          /\ command'.method = command.method /\ command'.toggle = command.toggle
      BY <1>0, <2>4, ActiveIsPhone DEF CommandState
    <3>2. BtTypeOK'
      BY <1>0, <2>1, <3>1 DEF BtTypeOK, PhoneState, CommandState
    <3>. QED BY <1>0, <2>1, <2>2, <2>4, <3>1, <3>2 DEF BtInv, Coherent
  <2>. QED BY <2>1, <2>3, <2>4
<1>5. CASE CallMedia
  <2>1. /\ command.at = "call" /\ command' = NoCommand /\ moved' = moved
        /\ bluez' = IF ~bluez[command.phone].control THEN bluez
                    ELSE [bluez EXCEPT ![command.phone].player = TRUE,
                                       ![command.phone].playing = (command.method = "Play")]
    BY <1>5 DEF CallMedia
  <2>2. command.phone \in Phones
    BY <1>0, <2>1 DEF BtInv, CommandState
  <2>3. bluez' \in [Phones -> PhoneState] /\ Coherent(bluez')
    <3>1. CASE ~bluez[command.phone].control
      BY <1>0, <2>1, <3>1
    <3>2. CASE bluez[command.phone].control
      <4>. DEFINE p == command.phone
                  new == [bluez[p] EXCEPT !.player = TRUE, !.playing = (command.method = "Play")]
      <4>1. bluez' = [bluez EXCEPT ![p] = new]
        BY <1>0, <2>1, <2>2, <3>2
      <4>2. /\ new \in PhoneState /\ new.player /\ new.control = bluez[p].control /\ new.media = bluez[p].media
        BY <1>0, <2>2 DEF PhoneState
      <4>. HIDE DEF new
      <4>. QED BY <1>0, <2>2, <3>2, <4>1, <4>2 DEF Coherent
    <3>. QED BY <3>1, <3>2
  <2>4. command' \in CommandState /\ command'.at = "idle"
    BY <2>1 DEF NoCommand, CommandState
  <2>5. BtTypeOK'
    BY <1>0, <2>1, <2>3, <2>4 DEF BtTypeOK, PhoneState, CommandState
  <2>. QED BY <2>3, <2>4, <2>5 DEF BtInv
<1>6. CASE UNCHANGED btVars
  BY <1>6 DEF btVars, BtInv, BtTypeOK, Coherent, FirstPlayer, Players, MediaDevices, FirstPhone, ActiveDevice,
     Controlled, Connected
<1>. QED BY <1>1, <1>2, <1>3, <1>4, <1>5, <1>6 DEF BtNext

(* nq-bluetooth-player calls the one phone that is connected, and a toggle turns what that phone
   does, for every number of paired phones, unless one of them changed under the command. *)
THEOREM PhoneIsCalled == BtSpec => []CallsThePhoneThere
<1>1. BtInv => CallsThePhoneThere
  <2>. DEFINE C == {p \in Phones : bluez[p].control}
  <2>. SUFFICES ASSUME BtInv, command.at = "call", ~moved, Cardinality(C) = 1
       PROVE  /\ bluez[command.phone].control
              /\ command.toggle => (command.method = "Pause" <=> bluez[command.phone].playing)
    BY DEF CallsThePhoneThere
  <2>1. PICK p : C = {p}
    <3>1. IsFiniteSet(C)
      <4>1. IsFiniteSet(Phones) /\ C \subseteq Phones
        BY PhonesAssumption, FS_Interval DEF Phones
      <4>. QED BY <4>1, FS_Subset
    <3>. QED BY <3>1, FS_Singleton
  <2>2. p \in Phones /\ p \in Nat /\ p # NoPhone /\ bluez[p].control
    BY <2>1, PhonesAssumption DEF Phones, NoPhone
  <2>3. Coherent(bluez) /\ Controlled = C
    BY DEF BtInv, Coherent, Controlled, MediaDevices
  <2>4. command.phone = p
    BY <2>1, <2>2, <2>3, FirstOfOne DEF BtInv, ActiveDevice
  <2>5. Players = IF bluez[p].player THEN {p} ELSE {}
    BY <2>1, <2>2, <2>3 DEF Players, MediaDevices, Coherent
  <2>6. FirstPlayer = IF bluez[p].player THEN p ELSE NoPhone
    BY <2>2, <2>5, FirstOfOne DEF FirstPlayer, FirstPhone
  <2>7. bluez[p].playing => bluez[p].player
    BY <2>2, <2>3 DEF Coherent
  <2>. QED BY <2>2, <2>4, <2>6, <2>7 DEF BtInv
<1>. QED BY <1>1, InitBt, BtStep, PTL DEF BtSpec
===============================================================================
