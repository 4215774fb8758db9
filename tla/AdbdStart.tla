------------------------------ MODULE AdbdStart ------------------------------
(***************************************************************************)
(* nq-start-adbd, the script that starts the ADB daemon: the one start     *)
(* script with a lock, a directory that mkdir takes and a trap removes.    *)
(* The daemon listens on one port and forks a process of the same name for *)
(* each connection, and the script looks for processes by that name.  The  *)
(* trap on INT and TERM removes the lock and does not end the script.      *)
(***************************************************************************)
EXTENDS Naturals, FiniteSets

CONSTANTS
  AdbStarts,     \* runs of the script
  LockTries,     \* tries of acquire_lock, one a second
  Attempts,      \* attempts to start the daemon
  MaxAdbFaults   \* bound on daemons that die and on signals to scripts

ASSUME AdbdAssumption ==
  /\ IsFiniteSet(AdbStarts)
  /\ LockTries \in Nat \ {0} /\ Attempts \in Nat \ {0} /\ MaxAdbFaults \in Nat

NoDaemon == 0
DaemonPids == 1..(Cardinality(AdbStarts) * Attempts)

VARIABLES
  lockDir,     \* /run/nq-adbd-lite.lock exists
  listener,    \* the daemon that listens on the port
  conns,       \* processes of open connections are there
  adbdPid,     \* /run/nq-adbd-lite.pid
  adbStart,    \* each run: where, lock tries, attempts, NQ_ADBD_RESTART
  spawned,     \* daemons spawned so far
  faults,      \* daemons that died and signals so far
  broken       \* history: [lock: a signal took the lock from a run, left: a killed run left it]

adbdVars == <<lockDir, listener, conns, adbdPid, adbStart, spawned, faults, broken>>

AdbdInit ==
  /\ lockDir = FALSE /\ listener = NoDaemon /\ conns = FALSE /\ adbdPid = NoDaemon
  /\ adbStart = [s \in AdbStarts |-> [at |-> "idle", tries |-> 0, attempt |-> 1, restart |-> FALSE]]
  /\ spawned = 0 /\ faults = 0
  /\ broken = [lock |-> FALSE, left |-> FALSE]

InSection == {s \in AdbStarts : adbStart[s].at \in {"restart", "look", "stale", "spawn", "verify", "retry"}}
Where(s, at) == adbStart[s].at = at
Moves(s, at) == adbStart' = [adbStart EXCEPT ![s].at = at]
daemon == <<listener, conns, adbdPid, spawned>>

AdbBegins(s) ==
  /\ Where(s, "idle")
  /\ \E restart \in BOOLEAN : adbStart' = [adbStart EXCEPT ![s].at = "lock", ![s].restart = restart]
  /\ UNCHANGED <<lockDir, daemon, faults, broken>>

(* Mutant of TakeLock: mkdir -p. *)
TakeAnyway(s) ==
  /\ Where(s, "lock")
  /\ lockDir' = TRUE
  /\ Moves(s, IF adbStart[s].restart THEN "restart" ELSE "look")
  /\ UNCHANGED <<daemon, faults, broken>>

TakeLock(s) ==
  /\ Where(s, "lock") /\ ~lockDir
  /\ lockDir' = TRUE
  /\ Moves(s, IF adbStart[s].restart THEN "restart" ELSE "look")
  /\ UNCHANGED <<daemon, faults, broken>>

(* Mutant of LockBusy: one try too many. *)
LockBusyLonger(s) ==
  /\ Where(s, "lock") /\ lockDir
  /\ adbStart' = [adbStart EXCEPT ![s].tries = @ + 1,
                                  ![s].at = IF adbStart[s].tries = LockTries THEN "gave up" ELSE "lock"]
  /\ UNCHANGED <<lockDir, daemon, faults, broken>>

(* The lock is taken: another start is active, and after the last try the run ends. *)
LockBusy(s) ==
  /\ Where(s, "lock") /\ lockDir
  /\ adbStart' = [adbStart EXCEPT ![s].tries = @ + 1,
                                  ![s].at = IF adbStart[s].tries + 1 = LockTries THEN "gave up" ELSE "lock"]
  /\ UNCHANGED <<lockDir, daemon, faults, broken>>

(* Mutant of LeaveStart: the lock stays. *)
LeaveKeepsLock(s, at) == Moves(s, at) /\ UNCHANGED lockDir

(* The trap on EXIT removes the lock, whoever has it. *)
LeaveStart(s, at) == Moves(s, at) /\ lockDir' = FALSE

(* stop_adbd: every process of that name, and the pid file. *)
StopAdbd(s) ==
  /\ Where(s, "restart") \/ Where(s, "stale")
  /\ listener' = NoDaemon /\ conns' = FALSE /\ adbdPid' = NoDaemon
  /\ Moves(s, IF Where(s, "restart") THEN "look" ELSE "spawn")
  /\ UNCHANGED <<lockDir, spawned, faults, broken>>

(* A process of that name and a port that listens is a daemon that runs; a process alone is
   a connection the daemon left behind. *)
LookAtDaemon(s) ==
  /\ Where(s, "look")
  /\ IF listener # NoDaemon THEN LeaveStart(s, "done")
     ELSE Moves(s, IF conns THEN "stale" ELSE "spawn") /\ UNCHANGED lockDir
  /\ UNCHANGED <<daemon, faults, broken>>

(* The daemon ends at once when the port is taken, and may fail on its own. *)
SpawnAdbd(s) ==
  /\ Where(s, "spawn")
  /\ spawned' = spawned + 1 /\ adbdPid' = spawned + 1
  /\ listener' \in IF listener = NoDaemon THEN {spawned + 1, NoDaemon} ELSE {listener}
  /\ Moves(s, "verify")
  /\ UNCHANGED <<lockDir, conns, faults, broken>>

VerifyAdbd(s) ==
  /\ Where(s, "verify")
  /\ IF listener # NoDaemon /\ adbdPid = listener THEN LeaveStart(s, "done")
     ELSE Moves(s, "retry") /\ UNCHANGED lockDir
  /\ UNCHANGED <<daemon, faults, broken>>

RetryAdbd(s) ==
  /\ Where(s, "retry")
  /\ listener' = IF adbdPid = listener THEN NoDaemon ELSE listener
  /\ IF adbStart[s].attempt = Attempts THEN LeaveStart(s, "failed")
     ELSE /\ adbStart' = [adbStart EXCEPT ![s].at = "spawn", ![s].attempt = @ + 1]
          /\ UNCHANGED lockDir
  /\ UNCHANGED <<conns, adbdPid, spawned, faults, broken>>

Fault == faults < MaxAdbFaults /\ faults' = faults + 1

(* INT or TERM in the section: the trap removes the lock, and the script goes on. *)
StartSignalled(s) ==
  /\ Fault /\ s \in InSection
  /\ lockDir' = FALSE
  /\ broken' = [broken EXCEPT !.lock = TRUE]
  /\ UNCHANGED <<adbStart, daemon>>

(* KILL in the section: no trap runs. *)
StartKilled(s) ==
  /\ Fault /\ s \in InSection
  /\ Moves(s, "failed")
  /\ broken' = [broken EXCEPT !.left = TRUE]
  /\ UNCHANGED <<lockDir, daemon>>

(* The daemon dies; its connections go on. *)
DaemonCrashes ==
  /\ Fault /\ listener # NoDaemon
  /\ listener' = NoDaemon
  /\ UNCHANGED <<lockDir, conns, adbdPid, adbStart, spawned, broken>>

HostConnects ==
  /\ listener # NoDaemon /\ ~conns /\ conns' = TRUE
  /\ UNCHANGED <<lockDir, listener, adbdPid, adbStart, spawned, faults, broken>>

HostLeaves ==
  /\ conns /\ conns' = FALSE
  /\ UNCHANGED <<lockDir, listener, adbdPid, adbStart, spawned, faults, broken>>

AdbStartStep(s) ==
  \/ TakeLock(s) \/ LockBusy(s) \/ StopAdbd(s) \/ LookAtDaemon(s) \/ SpawnAdbd(s) \/ VerifyAdbd(s)
  \/ RetryAdbd(s)

AdbdNext ==
  \/ \E s \in AdbStarts : AdbBegins(s) \/ AdbStartStep(s) \/ StartSignalled(s) \/ StartKilled(s)
  \/ DaemonCrashes \/ HostConnects \/ HostLeaves

(* A run goes on; its waits are bounded. *)
AdbdFairness == \A s \in AdbStarts : WF_adbdVars(AdbStartStep(s))

AdbdSpec == AdbdInit /\ [][AdbdNext]_adbdVars /\ AdbdFairness
-------------------------------------------------------------------------------
AdbdTypeOK ==
  /\ lockDir \in BOOLEAN /\ conns \in BOOLEAN
  /\ listener \in DaemonPids \cup {NoDaemon} /\ adbdPid \in DaemonPids \cup {NoDaemon}
  /\ adbStart \in [AdbStarts ->
       [at : {"idle", "lock", "restart", "look", "stale", "spawn", "verify", "retry", "done",
              "gave up", "failed"},
        tries : 0..LockTries, attempt : 1..Attempts, restart : BOOLEAN]]
  /\ spawned \in 0..(Cardinality(AdbStarts) * Attempts) /\ faults \in 0..MaxAdbFaults
  /\ broken \in [lock : BOOLEAN, left : BOOLEAN]

(* The lock admits one run at a time, so that no run takes the daemon another one has just
   spawned for a stale one and kills it: until INT or TERM makes a run give the lock away
   and go on. *)
LockExcludes == ~broken.lock => Cardinality(InSection) <= 1

(* However daemons die and connections outlive them, a start brings up a daemon that
   listens, unless all its attempts failed, or a run was killed and left the lock. *)
AdbComesUp ==
  \A s \in AdbStarts :
    Where(s, "lock") ~>
      (listener # NoDaemon \/ broken.left \/ \E r \in AdbStarts : Where(r, "failed"))
===============================================================================
