------------------------------- MODULE Services -------------------------------
(***************************************************************************)
(* The start scripts of the daemons that a pid file keeps single:          *)
(* nq-start-knob-volume, nq-start-led-visualizer, and nq-start-bluetooth,  *)
(* which brings up the controller first and starts bluetoothd and then the *)
(* pairing agent.  They are run at boot, by nq-provision and by hand, and  *)
(* nothing restarts a daemon that dies.  A script tests the pid file,      *)
(* starts the daemon and writes the file in separate commands.             *)
(***************************************************************************)
EXTENDS Naturals, FiniteSets

CONSTANTS
  Runs,       \* runs of the start scripts
  SvcPids,    \* process ids
  MaxDeaths   \* bound on the daemons that die by themselves

ASSUME ServicesAssumption == SvcPids \subseteq Nat \ {0} /\ MaxDeaths \in Nat

Scripts == {"knob", "led", "bluetooth"}
Daemons == {"knob", "led", "bluetoothd", "agent"}
FirstOf == [s \in Scripts |-> IF s = "bluetooth" THEN "bluetoothd" ELSE s]
NoPidFile == 0

VARIABLES
  hci,        \* the Bluetooth controller is there
  alive,      \* the processes of each daemon that run
  dying,      \* those that have got TERM and are not gone yet
  pidFile,    \* /run/nq-<daemon>.pid
  run,        \* each run of a script: which, where, the daemon in hand and the pid it started
  deaths,     \* daemons that have died by themselves
  crowded     \* history: a script was run while another run of it was at work

svcVars == <<hci, alive, dying, pidFile, run, deaths, crowded>>

NoRun == [script |-> "knob", at |-> "idle", daemon |-> "knob", pid |-> NoPidFile, restart |-> FALSE]

SvcInit ==
  /\ hci = FALSE /\ deaths = 0
  /\ alive = [d \in Daemons |-> {}] /\ dying = [d \in Daemons |-> {}]
  /\ pidFile = [d \in Daemons |-> NoPidFile]
  /\ run = [r \in Runs |-> NoRun]
  /\ crowded = FALSE

Working(r) == run[r].at \notin {"idle", "ready", "failed"}
Goto(r, at) == run' = [run EXCEPT ![r].at = at]
PidLive(d) == pidFile[d] \in alive[d] \cup dying[d]

RunBegins(r) ==
  /\ run[r].at = "idle"
  /\ \E script \in Scripts, restart \in BOOLEAN :
       /\ restart => script = "bluetooth"
       /\ run' = [run EXCEPT ![r] = [script |-> script, daemon |-> FirstOf[script], pid |-> NoPidFile,
                                     restart |-> restart,
                                     at |-> IF script = "bluetooth" THEN "load" ELSE "test"]]
       /\ crowded' = (crowded \/ \E q \in Runs \ {r} : Working(q) /\ run[q].script = script)
  /\ UNCHANGED <<hci, alive, dying, pidFile, deaths>>

(* nq-load-bluetooth: the controller is there, comes with the modules or with btattach, or
   does not come at all. *)
LoadHci(r) ==
  /\ run[r].at = "load"
  /\ hci' \in {hci, TRUE}
  /\ Goto(r, IF ~hci' THEN "failed" ELSE IF run[r].restart THEN "stop" ELSE "test")
  /\ UNCHANGED <<alive, dying, pidFile, deaths, crowded>>

(* NQ_BLUETOOTH_RESTART: stop_pid_file sends TERM and removes the file; it waits for nothing. *)
StopPidFiles(r) ==
  /\ run[r].at = "stop"
  /\ LET named == [d \in Daemons |-> IF d \in {"agent", "bluetoothd"} THEN {pidFile[d]} ELSE {}]
     IN  /\ alive' = [d \in Daemons |-> alive[d] \ named[d]]
         /\ dying' = [d \in Daemons |-> dying[d] \cup (named[d] \cap alive[d])]
         /\ pidFile' = [d \in Daemons |-> IF named[d] # {} THEN NoPidFile ELSE pidFile[d]]
  /\ Goto(r, "test")
  /\ UNCHANGED <<hci, deaths, crowded>>

(* The test of the pid file; nq-knob-volume and nq-led-visualizer are also looked for by name. *)
Present(d) == PidLive(d) \/ (d \in {"knob", "led"} /\ alive[d] \cup dying[d] # {})

(* nq-start-bluetooth goes on with the agent, whatever it found. *)
After(r) ==
  IF run[r].daemon = "bluetoothd"
  THEN run' = [run EXCEPT ![r].at = "test", ![r].daemon = "agent", ![r].pid = NoPidFile]
  ELSE Goto(r, "ready")

TestDaemon(r) ==
  /\ run[r].at = "test"
  /\ LET d == run[r].daemon
     IN  IF Present(d) THEN After(r) /\ UNCHANGED pidFile
         ELSE /\ Goto(r, "start")
              /\ pidFile' = IF d \in {"bluetoothd", "agent"}
                            THEN [pidFile EXCEPT ![d] = NoPidFile] ELSE pidFile
  /\ UNCHANGED <<hci, alive, dying, deaths, crowded>>

(* bluetoothd gives up when another one still has its name on the bus; any daemon may fail
   to start. *)
StartDaemon(r) ==
  /\ run[r].at = "start"
  /\ LET d == run[r].daemon
         used == alive[d] \cup dying[d]
     IN  \E pid \in SvcPids \ (used \cup {pidFile[d]}) :
           /\ run' = [run EXCEPT ![r].at = "write", ![r].pid = pid]
           /\ alive' = IF d = "bluetoothd" /\ used # {} THEN alive
                       ELSE [alive EXCEPT ![d] = @ \cup {pid}]
  /\ UNCHANGED <<hci, dying, pidFile, deaths, crowded>>

(* Mutant of WritePidFile: the file of the daemon that was started first. *)
WriteFirstFile(r) ==
  /\ run[r].at = "write"
  /\ pidFile' = [pidFile EXCEPT ![FirstOf[run[r].script]] = run[r].pid]
  /\ IF run[r].daemon = "bluetoothd" THEN After(r) ELSE Goto(r, "verify")
  /\ UNCHANGED <<hci, alive, dying, deaths, crowded>>

WritePidFile(r) ==
  /\ run[r].at = "write"
  /\ pidFile' = [pidFile EXCEPT ![run[r].daemon] = run[r].pid]
  /\ IF run[r].daemon = "bluetoothd" THEN After(r) ELSE Goto(r, "verify")
  /\ UNCHANGED <<hci, alive, dying, deaths, crowded>>

(* A second later the pid in the file must be alive; without the agent the script is ready
   all the same, and removes its file. *)
VerifyDaemon(r) ==
  /\ run[r].at = "verify"
  /\ LET d == run[r].daemon
     IN  /\ Goto(r, IF PidLive(d) \/ d = "agent" THEN "ready" ELSE "failed")
         /\ pidFile' = IF d = "agent" /\ ~PidLive(d) THEN [pidFile EXCEPT ![d] = NoPidFile] ELSE pidFile
  /\ UNCHANGED <<hci, alive, dying, deaths, crowded>>

(* A daemon that has got TERM ends. *)
DaemonGone(d) ==
  /\ \E pid \in dying[d] : dying' = [dying EXCEPT ![d] = @ \ {pid}]
  /\ UNCHANGED <<hci, alive, pidFile, run, deaths, crowded>>

DaemonDies(d) ==
  /\ deaths < MaxDeaths /\ deaths' = deaths + 1
  /\ \E pid \in alive[d] : alive' = [alive EXCEPT ![d] = @ \ {pid}]
  /\ UNCHANGED <<hci, dying, pidFile, run, crowded>>

RunStep(r) ==
  \/ RunBegins(r) \/ LoadHci(r) \/ StopPidFiles(r) \/ TestDaemon(r) \/ StartDaemon(r)
  \/ WritePidFile(r) \/ VerifyDaemon(r)

SvcNext ==
  \/ \E r \in Runs : RunStep(r)
  \/ \E d \in Daemons : DaemonGone(d) \/ DaemonDies(d)

SvcSpec == SvcInit /\ [][SvcNext]_svcVars
-------------------------------------------------------------------------------
SvcTypeOK ==
  /\ hci \in BOOLEAN /\ deaths \in 0..MaxDeaths
  /\ alive \in [Daemons -> SUBSET SvcPids] /\ dying \in [Daemons -> SUBSET SvcPids]
  /\ pidFile \in [Daemons -> SvcPids \cup {NoPidFile}]
  /\ run \in [Runs -> [script : Scripts, daemon : Daemons, pid : SvcPids \cup {NoPidFile},
                       restart : BOOLEAN,
                       at : {"idle", "load", "stop", "test", "start", "write", "verify",
                             "ready", "failed"}]]
  /\ crowded \in BOOLEAN

(* However often the scripts are run, one after another, each daemon runs once, and when no
   script is at work its pid file names it: what a restart of Bluetooth relies on, and what
   a lost file or a daemon that died before must not break. *)
DaemonsSingle ==
  ~crowded =>
    \A d \in Daemons :
      /\ Cardinality(alive[d]) <= 1
      /\ (\A r \in Runs : ~Working(r)) /\ alive[d] # {} => pidFile[d] \in alive[d]
===============================================================================
