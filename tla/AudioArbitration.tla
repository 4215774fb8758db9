--------------------------- MODULE AudioArbitration ---------------------------
(***************************************************************************)
(* The programs that compete for the amplifier, and the files they share:  *)
(*   - nq-somafm-play STATION (Plays) and nq-somafm-play --stop (Stops):   *)
(*     a boot autostart, an NFC tap or a shell may each run one;           *)
(*   - the supervisor a play leaves behind, which restarts nq-play when it *)
(*     exits, and the nq-play it runs, a shell and then a pipeline;        *)
(*   - nq-start-squeezelite (Starters);                                    *)
(*   - the tap loop of nq-start-bluetooth-audio, which takes over when a   *)
(*     phone streams, and a run of that script with                        *)
(*     NQ_BLUETOOTH_A2DP_RESTART=1, which replaces the loop.               *)
(* A play is one run of the program; its supervisor's pid is named after   *)
(* it.  Pids are not reused.                                               *)
(***************************************************************************)
EXTENDS AudioOwner, FiniteSets

CONSTANTS
  Plays, Stops, Starters,   \* the runs of the three programs
  Viewers,                  \* the runs of nq-player-status, which reads the record
  Tap,                      \* the Bluetooth tap loop
  MaxConnects,              \* how often a phone starts to stream
  MaxRestarts               \* how often the Bluetooth audio script is run again

Requests == Plays \cup Stops \cup Starters \cup Viewers

ASSUME ArbitrationAssumption ==
  /\ Clients = Requests \cup {Tap}
  /\ Pids = Plays
  /\ Tap \notin Requests \cup {NoPid}
  /\ Plays \cap Stops = {} /\ (Plays \cup Stops) \cap (Starters \cup Viewers) = {}
  /\ Starters \cap Viewers = {} /\ NoPid \notin Requests
  /\ MaxConnects \in Nat /\ MaxRestarts \in Nat

VARIABLES
  pc,          \* where each run is
  pidFile,     \* /run/nq-somafm.pid
  playerFile,  \* /run/nq-somafm-player.pid, named after the player's supervisor
  sup,         \* where each supervisor is in its loop
  player,      \* the nq-play of each supervisor: none, a shell, or a running pipeline
  device,      \* who has hw:0,0 open: a play, the tap, or nobody (NoPid)
  squeeze,     \* squeezelite runs, and its pid file names it
  tap,         \* where the tap loop is
  active,      \* the tap loop's variable active
  phone,       \* away, streams (BlueALSA lists an A2DP source PCM), or streams a
               \* PCM of a format the tap cannot read
  script,      \* where a restart of nq-start-bluetooth-audio is
  connects, restarts,   \* how many of each there were
  listed,      \* what each stop_player_tree has listed to kill: a supervisor and players
  overlaps     \* history: the kinds of operations that ever overlapped

vars == <<claim, live, cmd, pc, pidFile, playerFile, sup, player, device, squeeze,
          tap, active, phone, script, connects, restarts, listed, overlaps>>
runVars == <<pc, squeeze>>
playerVars == <<sup, player, device>>
fileVars == <<pidFile, playerFile>>
btVars == <<tap, active, phone, script, connects, restarts>>

Goto(r, from, to) == pc[r] = from /\ pc' = [pc EXCEPT ![r] = to]

-------------------------------------------------------------------------------
(* Operations that work on the pid file, and operations that assume they are
   alone with the amplifier, and the history of which of them ever overlapped. *)

InPidSection(r) ==
  pc[r] \in {"stop", "kill", "rmfiles", "names", "release", "release2", "spawn", "write"}
TapInPidSection == tap \in {"stop1", "rm1"}

PidOverlap ==
  \/ \E q, r \in Requests : q # r /\ InPidSection(q) /\ InPidSection(r)
  \/ TapInPidSection /\ \E r \in Requests : InPidSection(r)

Admitted(r) ==
  r \in Plays /\ (InPidSection(r) \/ pc[r] \in {"resolve", "claim", "verify"})
TakingOver == tap \in {"stop1", "rm1", "stop2", "rm2", "names", "claim", "open", "stream"}
TakeoverOverlap == TakingOver /\ \E r \in Plays : Admitted(r)

(* Recorded by the four actions by which an operation enters such a section. *)
NoteOverlap ==
  overlaps' = overlaps \cup (IF PidOverlap' THEN {"pidfile"} ELSE {})
                       \cup (IF TakeoverOverlap' THEN {"takeover"} ELSE {})

-------------------------------------------------------------------------------
(* Killing.  A kill of nq-play's pid ends it while it is still a shell setting
   the mixer; once it runs the pipeline, the pipeline outlives it. *)
KillSupervisor(p) == live' = live \ {p}
KillShells(ps) ==
  player' = [p \in Plays |-> IF p \in ps /\ player[p] = "shell" THEN "none" ELSE player[p]]

(* Killing nq-pcm-level-tap and aplay by name ends every pipeline there is, the
   Bluetooth one too: the tap loop then finds its pipeline exited. *)
KillPipelines ==
  /\ player' = [p \in Plays |-> IF player[p] = "pipe" THEN "none" ELSE player[p]]
  /\ device' = NoPid

TapLosesPipeline == tap' = IF tap = "stream" THEN "broken" ELSE tap

-------------------------------------------------------------------------------
(* nq-somafm-play, after its check of the owner record. *)

StartPlay(r) ==
  /\ r \in Plays
  /\ Goto(r, "idle", "check")
  /\ Begin(r, "check-free", "somafm")
  /\ UNCHANGED <<claim, live, squeeze, playerVars, fileVars, btVars, listed, overlaps>>

PlayAdmitted(r) ==
  /\ r \in Plays
  /\ Goto(r, "check", "resolve")
  /\ Return(r, "free")
  /\ UNCHANGED <<claim, live, squeeze, playerVars, fileVars, btVars, listed>>
  /\ NoteOverlap

(* exit 75: not stealing playback. *)
PlayRefused(r) ==
  /\ r \in Plays
  /\ Goto(r, "check", "refused")
  /\ Return(r, "busy")
  /\ UNCHANGED <<claim, live, squeeze, playerVars, fileVars, btVars, listed, overlaps>>

(* resolve_target asks the network for the stream's url, or fails. *)
Resolve(r) ==
  /\ \E to \in {"stop", "failed"} : Goto(r, "resolve", to)
  /\ UNCHANGED <<claim, live, cmd, squeeze, playerVars, fileVars, btVars, listed>>
  /\ NoteOverlap

StartStop(r) ==
  /\ r \in Stops
  /\ Goto(r, "idle", "stop")
  /\ UNCHANGED <<claim, live, cmd, squeeze, playerVars, fileVars, btVars, listed>>
  /\ NoteOverlap

NoList == [sup |-> NoPid, players |-> {}]

(* stop_player_tree lists the supervisor the pid file names, the player the player file names
   and the supervisor's children; without a pid file it does nothing. *)
ListTree(r) ==
  /\ Goto(r, "stop", IF pidFile = NoPid THEN "names" ELSE "kill")
  /\ listed' = IF pidFile = NoPid THEN listed
               ELSE [listed EXCEPT ![r] = [sup |-> pidFile, players |-> {pidFile, playerFile} \ {NoPid}]]
  /\ UNCHANGED <<claim, live, cmd, squeeze, playerVars, fileVars, btVars, overlaps>>

(* Mutants of KillTree: the supervisor is left alive; the player is left alive. *)
KillTreeKeepsSupervisor(r) ==
  /\ Goto(r, "kill", "rmfiles")
  /\ KillShells(listed[r].players)
  /\ listed' = [listed EXCEPT ![r] = NoList]
  /\ UNCHANGED <<claim, live, cmd, squeeze, sup, device, fileVars, btVars, overlaps>>
KillTreeKeepsPlayer(r) ==
  /\ Goto(r, "kill", "rmfiles")
  /\ KillSupervisor(listed[r].sup)
  /\ listed' = [listed EXCEPT ![r] = NoList]
  /\ UNCHANGED <<claim, cmd, squeeze, playerVars, fileVars, btVars, overlaps>>

(* It kills what it has listed, and nothing that was forked since. *)
KillTree(r) ==
  /\ Goto(r, "kill", "rmfiles")
  /\ KillSupervisor(listed[r].sup)
  /\ KillShells(listed[r].players)
  /\ listed' = [listed EXCEPT ![r] = NoList]
  /\ UNCHANGED <<claim, cmd, squeeze, sup, device, fileVars, btVars, overlaps>>

RemoveFiles(r) ==
  /\ Goto(r, "rmfiles", "names")
  /\ pidFile' = NoPid
  /\ playerFile' = NoPid
  /\ UNCHANGED <<claim, live, cmd, squeeze, playerVars, btVars, listed, overlaps>>

(* The rest of stop_players: every pipeline, squeezelite, and then the release. *)
StopNames(r) ==
  /\ Goto(r, "names", "release")
  /\ KillPipelines
  /\ TapLosesPipeline
  /\ squeeze' = FALSE
  /\ Begin(r, "release", "somafm")
  /\ UNCHANGED <<claim, live, sup, fileVars, active, phone, script, connects, restarts,
                 listed, overlaps>>

Released(r) ==
  /\ r \in Plays
  /\ Goto(r, "release", "spawn")
  /\ Return(r, "done")
  /\ UNCHANGED <<claim, live, squeeze, playerVars, fileVars, btVars, listed, overlaps>>

(* --stop clears the loading cue and releases once more. *)
StopReleasesAgain(r) ==
  /\ r \in Stops
  /\ Goto(r, "release", "release2")
  /\ cmd[r].step = "done"
  /\ Begin(r, "release", "somafm")
  /\ UNCHANGED <<claim, live, squeeze, playerVars, fileVars, btVars, listed, overlaps>>

StopDone(r) ==
  /\ Goto(r, "release2", "stopped")
  /\ Return(r, "done")
  /\ UNCHANGED <<claim, live, squeeze, playerVars, fileVars, btVars, listed, overlaps>>

Spawn(r) ==
  /\ Goto(r, "spawn", "write")
  /\ live' = live \cup {r}
  /\ sup' = [sup EXCEPT ![r] = "fork"]
  /\ UNCHANGED <<claim, cmd, squeeze, player, device, fileVars, btVars, listed, overlaps>>

WritePid(r) ==
  /\ Goto(r, "write", "claim")
  /\ pidFile' = r
  /\ UNCHANGED <<claim, live, cmd, squeeze, playerVars, playerFile, btVars, listed, overlaps>>

(* Mutant of ClaimPlaying: the arguments of the claim are swapped. *)
ClaimPlayingSwapped(r) ==
  /\ Goto(r, "claim", "verify")
  /\ WriteClaim(pidFile, "somafm")
  /\ UNCHANGED <<live, cmd, squeeze, playerVars, fileVars, btVars, listed, overlaps>>

(* The claim carries whatever the pid file holds by now, nothing if it is gone. *)
ClaimPlaying(r) ==
  /\ Goto(r, "claim", "verify")
  /\ WriteClaim("somafm", pidFile)
  /\ UNCHANGED <<live, cmd, squeeze, playerVars, fileVars, btVars, listed, overlaps>>

Verify(r) ==
  /\ Goto(r, "verify", IF pidFile \in live THEN "playing" ELSE "failed")
  /\ UNCHANGED <<claim, live, cmd, squeeze, playerVars, fileVars, btVars, listed, overlaps>>

-------------------------------------------------------------------------------
(* The supervisor's loop and the nq-play it runs. *)

(* A player forked now is on no list made before; recorded when a stop that has listed its
   supervisor is about to kill. *)
ForkPlayer(p) ==
  /\ p \in live /\ sup[p] = "fork"
  /\ sup' = [sup EXCEPT ![p] = "write"]
  /\ player' = [player EXCEPT ![p] = "shell"]
  /\ listed' = [r \in Requests |-> [listed[r] EXCEPT !.players = @ \ {p}]]
  /\ overlaps' = overlaps \cup (IF \E r \in Requests : listed[r].sup = p THEN {"fork"} ELSE {})
  /\ UNCHANGED <<claim, live, cmd, runVars, device, fileVars, btVars>>

WritePlayer(p) ==
  /\ p \in live /\ sup[p] = "write"
  /\ sup' = [sup EXCEPT ![p] = "wait"]
  /\ playerFile' = p
  /\ UNCHANGED <<claim, live, cmd, runVars, player, device, pidFile, btVars, listed, overlaps>>

PlayerGone(p) ==
  /\ p \in live /\ sup[p] = "wait" /\ player[p] = "none"
  /\ sup' = [sup EXCEPT ![p] = "sleep"]
  /\ playerFile' = NoPid
  /\ UNCHANGED <<claim, live, cmd, runVars, player, device, pidFile, btVars, listed, overlaps>>

RestartPlayer(p) ==
  /\ p \in live /\ sup[p] = "sleep"
  /\ sup' = [sup EXCEPT ![p] = "fork"]
  /\ UNCHANGED <<claim, live, cmd, runVars, player, device, fileVars, btVars, listed, overlaps>>

(* aplay opens hw:0,0, or finds it busy, which ends the pipeline. *)
OpenDevice(p) ==
  /\ player[p] = "shell"
  /\ IF device = NoPid
     THEN /\ device' = p
          /\ player' = [player EXCEPT ![p] = "pipe"]
     ELSE /\ player' = [player EXCEPT ![p] = "none"]
          /\ UNCHANGED device
  /\ UNCHANGED <<claim, live, cmd, runVars, sup, fileVars, btVars, listed, overlaps>>

(* The stream ends or mpg123 fails. *)
PlayerExits(p) ==
  /\ player[p] = "pipe"
  /\ player' = [player EXCEPT ![p] = "none"]
  /\ device' = NoPid
  /\ UNCHANGED <<claim, live, cmd, runVars, sup, fileVars, btVars, listed, overlaps>>

-------------------------------------------------------------------------------
(* nq-start-squeezelite. *)

StartSqueezelite(r) ==
  /\ r \in Starters
  /\ Goto(r, "idle", "check")
  /\ Begin(r, "check-free", "squeezelite")
  /\ UNCHANGED <<claim, live, squeeze, playerVars, fileVars, btVars, listed, overlaps>>

SqueezeliteAdmitted(r) ==
  /\ r \in Starters
  /\ Goto(r, "check", "launch")
  /\ Return(r, "free")
  /\ UNCHANGED <<claim, live, squeeze, playerVars, fileVars, btVars, listed, overlaps>>

SqueezeliteRefused(r) ==
  /\ r \in Starters
  /\ Goto(r, "check", "refused")
  /\ Return(r, "busy")
  /\ UNCHANGED <<claim, live, squeeze, playerVars, fileVars, btVars, listed, overlaps>>

(* Already running is left alone; otherwise it is started. *)
LaunchSqueezelite(r) ==
  /\ Goto(r, "launch", "playing")
  /\ squeeze' = TRUE
  /\ UNCHANGED <<claim, live, cmd, playerVars, fileVars, btVars, listed, overlaps>>

-------------------------------------------------------------------------------
(* The tap loop of nq-start-bluetooth-audio.  While the script that replaces it
   has sent TERM, the loop's next step is its trap. *)

TapAt(from, to) == script # "term" /\ tap = from /\ tap' = to

TapFinds ==
  /\ phone # "away"
  /\ TapAt("find", "codec")
  /\ UNCHANGED <<claim, live, cmd, runVars, playerVars, fileVars, active, phone, script,
                 connects, restarts, listed, overlaps>>

TapFindsNothing ==
  /\ phone = "away" /\ active
  /\ TapAt("find", "release")
  /\ Begin(Tap, "release", "bluetooth")
  /\ UNCHANGED <<claim, live, runVars, playerVars, fileVars, active, phone, script,
                 connects, restarts, listed, overlaps>>

TapReleased ==
  /\ TapAt("release", "find")
  /\ Return(Tap, "done")
  /\ active' = FALSE
  /\ UNCHANGED <<claim, live, runVars, playerVars, fileVars, phone, script, connects,
                 restarts, listed, overlaps>>

(* Mutant of TapCodec: starting over forgets that the claim is held. *)
TapCodecForgets ==
  /\ TapAt("codec", IF phone = "streams" THEN "stop1" ELSE "find")
  /\ active' = (phone = "streams" /\ active)
  /\ UNCHANGED <<claim, live, cmd, runVars, playerVars, fileVars, phone, script, connects,
                 restarts, listed>>
  /\ NoteOverlap

(* After the codec is selected the PCM is looked up again: it may be gone, or have
   a format the tap cannot read; either way the loop starts over, keeping active. *)
TapCodec ==
  /\ TapAt("codec", IF phone = "streams" THEN "stop1" ELSE "find")
  /\ UNCHANGED <<claim, live, cmd, runVars, playerVars, fileVars, active, phone, script,
                 connects, restarts, listed>>
  /\ NoteOverlap

(* Mutant of TapStopsSupervisor: only the player is stopped, not its supervisor. *)
TapSkipsSupervisor ==
  /\ TapAt("stop1", IF pidFile = NoPid THEN "stop2" ELSE "rm1")
  /\ UNCHANGED <<claim, live, cmd, runVars, playerVars, fileVars, active, phone, script,
                 connects, restarts, listed, overlaps>>

(* stop_local_sources: stop_pid_file reads a pid file, kills, and removes the file
   there is by then. *)
TapStopsSupervisor ==
  /\ TapAt("stop1", IF pidFile = NoPid THEN "stop2" ELSE "rm1")
  /\ KillSupervisor(pidFile)
  /\ UNCHANGED <<claim, cmd, runVars, playerVars, fileVars, active, phone, script,
                 connects, restarts, listed, overlaps>>

TapRemovesPid ==
  /\ TapAt("rm1", "stop2")
  /\ pidFile' = NoPid
  /\ UNCHANGED <<claim, live, cmd, runVars, playerVars, playerFile, active, phone, script,
                 connects, restarts, listed, overlaps>>

TapStopsPlayer ==
  /\ TapAt("stop2", IF playerFile = NoPid THEN "names" ELSE "rm2")
  /\ KillShells({playerFile})
  /\ UNCHANGED <<claim, live, cmd, runVars, sup, device, fileVars, active, phone, script,
                 connects, restarts, listed, overlaps>>

TapRemovesPlayer ==
  /\ TapAt("rm2", "names")
  /\ playerFile' = NoPid
  /\ UNCHANGED <<claim, live, cmd, runVars, playerVars, pidFile, active, phone, script,
                 connects, restarts, listed, overlaps>>

TapStopsNames ==
  /\ TapAt("names", "claim")
  /\ KillPipelines
  /\ squeeze' = FALSE
  /\ UNCHANGED <<claim, live, cmd, pc, sup, fileVars, active, phone, script,
                 connects, restarts, listed, overlaps>>

(* claim bluetooth streaming, with no pid. *)
TapClaims ==
  /\ TapAt("claim", "open")
  /\ WriteClaim("bluetooth", NoPid)
  /\ active' = TRUE
  /\ UNCHANGED <<live, cmd, runVars, playerVars, fileVars, phone, script, connects,
                 restarts, listed, overlaps>>

TapOpens ==
  /\ TapAt("open", IF phone # "away" /\ device = NoPid THEN "stream" ELSE "broken")
  /\ device' = IF phone # "away" /\ device = NoPid THEN Tap ELSE device
  /\ UNCHANGED <<claim, live, cmd, runVars, sup, player, fileVars, active, phone, script,
                 connects, restarts, listed, overlaps>>

(* bluealsa-cli ends with the PCM it reads. *)
TapStreamEnds ==
  /\ phone = "away" /\ tap = "stream"
  /\ tap' = "broken"
  /\ device' = NoPid
  /\ UNCHANGED <<claim, live, cmd, runVars, sup, player, fileVars, active, phone, script,
                 connects, restarts, listed, overlaps>>

TapRetries ==
  /\ TapAt("broken", "find")
  /\ UNCHANGED <<claim, live, cmd, runVars, playerVars, fileVars, active, phone, script,
                 connects, restarts, listed, overlaps>>

-------------------------------------------------------------------------------
(* nq-start-bluetooth-audio run again with NQ_BLUETOOTH_A2DP_RESTART=1.  It sends
   TERM to the loop, whose shell runs the trap as soon as no child is in the
   foreground, and then kills every old copy of the script with KILL. *)

ScriptTerminates ==
  /\ script = "idle" /\ restarts < MaxRestarts
  /\ script' = "term"
  /\ restarts' = restarts + 1
  /\ UNCHANGED <<claim, live, cmd, runVars, playerVars, fileVars, tap, active, phone,
                 connects, listed, overlaps>>

TapTraps ==
  /\ script = "term" /\ tap \notin {"stream", "trap", "trap2", "dead"}
  /\ cmd[Tap].step \in {"idle", "done"}
  /\ tap' = "trap"
  /\ Begin(Tap, "release", "bluetooth")
  /\ UNCHANGED <<claim, live, runVars, playerVars, fileVars, active, phone, script,
                 connects, restarts, listed, overlaps>>

(* The trap's exit runs it a second time, for EXIT. *)
TapTrapsExit ==
  /\ script = "term" /\ tap = "trap" /\ cmd[Tap].step = "done"
  /\ tap' = "trap2"
  /\ Begin(Tap, "release", "bluetooth")
  /\ UNCHANGED <<claim, live, runVars, playerVars, fileVars, active, phone, script,
                 connects, restarts, listed, overlaps>>

(* stop_stale_audio_scripts.  A nq-audio-owner the loop was running goes on. *)
ScriptKills ==
  /\ script = "term"
  /\ script' = "names"
  /\ tap' = "dead"
  /\ active' = FALSE
  /\ UNCHANGED <<claim, live, cmd, runVars, playerVars, fileVars, phone, connects,
                 restarts, listed, overlaps>>

(* The pipelines and bluealsa go, and with bluealsa the phone's PCM. *)
ScriptKillsNames ==
  /\ script = "names"
  /\ script' = "start"
  /\ KillPipelines
  /\ phone' = "away"
  /\ UNCHANGED <<claim, live, cmd, runVars, sup, fileVars, tap, active, connects,
                 restarts, listed, overlaps>>

ScriptStarts ==
  /\ script = "start" /\ cmd[Tap].step \in {"idle", "done"}
  /\ script' = "idle"
  /\ tap' = "find"
  /\ cmd' = [cmd EXCEPT ![Tap] = Idle]
  /\ UNCHANGED <<claim, live, runVars, playerVars, fileVars, active, phone, connects,
                 restarts, listed, overlaps>>

PhoneStreams ==
  /\ phone = "away" /\ connects < MaxConnects /\ script # "start"
  /\ phone' \in {"streams", "unreadable"}
  /\ connects' = connects + 1
  /\ UNCHANGED <<claim, live, cmd, runVars, playerVars, fileVars, tap, active, script,
                 restarts, listed, overlaps>>

PhoneLeaves ==
  /\ phone # "away"
  /\ phone' = "away"
  /\ UNCHANGED <<claim, live, cmd, runVars, playerVars, fileVars, tap, active, script,
                 connects, restarts, listed, overlaps>>

-------------------------------------------------------------------------------
(* nq-player-status. *)

StartViewer(r) ==
  /\ r \in Viewers
  /\ Goto(r, "idle", "check")
  /\ Begin(r, "status", NoOwner)
  /\ UNCHANGED <<claim, live, squeeze, playerVars, fileVars, btVars, listed, overlaps>>

ViewerDone(r) ==
  /\ r \in Viewers
  /\ Goto(r, "check", "shown")
  /\ Return(r, "done")
  /\ UNCHANGED <<claim, live, squeeze, playerVars, fileVars, btVars, listed, overlaps>>

-------------------------------------------------------------------------------
Begins(r) == StartPlay(r) \/ StartStop(r) \/ StartSqueezelite(r) \/ StartViewer(r)

Continues(r) ==
  \/ PlayAdmitted(r) \/ PlayRefused(r) \/ Resolve(r)
  \/ ListTree(r) \/ KillTree(r) \/ RemoveFiles(r) \/ StopNames(r)
  \/ Released(r) \/ StopReleasesAgain(r) \/ StopDone(r)
  \/ Spawn(r) \/ WritePid(r) \/ ClaimPlaying(r) \/ Verify(r)
  \/ SqueezeliteAdmitted(r) \/ SqueezeliteRefused(r) \/ LaunchSqueezelite(r)
  \/ ViewerDone(r)

OwnerCommand(c) ==
  /\ OwnerStep(c)
  /\ UNCHANGED <<live, runVars, playerVars, fileVars, btVars, listed, overlaps>>

Supervise(p) ==
  ForkPlayer(p) \/ WritePlayer(p) \/ PlayerGone(p) \/ RestartPlayer(p) \/ OpenDevice(p)

TapStep ==
  \/ TapFinds \/ TapFindsNothing \/ TapReleased \/ TapCodec
  \/ TapStopsSupervisor \/ TapRemovesPid \/ TapStopsPlayer \/ TapRemovesPlayer
  \/ TapStopsNames \/ TapClaims \/ TapOpens \/ TapStreamEnds \/ TapRetries

ScriptStep ==
  \/ TapTraps \/ TapTrapsExit \/ ScriptKills \/ ScriptKillsNames \/ ScriptStarts

(* What the listener, the phone and the stream do, and when. *)
Environment ==
  \/ \E r \in Requests : Begins(r)
  \/ \E p \in Plays : PlayerExits(p)
  \/ ScriptTerminates \/ PhoneStreams \/ PhoneLeaves

Next ==
  \/ Environment
  \/ \E r \in Requests : Continues(r)
  \/ \E c \in Clients : OwnerCommand(c)
  \/ \E p \in Plays : Supervise(p)
  \/ TapStep
  \/ ScriptStep

Init ==
  /\ OwnerInit
  /\ live = {}
  /\ pc = [r \in Requests |-> "idle"]
  /\ pidFile = NoPid /\ playerFile = NoPid
  /\ sup = [p \in Plays |-> "fork"]
  /\ player = [p \in Plays |-> "none"]
  /\ device = NoPid
  /\ squeeze = FALSE
  /\ tap = "find" /\ active = FALSE /\ phone = "away" /\ script = "idle"
  /\ connects = 0 /\ restarts = 0
  /\ listed = [r \in Requests |-> NoList] /\ overlaps = {}

Spec == Init /\ [][Next]_vars

(* The kernel runs every runnable process; nothing makes a listener or a phone act. *)
Fairness ==
  /\ \A r \in Requests : WF_vars(Continues(r))
  /\ \A c \in Clients : WF_vars(OwnerCommand(c))
  /\ \A p \in Plays : WF_vars(Supervise(p))
  /\ WF_vars(TapStep)
  /\ WF_vars(ScriptStep)

FairSpec == Spec /\ Fairness
-------------------------------------------------------------------------------
TypeOK ==
  /\ OwnerTypeOK
  /\ live \subseteq Plays
  /\ pc \in [Requests -> {"idle", "check", "refused", "resolve", "failed", "stop", "kill", "rmfiles",
                          "names", "release", "release2", "stopped", "spawn", "write", "claim",
                          "verify", "playing", "launch", "shown"}]
  /\ pidFile \in Plays \cup {NoPid} /\ playerFile \in Plays \cup {NoPid}
  /\ sup \in [Plays -> {"fork", "write", "wait", "sleep"}]
  /\ player \in [Plays -> {"none", "shell", "pipe"}]
  /\ device \in Plays \cup {Tap, NoPid}
  /\ squeeze \in BOOLEAN /\ active \in BOOLEAN
  /\ tap \in {"find", "release", "codec", "stop1", "rm1", "stop2", "rm2", "names", "claim",
              "open", "stream", "broken", "trap", "trap2", "dead"}
  /\ phone \in {"away", "streams", "unreadable"}
  /\ script \in {"idle", "term", "names", "start"}
  /\ connects \in 0..MaxConnects /\ restarts \in 0..MaxRestarts
  /\ listed \in [Requests -> [sup : Plays \cup {NoPid}, players : SUBSET Plays]]
  /\ overlaps \subseteq {"pidfile", "takeover", "fork"}

(* One SomaFM player at a time: as long as no two operations on the pid file ever
   overlapped, at most one supervisor is alive, and the pid file names it or its
   own play is about to write it there. *)
OneSupervisor ==
  "pidfile" \notin overlaps =>
    /\ \A p \in live : pidFile = p \/ pc[p] = "write"
    /\ \A p, q \in live : p = q

(* A takeover by Bluetooth silences SomaFM: when the tap loop claims the amplifier
   and while it streams, no supervisor is alive to bring nq-play back, unless
   operations on the pid file, or a play and a takeover, ever overlapped. *)
TakeoverSilencesSomaFM ==
  {"pidfile", "takeover"} \cap overlaps = {} /\ tap \in {"claim", "open", "stream"} => live = {}

(* A record that names Bluetooth, which refuses every local source, is backed by a
   tap loop that remembers to release it, as long as the Bluetooth script was never
   run again. *)
BluetoothClaimIsHeld ==
  claim.owner = "bluetooth" /\ restarts = 0 => active

(* The claim of the tap loop, written when it takes over, is released after the
   phone stops streaming, or the phone streams again. *)
ClaimReleasedAfterStream ==
  (claim.owner = "bluetooth" /\ phone = "away")
    ~> (claim.owner # "bluetooth" \/ phone # "away")

(* Bluetooth gets the amplifier: with a phone that keeps streaming, the tap loop in
   the end holds hw:0,0 and keeps it, whatever local sources were started. *)
BluetoothGetsDevice ==
  <>[](phone = "streams") => <>[](device = Tap)

(* nq-somafm-play --stop silences SomaFM: when it has killed what the files name and
   the pipelines, no supervisor is alive to bring nq-play back, and none of its
   players is left even as a shell, unless a takeover killed a supervisor alone, or a
   supervisor forked a player when it was already listed and not yet killed. *)
StopSilences ==
  "pidfile" \notin overlaps =>
    \A s \in Stops : pc[s] \in {"release", "release2"} =>
      /\ live = {}
      /\ connects = 0 /\ "fork" \notin overlaps => \A p \in Plays : player[p] = "none"

-------------------------------------------------------------------------------
(* What the repository says of arbitration and the programs do not keep: each of
   these is checked by a run of its own, which finds it violated. *)

(* BLUETOOTH_HCI_SPIKE.md:93: while Bluetooth owns playback, NFC taps and the boot
   default station do not replace it.  A play that passed its check before Bluetooth
   claimed writes its own claim over Bluetooth's, however long it took to resolve. *)
BluetoothNotReplaced ==
  [][tap = "stream" /\ claim.owner = "bluetooth" => claim'.owner # "somafm"]_vars
===============================================================================
