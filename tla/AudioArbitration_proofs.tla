----------------------- MODULE AudioArbitration_proofs -----------------------
(***************************************************************************)
(* Proofs about AudioArbitration for every set of plays, stops, starters   *)
(* and viewers, and every number of connections and restarts.              *)
(***************************************************************************)
EXTENDS AudioArbitration, TLAPS

(* Which kinds of run reach which points of the programs. *)
PcOK ==
  \A r \in Requests :
    /\ pc[r] \in {"resolve", "spawn", "write", "claim", "verify"} => r \in Plays
    /\ pc[r] \in {"stop", "kill", "rmfiles", "names", "release"} => r \in Plays \cup Stops
    /\ pc[r] = "release2" => r \in Stops

TypeInv == TypeOK /\ PcOK

-------------------------------------------------------------------------------
(* The commands of nq-audio-owner keep the record and the commands well formed. *)

LEMMA BeginType ==
  ASSUME OwnerTypeOK, NEW c \in Clients, NEW op \in {"release", "check-free", "status"},
         NEW who \in Requesters \cup {NoOwner}, Begin(c, op, who)
  PROVE  cmd' \in [Clients -> CmdType]
BY DEF OwnerTypeOK, Begin, CmdType

LEMMA AtStepType ==
  ASSUME OwnerTypeOK, NEW c \in Clients, NEW from, NEW to, AtStep(c, from, to),
         to \in {"idle", "drop", "read", "remove", "done", "free", "busy"}
  PROVE  cmd' \in [Clients -> CmdType]
BY DEF OwnerTypeOK, AtStep, CmdType

LEMMA OwnerStepType ==
  ASSUME OwnerTypeOK, NEW c \in Clients, OwnerStep(c)
  PROVE  OwnerTypeOK'
<1>1. CASE DropStale(c)
  <2>1. cmd' \in [Clients -> CmdType]
    BY <1>1, AtStepType DEF DropStale
  <2>. QED BY <2>1, <1>1 DEF DropStale, OwnerTypeOK, ClaimType, NoClaim
<1>2. CASE ReadOwner(c)
  <2>1. Verdict(c) \in {"remove", "done", "busy", "free"}
    BY DEF Verdict, OwnerTypeOK, CmdType
  <2>2. cmd' \in [Clients -> CmdType]
    BY <1>2, <2>1, AtStepType DEF ReadOwner
  <2>. QED BY <2>2, <1>2 DEF ReadOwner, OwnerTypeOK
<1>3. CASE RemoveOwn(c)
  <2>1. cmd' \in [Clients -> CmdType]
    BY <1>3, AtStepType DEF RemoveOwn
  <2>. QED BY <2>1, <1>3 DEF RemoveOwn, OwnerTypeOK, ClaimType, NoClaim
<1>. QED BY <1>1, <1>2, <1>3 DEF OwnerStep

-------------------------------------------------------------------------------
LEMMA InitType == Init => TypeInv
<1> SUFFICES ASSUME Init PROVE TypeInv
  OBVIOUS
<1>1. OwnerTypeOK
  <2>1. NoClaim \in ClaimType
    BY DEF NoClaim, ClaimType
  <2>2. Idle \in CmdType
    BY DEF Idle, CmdType
  <2>. QED BY <2>1, <2>2 DEF Init, OwnerInit, OwnerTypeOK
<1>2. PcOK
  BY DEF Init, PcOK
<1>3. connects \in 0..MaxConnects /\ restarts \in 0..MaxRestarts
  BY ArbitrationAssumption DEF Init
<1>. QED BY <1>1, <1>2, <1>3 DEF Init, TypeInv, TypeOK, NoList

LEMMA IdleType == Idle \in CmdType
BY DEF Idle, CmdType

LEMMA RequestType ==
  ASSUME TypeInv, NEW r \in Requests, Begins(r) \/ Continues(r)
  PROVE  TypeInv'
<1>. /\ r \in Clients /\ Clients = Requests \cup {Tap} /\ Pids = Plays
     /\ Plays \cap Stops = {} /\ Plays \cap (Starters \cup Viewers) = {}
     /\ Stops \cap (Starters \cup Viewers) = {}
  BY ArbitrationAssumption
<1>. USE DEF TypeInv, TypeOK, OwnerTypeOK, PcOK
<1>1. CASE StartPlay(r)
  BY <1>1, BeginType DEF StartPlay, Goto, playerVars, fileVars, btVars, Requesters,
      Owners
<1>2. CASE PlayAdmitted(r)
  BY <1>2, AtStepType DEF PlayAdmitted, Goto, NoteOverlap, playerVars, fileVars,
      btVars, Return
<1>3. CASE PlayRefused(r)
  BY <1>3, AtStepType DEF PlayRefused, Goto, playerVars, fileVars, btVars, Return
<1>4. CASE Resolve(r)
  BY <1>4 DEF Resolve, Goto, NoteOverlap, playerVars, fileVars, btVars
<1>5. CASE StartStop(r)
  BY <1>5 DEF StartStop, Goto, NoteOverlap, playerVars, fileVars, btVars
<1>6. CASE ListTree(r)
  BY <1>6 DEF ListTree, Goto, playerVars, fileVars, btVars
<1>22. CASE KillTree(r)
  BY <1>22 DEF KillTree, NoList, Goto, KillSupervisor, KillShells, fileVars, btVars
<1>7. CASE RemoveFiles(r)
  BY <1>7 DEF RemoveFiles, Goto, playerVars, btVars
<1>8. CASE StopNames(r)
  BY <1>8, BeginType DEF StopNames, Goto, KillPipelines, TapLosesPipeline, fileVars,
      Requesters, Owners
<1>9. CASE Released(r)
  BY <1>9, AtStepType DEF Released, Goto, playerVars, fileVars, btVars, Return
<1>10. CASE StopReleasesAgain(r)
  BY <1>10, BeginType DEF StopReleasesAgain, Goto, playerVars, fileVars, btVars,
      Requesters, Owners
<1>11. CASE StopDone(r)
  BY <1>11, AtStepType DEF StopDone, Goto, playerVars, fileVars, btVars, Return
<1>12. CASE Spawn(r)
  BY <1>12 DEF Spawn, Goto, fileVars, btVars
<1>13. CASE WritePid(r)
  BY <1>13 DEF WritePid, Goto, playerVars, btVars
<1>14. CASE ClaimPlaying(r)
  BY <1>14 DEF ClaimPlaying, Goto, playerVars, fileVars, btVars, WriteClaim, ClaimType,
      Owners
<1>15. CASE Verify(r)
  BY <1>15 DEF Verify, Goto, playerVars, fileVars, btVars
<1>16. CASE StartSqueezelite(r)
  BY <1>16, BeginType DEF StartSqueezelite, Goto, playerVars, fileVars, btVars,
      Requesters, Owners
<1>17. CASE SqueezeliteAdmitted(r)
  BY <1>17, AtStepType DEF SqueezeliteAdmitted, Goto, playerVars, fileVars, btVars,
      Return
<1>18. CASE SqueezeliteRefused(r)
  BY <1>18, AtStepType DEF SqueezeliteRefused, Goto, playerVars, fileVars, btVars,
      Return
<1>19. CASE LaunchSqueezelite(r)
  BY <1>19 DEF LaunchSqueezelite, Goto, playerVars, fileVars, btVars
<1>20. CASE StartViewer(r)
  BY <1>20, BeginType DEF StartViewer, Goto, playerVars, fileVars, btVars, Requesters,
      Owners
<1>21. CASE ViewerDone(r)
  BY <1>21, AtStepType DEF ViewerDone, Goto, playerVars, fileVars, btVars, Return
<1>. QED BY <1>1, <1>2, <1>3, <1>4, <1>5, <1>6, <1>7, <1>8, <1>9, <1>10, <1>11, <1>12,
    <1>13, <1>14, <1>15, <1>16, <1>17, <1>18, <1>19, <1>20, <1>21, <1>22 DEF Begins, Continues

LEMMA SuperviseType ==
  ASSUME TypeInv, NEW p \in Plays, Supervise(p) \/ PlayerExits(p)
  PROVE  TypeInv'
<1>. USE DEF TypeInv, TypeOK, OwnerTypeOK, PcOK
<1>1. CASE ForkPlayer(p)
  BY <1>1 DEF ForkPlayer, runVars, fileVars, btVars
<1>2. CASE WritePlayer(p)
  BY <1>2 DEF WritePlayer, runVars, btVars
<1>3. CASE PlayerGone(p)
  BY <1>3 DEF PlayerGone, runVars, btVars
<1>4. CASE RestartPlayer(p)
  BY <1>4 DEF RestartPlayer, runVars, fileVars, btVars
<1>5. CASE OpenDevice(p)
  BY <1>5 DEF OpenDevice, runVars, fileVars, btVars
<1>6. CASE PlayerExits(p)
  BY <1>6 DEF PlayerExits, runVars, fileVars, btVars
<1>. QED BY <1>1, <1>2, <1>3, <1>4, <1>5, <1>6 DEF Supervise

LEMMA BluetoothType ==
  ASSUME TypeInv,
         TapStep \/ ScriptStep \/ ScriptTerminates \/ PhoneStreams \/ PhoneLeaves
  PROVE  TypeInv'
<1>. /\ Tap \in Clients /\ Pids = Plays /\ MaxConnects \in Nat /\ MaxRestarts \in Nat
  BY ArbitrationAssumption
<1>. USE DEF TypeInv, TypeOK, OwnerTypeOK, PcOK
<1>1. CASE TapFinds
  BY <1>1 DEF TapFinds, TapAt, runVars, playerVars, fileVars
<1>2. CASE TapFindsNothing
  BY <1>2, BeginType DEF TapFindsNothing, TapAt, runVars, playerVars, fileVars,
      Requesters, Owners
<1>3. CASE TapReleased
  BY <1>3, AtStepType DEF TapReleased, TapAt, runVars, playerVars, fileVars, Return
<1>4. CASE TapCodec
  BY <1>4 DEF TapCodec, TapAt, NoteOverlap, runVars, playerVars, fileVars
<1>5. CASE TapStopsSupervisor
  BY <1>5 DEF TapStopsSupervisor, KillSupervisor, TapAt, runVars, playerVars, fileVars
<1>6. CASE TapRemovesPid
  BY <1>6 DEF TapRemovesPid, TapAt, runVars, playerVars
<1>7. CASE TapStopsPlayer
  BY <1>7 DEF TapStopsPlayer, KillShells, TapAt, runVars, fileVars
<1>8. CASE TapRemovesPlayer
  BY <1>8 DEF TapRemovesPlayer, TapAt, runVars, playerVars
<1>9. CASE TapStopsNames
  BY <1>9 DEF TapStopsNames, KillPipelines, TapAt, fileVars
<1>10. CASE TapClaims
  BY <1>10 DEF TapClaims, TapAt, runVars, playerVars, fileVars, WriteClaim, ClaimType,
      Owners
<1>11. CASE TapOpens
  BY <1>11 DEF TapOpens, TapAt, runVars, fileVars
<1>12. CASE TapStreamEnds
  BY <1>12 DEF TapStreamEnds, runVars, fileVars
<1>13. CASE TapRetries
  BY <1>13 DEF TapRetries, TapAt, runVars, playerVars, fileVars
<1>14. CASE ScriptTerminates
  BY <1>14 DEF ScriptTerminates, runVars, playerVars, fileVars
<1>15. CASE TapTraps
  BY <1>15, BeginType DEF TapTraps, runVars, playerVars, fileVars, Requesters, Owners
<1>16. CASE TapTrapsExit
  BY <1>16, BeginType DEF TapTrapsExit, runVars, playerVars, fileVars, Requesters,
      Owners
<1>17. CASE ScriptKills
  BY <1>17 DEF ScriptKills, runVars, playerVars, fileVars
<1>18. CASE ScriptKillsNames
  BY <1>18 DEF ScriptKillsNames, KillPipelines, runVars, fileVars
<1>19. CASE ScriptStarts
  BY <1>19, IdleType DEF ScriptStarts, runVars, playerVars, fileVars
<1>20. CASE PhoneStreams
  BY <1>20 DEF PhoneStreams, runVars, playerVars, fileVars
<1>21. CASE PhoneLeaves
  BY <1>21 DEF PhoneLeaves, runVars, playerVars, fileVars
<1>. QED BY <1>1, <1>2, <1>3, <1>4, <1>5, <1>6, <1>7, <1>8, <1>9, <1>10, <1>11, <1>12,
    <1>13, <1>14, <1>15, <1>16, <1>17, <1>18, <1>19, <1>20, <1>21 DEF TapStep,
    ScriptStep

LEMMA NextType ==
  ASSUME TypeInv, [Next]_vars
  PROVE  TypeInv'
<1>1. ASSUME NEW c \in Clients, OwnerCommand(c)
      PROVE  TypeInv'
  <2>1. OwnerTypeOK'
    BY <1>1, OwnerStepType DEF OwnerCommand, TypeInv, TypeOK
  <2>. QED BY <1>1, <2>1 DEF OwnerCommand, TypeInv, TypeOK, PcOK, runVars, playerVars,
                             fileVars, btVars
<1>2. CASE UNCHANGED vars
  BY <1>2 DEF TypeInv, TypeOK, OwnerTypeOK, PcOK, vars
<1>. QED BY <1>1, <1>2, RequestType, SuperviseType, BluetoothType DEF Next, Environment

(* Every variable keeps the values it has in the code: in particular every record of an
   owner is NoClaim or names an owner and a pid, and every command that nq-audio-owner
   runs is at a step of its own. *)
THEOREM TypeCorrect == Spec => []TypeOK
<1>1. Init => TypeInv
  BY InitType
<1>2. TypeInv /\ [Next]_vars => TypeInv'
  BY NextType
<1>3. TypeInv => TypeOK
  BY DEF TypeInv
<1>. QED BY <1>1, <1>2, <1>3, PTL DEF Spec

-------------------------------------------------------------------------------
(* The pid file, while no two operations on it have overlapped: a live supervisor is the
   one it names, or one whose play is about to name it; whoever is about to kill has listed the
   one it names; whoever has just removed the file is alone with it, and no supervisor is
   alive once its kill is done. *)
PidFileInv ==
  "pidfile" \notin overlaps =>
    /\ ~PidOverlap
    /\ \A p \in live : pidFile = p \/ pc[p] = "write"
    /\ \A r \in Requests :
         /\ pc[r] \in {"names", "release", "release2", "spawn", "write"} => pidFile = NoPid
         /\ pc[r] = "kill" => pidFile # NoPid /\ listed[r].sup = pidFile
         /\ pc[r] = "rmfiles" => live = {}
    /\ tap = "rm1" => live = {}

(* From the tap loop's kill of the supervisor to the end of its stream no supervisor is
   alive, while no play and takeover have overlapped. *)
TakeoverInv ==
  {"pidfile", "takeover"} \cap overlaps = {} =>
    /\ ~TakeoverOverlap
    /\ tap \in {"rm1", "stop2", "rm2", "names", "claim", "open", "stream"} => live = {}

(* The tap loop leaves its release only when the record is not its own. *)
ClaimInv ==
  restarts = 0 =>
    /\ script = "idle"
    /\ tap = "release" => cmd[Tap].op = "release" /\ cmd[Tap].who = "bluetooth"
    /\ tap = "release" /\ cmd[Tap].step = "done" => claim.owner # "bluetooth"
    /\ claim.owner = "bluetooth" => active

(* Until a phone has streamed the tap loop stops nothing, so a shell of nq-play lives
   under its supervisor, and unless a supervisor forked in between, a stop that is about to
   kill has listed it. *)
StopInv ==
  /\ connects = 0 =>
       /\ phone = "away"
       /\ tap \in {"find", "release", "trap", "trap2", "dead"}
  /\ connects = 0 /\ {"pidfile", "fork"} \cap overlaps = {} =>
       /\ \A p \in Plays : player[p] = "shell" => p \in live
       /\ \A r \in Requests : pc[r] = "kill" =>
            /\ listed[r].sup = pidFile /\ pidFile # NoPid
            /\ \A p \in Plays : player[p] = "shell" => p \in listed[r].players
       /\ \A s \in Stops : pc[s] \in {"release", "release2"} =>
            \A p \in Plays : player[p] = "none"
LEMMA RequestFacts ==
  /\ Plays \subseteq Requests /\ Stops \subseteq Requests /\ NoPid \notin Requests
  /\ Plays \cap Stops = {} /\ Tap \notin Requests /\ Tap # NoPid /\ Tap \in Clients
BY ArbitrationAssumption DEF Requests

(* Once a play or a --stop has removed the files, no supervisor is alive. *)
LEMMA StoppedIsSilent ==
  ASSUME TypeInv, PidFileInv, "pidfile" \notin overlaps, NEW r \in Requests,
         pc[r] \in {"names", "release", "release2"}
  PROVE  live = {}
BY RequestFacts DEF TypeInv, TypeOK, PidFileInv, PidOverlap, InPidSection

-------------------------------------------------------------------------------
LEMMA PidFileInvRequest ==
  ASSUME TypeInv, PidFileInv, NEW r \in Requests, Begins(r) \/ Continues(r)
  PROVE  PidFileInv'
<1>. USE RequestFacts DEF TypeInv, TypeOK, PcOK, PidFileInv, PidOverlap, InPidSection,
    TapInPidSection
<1>1. CASE PlayAdmitted(r)
  BY <1>1 DEF PlayAdmitted, Goto, NoteOverlap, playerVars, fileVars, btVars
<1>2. CASE Resolve(r)
  BY <1>2 DEF Resolve, Goto, NoteOverlap, playerVars, fileVars, btVars
<1>3. CASE StartStop(r)
  BY <1>3 DEF StartStop, Goto, NoteOverlap, playerVars, fileVars, btVars
<1>4. CASE KillTree(r)
  BY <1>4 DEF KillTree, Goto, KillSupervisor, KillShells, fileVars, btVars
<1>10. CASE ListTree(r)
  BY <1>10 DEF ListTree, Goto, playerVars, fileVars, btVars
<1>5. CASE RemoveFiles(r)
  BY <1>5 DEF RemoveFiles, Goto, playerVars, btVars
<1>6. CASE StopNames(r)
  BY <1>6 DEF StopNames, Goto, KillPipelines, TapLosesPipeline, fileVars
<1>7. CASE Spawn(r)
  BY <1>7 DEF Spawn, Goto, fileVars, btVars
<1>8. CASE WritePid(r)
  BY <1>8 DEF WritePid, Goto, playerVars, btVars
<1>9. CASE StartPlay(r) \/ PlayRefused(r) \/ Released(r) \/ StopReleasesAgain(r) \/
    StopDone(r) \/ ClaimPlaying(r) \/ Verify(r) \/ StartSqueezelite(r) \/
    SqueezeliteAdmitted(r) \/ SqueezeliteRefused(r) \/ LaunchSqueezelite(r) \/
    StartViewer(r) \/ ViewerDone(r)
  BY <1>9 DEF StartPlay, PlayRefused, Released, StopReleasesAgain, StopDone,
      ClaimPlaying, Verify, StartSqueezelite, SqueezeliteAdmitted, SqueezeliteRefused,
      LaunchSqueezelite, StartViewer, ViewerDone, Goto, playerVars, fileVars, btVars,
      WriteClaim
<1>. QED BY <1>1, <1>2, <1>3, <1>4, <1>5, <1>6, <1>7, <1>8, <1>9, <1>10 DEF Begins, Continues

LEMMA PidFileInvSupervise ==
  ASSUME TypeInv, PidFileInv, NEW p \in Plays, Supervise(p) \/ PlayerExits(p)
  PROVE  PidFileInv'
<1>. USE RequestFacts DEF TypeInv, TypeOK, PcOK, PidFileInv, PidOverlap, InPidSection,
    TapInPidSection
<1>1. CASE ForkPlayer(p) \/ WritePlayer(p) \/ PlayerGone(p) \/ RestartPlayer(p) \/
    OpenDevice(p) \/ PlayerExits(p)
  BY <1>1 DEF ForkPlayer, WritePlayer, PlayerGone, RestartPlayer, OpenDevice,
      PlayerExits, runVars, fileVars, btVars
<1>. QED BY <1>1 DEF Supervise

LEMMA PidFileInvBluetooth ==
  ASSUME TypeInv, PidFileInv, TapStep \/ ScriptStep \/ ScriptTerminates \/ PhoneStreams
      \/ PhoneLeaves
  PROVE  PidFileInv'
<1>. USE RequestFacts DEF TypeInv, TypeOK, PcOK, PidFileInv, PidOverlap, InPidSection,
    TapInPidSection
<1>1. CASE TapCodec
  BY <1>1 DEF TapCodec, TapAt, NoteOverlap, runVars, playerVars, fileVars
<1>2. CASE TapStopsSupervisor
  BY <1>2 DEF TapStopsSupervisor, KillSupervisor, TapAt, runVars, playerVars, fileVars
<1>3. CASE TapRemovesPid
  BY <1>3 DEF TapRemovesPid, TapAt, runVars, playerVars
<1>4. CASE TapFinds \/ TapFindsNothing \/ TapReleased \/ TapStopsPlayer \/
    TapRemovesPlayer \/ TapStopsNames \/ TapClaims \/ TapOpens \/ TapStreamEnds \/
    TapRetries \/ ScriptTerminates \/ TapTraps \/ TapTrapsExit \/ ScriptKills \/
    ScriptKillsNames \/ ScriptStarts \/ PhoneStreams \/ PhoneLeaves
  BY <1>4 DEF TapFinds, TapFindsNothing, TapReleased, TapStopsPlayer, TapRemovesPlayer,
      TapStopsNames, TapClaims, TapOpens, TapStreamEnds, TapRetries, ScriptTerminates,
      TapTraps, TapTrapsExit, ScriptKills, ScriptKillsNames, ScriptStarts,
      PhoneStreams, PhoneLeaves, TapAt, runVars, playerVars, fileVars, KillShells,
      KillPipelines, WriteClaim
<1>. QED BY <1>1, <1>2, <1>3, <1>4 DEF TapStep, ScriptStep

LEMMA PidFileInvNext ==
  ASSUME TypeInv, PidFileInv, [Next]_vars
  PROVE  PidFileInv'
<1>1. ASSUME NEW c \in Clients, OwnerCommand(c)
      PROVE  PidFileInv'
  BY <1>1 DEF OwnerCommand, TypeInv, TypeOK, PcOK, PidFileInv, PidOverlap,
      InPidSection, TapInPidSection, runVars, playerVars, fileVars, btVars
<1>2. CASE UNCHANGED vars
  BY <1>2 DEF TypeInv, TypeOK, PcOK, PidFileInv, PidOverlap, InPidSection,
      TapInPidSection, vars
<1>. QED BY <1>1, <1>2, PidFileInvRequest, PidFileInvSupervise, PidFileInvBluetooth DEF
    Next, Environment

(* One SomaFM supervisor at a time, for every number of plays and stops, as long as no two
   of them, nor one of them and the tap loop's stop, were inside stop_players at once. *)
THEOREM OneSupervisorHolds == Spec => []OneSupervisor
<1>. DEFINE IInv == TypeInv /\ PidFileInv
<1>1. Init => IInv
  BY InitType, RequestFacts DEF Init, PidFileInv, PidOverlap, InPidSection, TapInPidSection
<1>2. IInv /\ [Next]_vars => IInv'
  BY NextType, PidFileInvNext
<1>3. IInv => OneSupervisor
  BY RequestFacts DEF TypeInv, TypeOK, PidFileInv, OneSupervisor, PidOverlap,
         InPidSection
<1>. QED BY <1>1, <1>2, <1>3, PTL DEF Spec

-------------------------------------------------------------------------------
(* What enters a section without being noted overlaps with nothing. *)
LEMMA Noted ==
  ASSUME NoteOverlap, {"pidfile", "takeover"} \cap overlaps' = {}
  PROVE  {"pidfile", "takeover"} \cap overlaps = {} /\ ~TakeoverOverlap'
BY DEF NoteOverlap

LEMMA TakeoverInvRequest ==
  ASSUME TypeInv, PidFileInv, TakeoverInv, NEW r \in Requests, Begins(r) \/ Continues(r)
  PROVE  TakeoverInv'
<1>. USE RequestFacts DEF TypeInv, TypeOK, PcOK, PidFileInv, PidOverlap, InPidSection,
    TapInPidSection, TakeoverInv, TakeoverOverlap, TakingOver, Admitted
<1>1. CASE PlayAdmitted(r)
  <2>1. NoteOverlap
    BY <1>1 DEF PlayAdmitted
  <2>. QED BY <1>1, <2>1, Noted DEF PlayAdmitted, Goto, playerVars, fileVars, btVars
<1>2. CASE Resolve(r)
  BY <1>2 DEF Resolve, Goto, NoteOverlap, playerVars, fileVars, btVars
<1>3. CASE StartStop(r)
  BY <1>3 DEF StartStop, Goto, NoteOverlap, playerVars, fileVars, btVars
<1>4. CASE KillTree(r)
  BY <1>4 DEF KillTree, Goto, KillSupervisor, KillShells, fileVars, btVars
<1>7. CASE ListTree(r)
  BY <1>7 DEF ListTree, Goto, playerVars, fileVars, btVars
<1>5. CASE Spawn(r)
  BY <1>5 DEF Spawn, Goto, fileVars, btVars
<1>6. CASE StartPlay(r) \/ PlayRefused(r) \/ RemoveFiles(r) \/ StopNames(r) \/
    Released(r) \/ StopReleasesAgain(r) \/ StopDone(r) \/ WritePid(r) \/
    ClaimPlaying(r) \/ Verify(r) \/ StartSqueezelite(r) \/ SqueezeliteAdmitted(r) \/
    SqueezeliteRefused(r) \/ LaunchSqueezelite(r) \/ StartViewer(r) \/ ViewerDone(r)
  BY <1>6 DEF StartPlay, PlayRefused, RemoveFiles, StopNames, Released,
      StopReleasesAgain, StopDone, WritePid, ClaimPlaying, Verify, StartSqueezelite,
      SqueezeliteAdmitted, SqueezeliteRefused, LaunchSqueezelite, StartViewer,
      ViewerDone, Goto, playerVars, fileVars, btVars, KillPipelines, TapLosesPipeline,
      WriteClaim
<1>. QED BY <1>1, <1>2, <1>3, <1>4, <1>5, <1>6, <1>7 DEF Begins, Continues

LEMMA TakeoverInvSupervise ==
  ASSUME TypeInv, PidFileInv, TakeoverInv, NEW p \in Plays, Supervise(p) \/
      PlayerExits(p)
  PROVE  TakeoverInv'
<1>. USE RequestFacts DEF TypeInv, TypeOK, PcOK, PidFileInv, PidOverlap, InPidSection,
    TapInPidSection, TakeoverInv, TakeoverOverlap, TakingOver, Admitted
<1>1. CASE ForkPlayer(p) \/ WritePlayer(p) \/ PlayerGone(p) \/ RestartPlayer(p) \/
    OpenDevice(p) \/ PlayerExits(p)
  BY <1>1 DEF ForkPlayer, WritePlayer, PlayerGone, RestartPlayer, OpenDevice,
      PlayerExits, runVars, fileVars, btVars
<1>. QED BY <1>1 DEF Supervise

LEMMA TakeoverInvBluetooth ==
  ASSUME TypeInv, PidFileInv, TakeoverInv, TapStep \/ ScriptStep \/ ScriptTerminates \/
      PhoneStreams \/ PhoneLeaves
  PROVE  TakeoverInv'
<1>. USE RequestFacts DEF TypeInv, TypeOK, PcOK, PidFileInv, PidOverlap, InPidSection,
    TapInPidSection, TakeoverInv, TakeoverOverlap, TakingOver, Admitted
<1>1. CASE TapCodec
  BY <1>1 DEF TapCodec, TapAt, NoteOverlap, runVars, playerVars, fileVars
<1>2. CASE TapStopsSupervisor
  BY <1>2 DEF TapStopsSupervisor, KillSupervisor, TapAt, runVars, playerVars, fileVars
<1>3. CASE TapFinds \/ TapFindsNothing \/ TapReleased \/ TapRemovesPid \/
    TapStopsPlayer \/ TapRemovesPlayer \/ TapStopsNames \/ TapClaims \/ TapOpens \/
    TapStreamEnds \/ TapRetries \/ ScriptTerminates \/ TapTraps \/ TapTrapsExit \/
    ScriptKills \/ ScriptKillsNames \/ ScriptStarts \/ PhoneStreams \/ PhoneLeaves
  BY <1>3 DEF TapFinds, TapFindsNothing, TapReleased, TapRemovesPid, TapStopsPlayer,
      TapRemovesPlayer, TapStopsNames, TapClaims, TapOpens, TapStreamEnds, TapRetries,
      ScriptTerminates, TapTraps, TapTrapsExit, ScriptKills, ScriptKillsNames,
      ScriptStarts, PhoneStreams, PhoneLeaves, TapAt, runVars, playerVars, fileVars,
      KillShells, KillPipelines, WriteClaim
<1>. QED BY <1>1, <1>2, <1>3 DEF TapStep, ScriptStep

LEMMA TakeoverInvNext ==
  ASSUME TypeInv, PidFileInv, TakeoverInv, [Next]_vars
  PROVE  TakeoverInv'
<1>1. ASSUME NEW c \in Clients, OwnerCommand(c)
      PROVE  TakeoverInv'
  BY <1>1 DEF OwnerCommand, TypeInv, TypeOK, PcOK, PidFileInv, PidOverlap,
      InPidSection, TapInPidSection, TakeoverInv, TakeoverOverlap, TakingOver,
      Admitted, runVars, playerVars, fileVars, btVars
<1>2. CASE UNCHANGED vars
  BY <1>2 DEF TypeInv, TypeOK, PcOK, PidFileInv, PidOverlap, InPidSection,
      TapInPidSection, TakeoverInv, TakeoverOverlap, TakingOver, Admitted, vars
<1>. QED BY <1>1, <1>2, TakeoverInvRequest, TakeoverInvSupervise, TakeoverInvBluetooth
    DEF Next, Environment

(* When the tap loop claims the amplifier and while it streams, no supervisor is alive to
   bring nq-play back, for every number of plays that did not overlap the takeover. *)
THEOREM TakeoverSilences == Spec => []TakeoverSilencesSomaFM
<1>. DEFINE IInv == TypeInv /\ PidFileInv /\ TakeoverInv
<1>1. Init => IInv
  BY InitType, RequestFacts DEF Init, PidFileInv, PidOverlap, InPidSection, TapInPidSection, TakeoverInv, TakeoverOverlap, TakingOver
<1>2. IInv /\ [Next]_vars => IInv'
  BY NextType, PidFileInvNext, TakeoverInvNext
<1>3. IInv => TakeoverSilencesSomaFM
  BY DEF TakeoverInv, TakeoverSilencesSomaFM
<1>. QED BY <1>1, <1>2, <1>3, PTL DEF Spec

-------------------------------------------------------------------------------
LEMMA ClaimInvRequest ==
  ASSUME TypeInv, ClaimInv, NEW r \in Requests, Begins(r) \/ Continues(r)
  PROVE  ClaimInv'
<1>. USE RequestFacts DEF TypeInv, TypeOK, PcOK, OwnerTypeOK, ClaimType, CmdType,
    ClaimInv
<1>1. CASE ClaimPlaying(r)
  BY <1>1 DEF ClaimPlaying, Goto, playerVars, fileVars, btVars, WriteClaim
<1>2. CASE StartPlay(r) \/ PlayAdmitted(r) \/ PlayRefused(r) \/ Resolve(r) \/
    StartStop(r) \/ ListTree(r) \/ KillTree(r) \/ RemoveFiles(r) \/ StopNames(r) \/ Released(r) \/
    StopReleasesAgain(r) \/ StopDone(r) \/ Spawn(r) \/ WritePid(r) \/ Verify(r) \/
    StartSqueezelite(r) \/ SqueezeliteAdmitted(r) \/ SqueezeliteRefused(r) \/
    LaunchSqueezelite(r) \/ StartViewer(r) \/ ViewerDone(r)
  BY <1>2 DEF StartPlay, PlayAdmitted, PlayRefused, Resolve, StartStop, ListTree, KillTree,
      RemoveFiles, StopNames, Released, StopReleasesAgain, StopDone, Spawn, WritePid,
      Verify, StartSqueezelite, SqueezeliteAdmitted, SqueezeliteRefused,
      LaunchSqueezelite, StartViewer, ViewerDone, Goto, playerVars, fileVars, btVars,
      Begin, NoteOverlap, Return, AtStep, KillSupervisor, KillShells, KillPipelines,
      TapLosesPipeline
<1>. QED BY <1>1, <1>2 DEF Begins, Continues

LEMMA ClaimInvSupervise ==
  ASSUME TypeInv, ClaimInv, NEW p \in Plays, Supervise(p) \/ PlayerExits(p)
  PROVE  ClaimInv'
<1>. USE RequestFacts DEF TypeInv, TypeOK, PcOK, OwnerTypeOK, ClaimType, CmdType,
    ClaimInv
<1>1. CASE ForkPlayer(p) \/ WritePlayer(p) \/ PlayerGone(p) \/ RestartPlayer(p) \/
    OpenDevice(p) \/ PlayerExits(p)
  BY <1>1 DEF ForkPlayer, WritePlayer, PlayerGone, RestartPlayer, OpenDevice,
      PlayerExits, runVars, fileVars, btVars
<1>. QED BY <1>1 DEF Supervise

LEMMA ClaimInvBluetooth ==
  ASSUME TypeInv, ClaimInv, TapStep \/ ScriptStep \/ ScriptTerminates \/ PhoneStreams
      \/ PhoneLeaves
  PROVE  ClaimInv'
<1>. USE RequestFacts DEF TypeInv, TypeOK, PcOK, OwnerTypeOK, ClaimType, CmdType,
    ClaimInv
<1>1. CASE TapFindsNothing
  BY <1>1 DEF TapFindsNothing, TapAt, runVars, playerVars, fileVars, Begin
<1>2. CASE TapReleased
  BY <1>2 DEF TapReleased, TapAt, runVars, playerVars, fileVars, Return, AtStep
<1>3. CASE TapCodec
  BY <1>3 DEF TapCodec, TapAt, NoteOverlap, runVars, playerVars, fileVars
<1>4. CASE TapClaims
  BY <1>4 DEF TapClaims, TapAt, runVars, playerVars, fileVars, WriteClaim
<1>5. CASE ScriptTerminates
  BY <1>5 DEF ScriptTerminates, runVars, playerVars, fileVars
<1>6. CASE TapFinds \/ TapStopsSupervisor \/ TapRemovesPid \/ TapStopsPlayer \/
    TapRemovesPlayer \/ TapStopsNames \/ TapOpens \/ TapStreamEnds \/ TapRetries \/
    TapTraps \/ TapTrapsExit \/ ScriptKills \/ ScriptKillsNames \/ ScriptStarts \/
    PhoneStreams \/ PhoneLeaves
  BY <1>6 DEF TapFinds, TapStopsSupervisor, TapRemovesPid, TapStopsPlayer,
      TapRemovesPlayer, TapStopsNames, TapOpens, TapStreamEnds, TapRetries, TapTraps,
      TapTrapsExit, ScriptKills, ScriptKillsNames, ScriptStarts, PhoneStreams,
      PhoneLeaves, TapAt, runVars, playerVars, fileVars, KillSupervisor, KillShells,
      KillPipelines, Begin
<1>. QED BY <1>1, <1>2, <1>3, <1>4, <1>5, <1>6 DEF TapStep, ScriptStep

LEMMA ClaimInvNext ==
  ASSUME TypeInv, ClaimInv, [Next]_vars
  PROVE  ClaimInv'
<1>1. ASSUME NEW c \in Clients, OwnerCommand(c)
      PROVE  ClaimInv'
  <2>. USE <1>1 DEF OwnerCommand, TypeInv, TypeOK, PcOK, OwnerTypeOK, ClaimType,
      CmdType, ClaimInv, runVars, playerVars, fileVars, btVars
  <2>1. CASE DropStale(c)
    BY <2>1 DEF DropStale, AtStep, NoClaim, NoOwner
  <2>2. CASE ReadOwner(c)
    BY <2>2 DEF ReadOwner, AtStep, Verdict
  <2>3. CASE RemoveOwn(c)
    BY <2>3 DEF RemoveOwn, AtStep, NoClaim, NoOwner
  <2>. QED BY <2>1, <2>2, <2>3 DEF OwnerStep
<1>2. CASE UNCHANGED vars
  BY <1>2 DEF TypeInv, TypeOK, PcOK, OwnerTypeOK, ClaimType, CmdType, ClaimInv, vars
<1>. QED BY <1>1, <1>2, ClaimInvRequest, ClaimInvSupervise, ClaimInvBluetooth DEF Next,
    Environment

(* A record that names Bluetooth is backed by a tap loop that will release it, however
   many clients drop stale records, as long as the Bluetooth script was never rerun. *)
THEOREM ClaimHeld == Spec => []BluetoothClaimIsHeld
<1>. DEFINE IInv == TypeInv /\ ClaimInv
<1>1. Init => IInv
  BY InitType, RequestFacts DEF Init, ClaimInv, OwnerInit, NoClaim, NoOwner
<1>2. IInv /\ [Next]_vars => IInv'
  BY NextType, ClaimInvNext
<1>3. IInv => BluetoothClaimIsHeld
  BY DEF ClaimInv, BluetoothClaimIsHeld
<1>. QED BY <1>1, <1>2, <1>3, PTL DEF Spec

-------------------------------------------------------------------------------
(* A supervisor that is alive while a stop has listed and not yet killed is the listed one. *)
LEMMA ListedIsAlive ==
  ASSUME TypeInv, PidFileInv, "pidfile" \notin overlaps, NEW r \in Requests,
         pc[r] \in {"stop", "kill"}, NEW p \in live
  PROVE  pidFile = p
BY RequestFacts DEF TypeInv, TypeOK, PidFileInv, PidOverlap, InPidSection

(* While a stop or a play works on the pid file, no other one has listed. *)
LEMMA AloneInSection ==
  ASSUME TypeInv, PidFileInv, "pidfile" \notin overlaps, NEW r \in Requests, InPidSection(r),
         NEW q \in Requests, q # r
  PROVE  pc[q] # "kill"
BY RequestFacts DEF TypeInv, TypeOK, PidFileInv, PidOverlap, InPidSection

LEMMA StopInvRequest ==
  ASSUME TypeInv, PidFileInv, StopInv, NEW r \in Requests, Begins(r) \/ Continues(r)
  PROVE  StopInv'
<1>. USE RequestFacts DEF TypeInv, TypeOK, PcOK, StopInv
<1>1. CASE KillTree(r)
  BY <1>1 DEF KillTree, Goto, KillSupervisor, KillShells, fileVars, btVars
<1>5. CASE ListTree(r)
  BY <1>5, ListedIsAlive, AloneInSection DEF ListTree, Goto, InPidSection, playerVars, fileVars,
      btVars
<1>6. CASE RemoveFiles(r) \/ WritePid(r)
  BY <1>6, AloneInSection DEF RemoveFiles, WritePid, Goto, InPidSection, playerVars, btVars
<1>2. CASE StopNames(r)
  BY <1>2, StoppedIsSilent DEF StopNames, Goto, KillPipelines, TapLosesPipeline,
      fileVars
<1>3. CASE Spawn(r)
  BY <1>3, StoppedIsSilent DEF Spawn, Goto, fileVars, btVars
<1>4. CASE StartPlay(r) \/ PlayAdmitted(r) \/ PlayRefused(r) \/ Resolve(r) \/
    StartStop(r) \/ Released(r) \/ StopReleasesAgain(r) \/
    StopDone(r) \/ ClaimPlaying(r) \/ Verify(r) \/ StartSqueezelite(r)
    \/ SqueezeliteAdmitted(r) \/ SqueezeliteRefused(r) \/ LaunchSqueezelite(r) \/
    StartViewer(r) \/ ViewerDone(r)
  BY <1>4, StoppedIsSilent DEF StartPlay, PlayAdmitted, PlayRefused, Resolve,
      StartStop, Released, StopReleasesAgain, StopDone,
      ClaimPlaying, Verify, StartSqueezelite, SqueezeliteAdmitted, SqueezeliteRefused,
      LaunchSqueezelite, StartViewer, ViewerDone, Goto, playerVars, fileVars, btVars,
      NoteOverlap, WriteClaim
<1>. QED BY <1>1, <1>2, <1>3, <1>4, <1>5, <1>6 DEF Begins, Continues

LEMMA StopInvSupervise ==
  ASSUME TypeInv, PidFileInv, StopInv, NEW p \in Plays, Supervise(p) \/ PlayerExits(p)
  PROVE  StopInv'
<1>. USE RequestFacts DEF TypeInv, TypeOK, PcOK, StopInv
<1>1. CASE ForkPlayer(p)
  <2>1. connects = 0 /\ {"pidfile", "fork"} \cap overlaps' = {} =>
          {"pidfile", "fork"} \cap overlaps = {} /\ \A r \in Requests : listed[r].sup # p
    BY <1>1 DEF ForkPlayer
  <2>2. ASSUME connects = 0, {"pidfile", "fork"} \cap overlaps' = {}, NEW r \in Requests
        PROVE  pc[r] # "kill"
    <3>1. p \in live /\ "pidfile" \notin overlaps
      BY <1>1, <2>1, <2>2 DEF ForkPlayer
    <3>2. pc[r] = "kill" => pidFile = p
      BY <3>1, ListedIsAlive
    <3>. QED BY <2>1, <2>2, <3>2
  <2>. QED BY <1>1, <2>1, <2>2, StoppedIsSilent DEF ForkPlayer, runVars, fileVars, btVars
<1>2. CASE OpenDevice(p)
  BY <1>2, StoppedIsSilent DEF OpenDevice, runVars, fileVars, btVars
<1>3. CASE PlayerExits(p)
  BY <1>3, StoppedIsSilent DEF PlayerExits, runVars, fileVars, btVars
<1>4. CASE WritePlayer(p) \/ PlayerGone(p) \/ RestartPlayer(p)
  BY <1>4, StoppedIsSilent DEF WritePlayer, PlayerGone, RestartPlayer, runVars, btVars,
      fileVars
<1>. QED BY <1>1, <1>2, <1>3, <1>4 DEF Supervise

LEMMA StopInvBluetooth ==
  ASSUME TypeInv, PidFileInv, StopInv, TapStep \/ ScriptStep \/ ScriptTerminates \/
      PhoneStreams \/ PhoneLeaves
  PROVE  StopInv'
<1>. USE RequestFacts DEF TypeInv, TypeOK, PcOK, StopInv
<1>1. CASE TapFinds
  BY <1>1, StoppedIsSilent DEF TapFinds, TapAt, runVars, playerVars, fileVars
<1>2. CASE TapStopsSupervisor
  BY <1>2, StoppedIsSilent DEF TapStopsSupervisor, KillSupervisor, TapAt, runVars,
      playerVars, fileVars
<1>3. CASE ScriptStarts
  BY <1>3, StoppedIsSilent DEF ScriptStarts, runVars, playerVars, fileVars
<1>4. CASE PhoneStreams
  BY <1>4, StoppedIsSilent DEF PhoneStreams, runVars, playerVars, fileVars
<1>5. CASE TapFindsNothing \/ TapReleased \/ TapCodec \/ TapRemovesPid \/
    TapStopsPlayer \/ TapRemovesPlayer \/ TapStopsNames \/ TapClaims \/ TapOpens \/
    TapStreamEnds \/ TapRetries \/ ScriptTerminates \/ TapTraps \/ TapTrapsExit \/
    ScriptKills \/ ScriptKillsNames \/ PhoneLeaves
  BY <1>5, StoppedIsSilent DEF TapFindsNothing, TapReleased, TapCodec, TapRemovesPid,
      TapStopsPlayer, TapRemovesPlayer, TapStopsNames, TapClaims, TapOpens,
      TapStreamEnds, TapRetries, ScriptTerminates, TapTraps, TapTrapsExit, ScriptKills,
      ScriptKillsNames, PhoneLeaves, TapAt, runVars, playerVars, fileVars, NoteOverlap,
      KillShells, KillPipelines, WriteClaim
<1>. QED BY <1>1, <1>2, <1>3, <1>4, <1>5 DEF TapStep, ScriptStep

LEMMA StopInvNext ==
  ASSUME TypeInv, PidFileInv, StopInv, [Next]_vars
  PROVE  StopInv'
<1>1. ASSUME NEW c \in Clients, OwnerCommand(c)
      PROVE  StopInv'
  BY <1>1 DEF OwnerCommand, TypeInv, TypeOK, PcOK, StopInv, runVars, playerVars,
      fileVars, btVars
<1>2. CASE UNCHANGED vars
  BY <1>2 DEF TypeInv, TypeOK, PcOK, StopInv, vars
<1>. QED BY <1>1, <1>2, StopInvRequest, StopInvSupervise, StopInvBluetooth DEF Next,
    Environment

(* After nq-somafm-play --stop has killed, no supervisor and no player of SomaFM is left,
   for every number of plays that did not overlap it, unless a phone streamed or a supervisor
   forked a player between the stop's list and its kill. *)
THEOREM StopSilencesHolds == Spec => []StopSilences
<1>. DEFINE IInv == TypeInv /\ PidFileInv /\ StopInv
<1>1. Init => IInv
  BY InitType, RequestFacts DEF Init, PidFileInv, PidOverlap, InPidSection, TapInPidSection, StopInv
<1>2. IInv /\ [Next]_vars => IInv'
  BY NextType, PidFileInvNext, StopInvNext
<1>3. IInv => StopSilences
  BY StoppedIsSilent, RequestFacts DEF PidFileInv, StopInv, StopSilences
<1>. QED BY <1>1, <1>2, <1>3, PTL DEF Spec
===============================================================================
