------------------------------ MODULE NfcJukebox ------------------------------
(***************************************************************************)
(* The NFC jukebox of the appliance: nq-nfc-jukebox watches the reader and *)
(* plays the station of a card, nq-start-nfc-jukebox starts or restarts it *)
(* and then the default station, and nq-nfc-map registers a card, for      *)
(* which it stops the jukebox and starts it again.  They know each other   *)
(* by /run/nq-nfc-jukebox.pid alone.  A loop of the jukebox leads a        *)
(* process group of its own; a SomaFM player it starts stays in that       *)
(* group.  nq-somafm-play is one step here (AudioArbitration has its       *)
(* steps); Bluetooth is another owner that comes and goes.                 *)
(***************************************************************************)
EXTENDS Naturals, FiniteSets

CONSTANTS
  Uids, NoUid,          \* cards, and the empty answer of a scan
  Stations, NoStation,  \* SomaFM stations, and no line in the map or no player
  DefaultStation,       \* NQ_SOMAFM_DEFAULT_STATION
  Starters, Mappers,    \* runs of nq-start-nfc-jukebox, runs of nq-nfc-map
  MaxLoops,             \* bound on the jukebox loops ever started
  Retries,              \* NQ_SOMAFM_AUTOSTART_RETRIES
  MaxPhone              \* bound on how often Bluetooth takes the amplifier

ASSUME NfcAssumption ==
  /\ NoUid \notin Uids /\ NoStation \notin Stations /\ DefaultStation \in Stations
  /\ MaxLoops \in Nat \ {0} /\ Retries \in Nat \ {0} /\ MaxPhone \in Nat
  /\ Starters \cap Mappers = {} /\ IsFiniteSet(Starters) /\ IsFiniteSet(Mappers)

Procs == Starters \cup Mappers
Loops == 1..MaxLoops
Group == 0   \* a process group other than that of a loop; also the empty pid file

VARIABLES
  tagMap,      \* /etc/nexusq/somafm-tags.conf: the station of each card
  card,        \* the card on the reader
  phone,       \* [busy: Bluetooth owns the amplifier, left: how often it may still come]
  player,      \* the SomaFM player: its station and its process group
  jukebox,     \* the loops: alive, where, the card and station at hand, last_uid within the cooldown
  jukePid,     \* /run/nq-nfc-jukebox.pid
  starter,     \* nq-start-nfc-jukebox: where, whether to restart, the loop it has spawned
  autostart,   \* its start_default_station in the background: where, attempts left
  mapper,      \* nq-nfc-map
  mixed,       \* history: starts and stops of the jukebox have overlapped
  cut          \* history: what signals have ended for good, see Unstarted and Unnamed

history == <<mixed, cut>>
nfcVars == <<tagMap, card, phone, player, jukebox, jukePid, starter, autostart, mapper, history>>
world == <<card, phone>>

Silence == [station |-> NoStation, group |-> Group]
Unborn == [alive |-> FALSE, at |-> "none", uid |-> NoUid, station |-> NoStation, recent |-> NoUid]
Fresh == [Unborn EXCEPT !.alive = TRUE, !.at = "scan"]
NoStart == [at |-> "idle", restart |-> FALSE, loop |-> Group]
NoMap == [at |-> "idle", opt |-> "auto", uid |-> NoUid, station |-> NoStation, was |-> FALSE,
          onExit |-> "off", draft |-> [u \in Uids |-> NoStation]]

NfcInit ==
  /\ tagMap = [u \in Uids |-> NoStation]
  /\ card = NoUid /\ phone = [busy |-> FALSE, left |-> MaxPhone]
  /\ player = Silence
  /\ jukebox = [l \in Loops |-> Unborn] /\ jukePid = Group
  /\ starter = [p \in Procs |-> NoStart]
  /\ autostart = [p \in Procs |-> [at |-> "off", left |-> 0]]
  /\ mapper = [m \in Mappers |-> NoMap]
  /\ mixed = FALSE /\ cut = {}
-------------------------------------------------------------------------------
(* The world: cards and Bluetooth. *)

PutCard(u) ==
  /\ card # u /\ card' = u
  /\ UNCHANGED <<tagMap, phone, player, jukebox, jukePid, starter, autostart, mapper, history>>

(* Bluetooth takes the amplifier and stops the local player, or leaves. *)
PhoneTakes ==
  /\ ~phone.busy /\ phone.left > 0
  /\ phone' = [busy |-> TRUE, left |-> phone.left - 1]
  /\ player' = Silence
  /\ UNCHANGED <<tagMap, card, jukebox, jukePid, starter, autostart, mapper, history>>

PhoneEnds ==
  /\ phone.busy /\ phone' = [phone EXCEPT !.busy = FALSE]
  /\ UNCHANGED <<tagMap, card, player, jukebox, jukePid, starter, autostart, mapper, history>>

(* What nq-somafm-play leaves: exit 75 for a busy owner and 1 for a station that does not
   resolve change nothing. *)
Played(station, group) == [station |-> station, group |-> group]
PlayFails == UNCHANGED player
PlayWorks(station, group) == ~phone.busy /\ player' = Played(station, group)
-------------------------------------------------------------------------------
(* nq-nfc-scan. *)

(* The kernel reader when its modules load, else the fallback: the card that lies there, or
   nothing (no device, a time-out, an output without a UID). *)
Scan(uid) == uid \in {card, NoUid}
-------------------------------------------------------------------------------
(* nq-nfc-jukebox, one scan per turn (NQ_NFC_SCAN_LOOP=0). *)

At(l, where) == jukebox[l].alive /\ jukebox[l].at = where
Only(l, loop) == jukebox' = [jukebox EXCEPT ![l] = loop]
othersOfJukebox == <<tagMap, card, phone, jukePid, starter, autostart, mapper, history>>

(* An empty scan forgets the last card. *)
ScanEmpty(l) ==
  /\ At(l, "scan") /\ Scan(NoUid)
  /\ Only(l, [jukebox[l] EXCEPT !.recent = NoUid])
  /\ UNCHANGED <<othersOfJukebox, player>>

Handled(l, uid) == [jukebox[l] EXCEPT !.recent = uid]
Chosen(l, uid) == [jukebox[l] EXCEPT !.at = "ack", !.uid = uid, !.station = tagMap[uid]]

(* handle_uid up to the cues: a repeat within the cooldown, an unknown card and a card
   under another owner are passed over. *)
HandleUid(l, uid) ==
  IF jukebox[l].recent = uid THEN jukebox[l]
  ELSE IF tagMap[uid] = NoStation \/ phone.busy THEN Handled(l, uid) ELSE Chosen(l, uid)

ScanFinds(l) ==
  /\ At(l, "scan")
  /\ \E uid \in Uids : Scan(uid) /\ Only(l, HandleUid(l, uid))
  /\ UNCHANGED <<othersOfJukebox, player>>

(* nq-nfc-ack: the chime goes into a pipeline that runs; without one, what is left of the
   player is stopped. *)
Ack(l) ==
  /\ At(l, "ack")
  /\ Only(l, [jukebox[l] EXCEPT !.at = "play"])
  /\ player' \in {player, Silence}
  /\ UNCHANGED othersOfJukebox

(* The play, whatever its outcome. The cooldown counts from before it, and may be over. *)
AfterPlay(l) ==
  \E recent \in {jukebox[l].uid, NoUid} : Only(l, [Fresh EXCEPT !.recent = recent])

TagPlaySucceeds(l) ==
  /\ At(l, "play") /\ jukebox[l].station # NoStation
  /\ PlayWorks(jukebox[l].station, l) /\ AfterPlay(l)
  /\ UNCHANGED othersOfJukebox

TagPlayFails(l) ==
  /\ At(l, "play") /\ jukebox[l].station # NoStation
  /\ PlayFails /\ AfterPlay(l)
  /\ UNCHANGED othersOfJukebox

(* Mutant of CooldownEnds: the clock stands still. *)
CooldownStays(l) ==
  /\ jukebox[l].alive /\ jukebox[l].recent # NoUid
  /\ UNCHANGED nfcVars

(* NQ_NFC_COOLDOWN_SECONDS pass. *)
CooldownEnds(l) ==
  /\ jukebox[l].alive /\ jukebox[l].recent # NoUid
  /\ Only(l, [jukebox[l] EXCEPT !.recent = NoUid])
  /\ UNCHANGED <<othersOfJukebox, player>>
-------------------------------------------------------------------------------
(* nq-start-nfc-jukebox. *)

Running == jukePid # Group /\ jukebox[jukePid].alive
Active(p) == starter[p].at \notin {"idle", "done"}
StartGoto(p, where) == starter' = [starter EXCEPT ![p].at = where]
othersOfStarter == <<world, tagMap, mapper>>

(* Mutant of KillJukebox: the player of a tag is stopped, and the loop goes on. *)
KillPlayerOnly ==
  /\ jukebox' = jukebox
  /\ player' = IF Running /\ player.group = jukePid THEN Silence ELSE player

(* kill of the group of the loop in the pid file, and of a player started by a tag. *)
KillJukebox ==
  /\ jukebox' = IF Running THEN [jukebox EXCEPT ![jukePid] = Unborn] ELSE jukebox
  /\ player' = IF Running /\ player.group = jukePid THEN Silence ELSE player

BusyStarts == {p \in Procs : Active(p)}
(* A pid is given again only when no loop has it and no file or start names it. *)
Taken == {l \in Loops : jukebox[l].alive} \cup {jukePid} \cup {starter[p].loop : p \in BusyStarts}
SpareLoop == MaxLoops > Cardinality(BusyStarts) + Cardinality(Taken \ {Group})

(* A start runs while another one does, or while nq-nfc-map is stopping the jukebox: also the
   start of its own trap, which the rest of the stop then undoes. *)
MixesStarts(p) == 
  BusyStarts \ {p} # {} \/ \E m \in Mappers : mapper[m].at \in {"stop", "rm"}

BeginStart(p, restart) ==
  /\ SpareLoop
  /\ starter' = [starter EXCEPT ![p] = [NoStart EXCEPT !.at = "test", !.restart = restart]]
  /\ mixed' = (mixed \/ MixesStarts(p)) /\ UNCHANGED cut

StartBegins(p) ==
  /\ starter[p].at = "idle" /\ \E restart \in BOOLEAN : BeginStart(p, restart)
  /\ UNCHANGED <<othersOfStarter, player, jukebox, jukePid, autostart>>

TestPid(p) ==
  /\ starter[p].at = "test" /\ ~starter[p].restart
  /\ StartGoto(p, IF Running THEN "done" ELSE "spawn")
  /\ UNCHANGED <<othersOfStarter, player, jukebox, jukePid, autostart, history>>

(* stop_old: the kill, a second of sleep, and the rm. *)
StopOld(p) ==
  /\ starter[p].at = "test" /\ starter[p].restart
  /\ KillJukebox
  /\ StartGoto(p, IF jukePid = Group THEN "spawn" ELSE "rm")
  /\ UNCHANGED <<othersOfStarter, jukePid, autostart, history>>

StopOldRm(p) ==
  /\ starter[p].at = "rm"
  /\ jukePid' = Group
  /\ StartGoto(p, "spawn")
  /\ UNCHANGED <<othersOfStarter, player, jukebox, autostart, history>>

Spawn(p) ==
  /\ starter[p].at = "spawn"
  /\ LET l == CHOOSE n \in Loops \ Taken : \A k \in Loops \ Taken : n <= k
     IN  /\ Only(l, Fresh)
         /\ starter' = [starter EXCEPT ![p].at = "write", ![p].loop = l]
  /\ UNCHANGED <<othersOfStarter, player, jukePid, autostart, history>>

WriteJukePid(p) ==
  /\ starter[p].at = "write"
  /\ jukePid' = starter[p].loop
  /\ StartGoto(p, "verify")
  /\ UNCHANGED <<othersOfStarter, player, jukebox, autostart, history>>

(* The loop runs: start_default_station looks once, and again before every attempt. *)
StartDone(p) ==
  /\ starter[p].at = "verify"
  /\ starter' = [starter EXCEPT ![p].at = "done", ![p].restart = FALSE]
  /\ autostart' = IF Running /\ player.station = NoStation /\ ~phone.busy
                  THEN [autostart EXCEPT ![p] = [at |-> "look", left |-> Retries]] ELSE autostart
  /\ UNCHANGED <<othersOfStarter, player, jukebox, jukePid, history>>

(* INT or TERM: only HUP is ignored, and a ^C reaches the start nq-nfc-map waits for. The loop
   has a session of its own and goes on, whether the file names it by then or not. *)
Unstarted == "unstarted"   \* a start before its spawn, or a registration before its start
Unnamed == "unnamed"       \* a start between its spawn and the pid file

Loss(at) ==
  IF at \in {"test", "rm", "spawn"} THEN {Unstarted} ELSE IF at = "write" THEN {Unnamed} ELSE {}

StartCut(p) ==
  /\ Active(p)
  /\ starter' = [starter EXCEPT ![p].at = "done", ![p].restart = FALSE]
  /\ cut' = cut \cup Loss(starter[p].at)
  /\ UNCHANGED <<othersOfStarter, player, jukebox, jukePid, autostart, mixed>>

AutoGoto(p, where) == autostart' = [autostart EXCEPT ![p].at = where]
othersOfAuto == <<world, tagMap, jukebox, jukePid, starter, mapper, history>>

(* Mutant of AutoLook: the attempts are not counted. *)
AutoLooksOnly(p) ==
  /\ autostart[p].at = "look"
  /\ AutoGoto(p, IF player.station # NoStation \/ phone.busy THEN "off" ELSE "play")
  /\ UNCHANGED <<othersOfAuto, player>>

AutoLook(p) ==
  /\ autostart[p].at = "look"
  /\ AutoGoto(p, IF player.station # NoStation \/ phone.busy \/ autostart[p].left = 0
                 THEN "off" ELSE "play")
  /\ UNCHANGED <<othersOfAuto, player>>

AutoPlays(p) ==
  /\ autostart[p].at = "play"
  /\ PlayWorks(DefaultStation, Group) /\ AutoGoto(p, "off")
  /\ UNCHANGED othersOfAuto

AutoFails(p) ==
  /\ autostart[p].at = "play"
  /\ PlayFails
  /\ autostart' = [autostart EXCEPT ![p] = [at |-> "look", left |-> @.left - 1]]
  /\ UNCHANGED othersOfAuto
-------------------------------------------------------------------------------
(* nq-nfc-map: with a card to scan, or with --uid. A run that has started the jukebox
   waits for nq-start-nfc-jukebox to return. onExit: no trap ("off"), the trap with
   restart_on_exit=1 ("armed"), the trap with restart_on_exit=0 ("spent"). *)

Maps(m, where) == mapper[m].at = where /\ ~Active(m)
MapGoto(m, where) == mapper' = [mapper EXCEPT ![m].at = where]
Past(m, at, onExit) ==   \* what is left of a run that needs its card and station no more
  [NoMap EXCEPT !.at = at, !.opt = mapper[m].opt, !.was = mapper[m].was, !.onExit = onExit]
Ended(m) == Past(m, "done", "off")
othersOfMap == <<card, phone, autostart>>

MapBegins(m) ==
  /\ mapper[m].at = "idle" /\ SpareLoop
  /\ \E opt \in {"auto", "0", "1"}, uid \in Uids \cup {NoUid}, station \in Stations \ {DefaultStation} :
       mapper' = [mapper EXCEPT ![m].at = "validate", ![m].opt = opt, ![m].uid = uid,
                                ![m].station = station]
  /\ UNCHANGED <<othersOfMap, tagMap, player, jukebox, jukePid, starter, history>>

(* The station must resolve, or the run dies before it has touched anything. *)
Validate(m) ==
  /\ Maps(m, "validate")
  /\ \E next \in {IF mapper[m].uid = NoUid THEN "look" ELSE "rewrite", "done"} : MapGoto(m, next)
  /\ UNCHANGED <<othersOfMap, tagMap, player, jukebox, jukePid, starter, history>>

(* Mutant of LookAtJukebox: the trap is never set. *)
LookWithoutTrap(m) ==
  /\ Maps(m, "look")
  /\ mapper' = [mapper EXCEPT ![m].at = "stop", ![m].was = Running]
  /\ UNCHANGED <<othersOfMap, tagMap, player, jukebox, jukePid, starter, history>>

(* A jukebox that runs is to be started again on every way out. *)
LookAtJukebox(m) ==
  /\ Maps(m, "look")
  /\ mapper' = [mapper EXCEPT ![m].at = "stop", ![m].was = Running,
                              ![m].onExit = IF Running /\ mapper[m].opt # "0" THEN "armed" ELSE "off"]
  /\ UNCHANGED <<othersOfMap, tagMap, player, jukebox, jukePid, starter, history>>

(* stop_jukebox: the kill, a second of sleep, and the rm. *)
StopJukebox(m) ==
  /\ Maps(m, "stop")
  /\ KillJukebox
  /\ MapGoto(m, IF Running THEN "rm" ELSE "scan")
  /\ mixed' = (mixed \/ BusyStarts # {}) /\ UNCHANGED cut
  /\ UNCHANGED <<othersOfMap, tagMap, jukePid, starter>>

StopJukeboxRm(m) ==
  /\ Maps(m, "rm")
  /\ jukePid' = Group
  /\ MapGoto(m, "scan")
  /\ UNCHANGED <<othersOfMap, tagMap, player, jukebox, starter, history>>

MapScans(m) ==
  /\ Maps(m, "scan")
  /\ \E uid \in Uids \cup {NoUid} :
       /\ Scan(uid)
       /\ mapper' = [mapper EXCEPT ![m].uid = uid,
                                   ![m].at = IF uid = NoUid THEN "exit" ELSE "rewrite"]
  /\ UNCHANGED <<othersOfMap, tagMap, player, jukebox, jukePid, starter, history>>

(* The lines of other cards are kept, and the card's own line is appended. *)
Rewrite(m) == [tagMap EXCEPT ![mapper[m].uid] = mapper[m].station]

(* awk reads the map into a file of its own; any step of it may fail. *)
RewriteMap(m) ==
  /\ Maps(m, "rewrite")
  /\ \/ mapper' = [mapper EXCEPT ![m].at = "install", ![m].draft = Rewrite(m)]
     \/ MapGoto(m, "exit")
  /\ UNCHANGED <<othersOfMap, tagMap, player, jukebox, jukePid, starter, history>>

InstallMap(m) ==
  /\ Maps(m, "install")
  /\ \/ tagMap' = mapper[m].draft /\ mapper' = [mapper EXCEPT ![m] = Past(m, "restart", mapper[m].onExit)]
     \/ UNCHANGED tagMap /\ MapGoto(m, "exit")
  /\ UNCHANGED <<othersOfMap, player, jukebox, jukePid, starter, history>>

(* The traps are taken back, and then the jukebox is started. *)
TakeTrapsBack(m) ==
  /\ Maps(m, "restart")
  /\ LET start == mapper[m].opt = "1" \/ (mapper[m].opt = "auto" /\ mapper[m].was)
     IN  mapper' = [mapper EXCEPT ![m] = IF start THEN Past(m, "start", "off")
                                         ELSE Past(m, "exit", mapper[m].onExit)]
  /\ UNCHANGED <<othersOfMap, tagMap, player, jukebox, jukePid, starter, history>>

RestartJukebox(m) ==
  /\ Maps(m, "start")
  /\ mapper' = [mapper EXCEPT ![m] = Ended(m)] /\ BeginStart(m, TRUE)
  /\ UNCHANGED <<othersOfMap, tagMap, player, jukebox, jukePid>>

(* cleanup_jukebox on EXIT. *)
CleanUp(m) ==
  /\ Maps(m, "exit")
  /\ mapper' = [mapper EXCEPT ![m] = Ended(m)]
  /\ IF mapper[m].onExit = "armed" THEN BeginStart(m, TRUE) ELSE UNCHANGED <<starter, history>>
  /\ UNCHANGED <<othersOfMap, tagMap, player, jukebox, jukePid>>

(* INT or TERM while the trap is set: when the command that runs is over, cleanup_jukebox runs,
   the first time with a start, and then the script goes on where it was. *)
Signal(m) ==
  /\ mapper[m].onExit = "armed" /\ ~Active(m)
  /\ mapper' = [mapper EXCEPT ![m].onExit = "spent"] /\ BeginStart(m, TRUE)
  /\ UNCHANGED <<othersOfMap, tagMap, player, jukebox, jukePid>>

(* INT or TERM without the trap, HUP and KILL always: the script ends, and no trap runs. A
   start it waits for goes on. *)
Killed(m) ==
  /\ mapper[m].at \notin {"idle", "done"}
  /\ mapper' = [mapper EXCEPT ![m] = Ended(m)]
  /\ cut' = IF mapper[m].was /\ ~Active(m) THEN cut \cup {Unstarted} ELSE cut
  /\ UNCHANGED <<othersOfMap, tagMap, player, jukebox, jukePid, starter, mixed>>
-------------------------------------------------------------------------------
JukeboxStep(l) ==
  ScanEmpty(l) \/ ScanFinds(l) \/ Ack(l) \/ TagPlaySucceeds(l) \/ TagPlayFails(l) \/ CooldownEnds(l)

StarterStep(p) ==
  \/ TestPid(p) \/ StopOld(p) \/ StopOldRm(p) \/ Spawn(p) \/ WriteJukePid(p) \/ StartDone(p) \/ StartCut(p)
  \/ AutoLook(p) \/ AutoPlays(p) \/ AutoFails(p)

MapperStep(m) ==
  \/ MapBegins(m) \/ Validate(m) \/ LookAtJukebox(m) \/ StopJukebox(m) \/ StopJukeboxRm(m)
  \/ MapScans(m) \/ RewriteMap(m) \/ InstallMap(m) \/ TakeTrapsBack(m) \/ RestartJukebox(m) \/ CleanUp(m)
  \/ Signal(m) \/ Killed(m)

NfcNext ==
  \/ \E u \in Uids \cup {NoUid} : PutCard(u)
  \/ PhoneTakes \/ PhoneEnds
  \/ \E l \in Loops : JukeboxStep(l)
  \/ \E p \in Starters : StartBegins(p)
  \/ \E p \in Procs : StarterStep(p)
  \/ \E m \in Mappers : MapperStep(m)

(* The loop of a jukebox goes on, time passes, and a play that is tried again and again works
   in the end. *)
NfcFairness ==
  \A l \in Loops :
    /\ WF_nfcVars(ScanFinds(l)) /\ WF_nfcVars(Ack(l)) /\ WF_nfcVars(CooldownEnds(l))
    /\ WF_nfcVars(TagPlaySucceeds(l) \/ TagPlayFails(l)) /\ SF_nfcVars(TagPlaySucceeds(l))

NfcSpec == NfcInit /\ [][NfcNext]_nfcVars /\ NfcFairness
-------------------------------------------------------------------------------
NfcTypeOK ==
  /\ tagMap \in [Uids -> Stations \cup {NoStation}]
  /\ card \in Uids \cup {NoUid}
  /\ phone \in [busy : BOOLEAN, left : 0..MaxPhone]
  /\ player \in [station : Stations \cup {NoStation}, group : Loops \cup {Group}]
  /\ jukebox \in [Loops -> [alive : BOOLEAN, at : {"none", "scan", "ack", "play"},
                            uid : Uids \cup {NoUid}, station : Stations \cup {NoStation},
                            recent : Uids \cup {NoUid}]]
  /\ jukePid \in Loops \cup {Group}
  /\ starter \in [Procs -> [at : {"idle", "test", "rm", "spawn", "write", "verify", "done"},
                            restart : BOOLEAN, loop : Loops \cup {Group}]]
  /\ autostart \in [Procs -> [at : {"off", "look", "play"}, left : 0..Retries]]
  /\ mapper \in [Mappers -> [at : {"idle", "validate", "look", "stop", "rm", "scan", "rewrite",
                                   "install", "restart", "start", "exit", "done"},
                             opt : {"auto", "0", "1"}, uid : Uids \cup {NoUid},
                             station : Stations \cup {NoStation}, was : BOOLEAN,
                             onExit : {"off", "armed", "spent"}, draft : [Uids -> Stations \cup {NoStation}]]]
  /\ mixed \in BOOLEAN /\ cut \subseteq {Unstarted, Unnamed}

AliveLoops == {l \in Loops : jukebox[l].alive}

(* One jukebox watches the reader, as long as no start ran beside another one or beside
   the stop of nq-nfc-map, and no signal ended a start that had not yet written the pid of
   its loop: the pid file is tested, the loop started and the file written in three steps,
   by a boot, a user and a registration. *)
OneJukebox == ~mixed /\ Unnamed \notin cut => Cardinality(AliveLoops) <= 1

(* nq-nfc-map has stopped a jukebox that ran: when it is over, after an error, a missed card
   or a signal that its trap catches, the jukebox is running again, or being started. Not when
   a signal has ended the start itself, or the run where it had no trap for it: HUP, and INT
   and TERM from the moment the traps are taken back to the start. *)
JukeboxRestored ==
  \A m \in Mappers :
    mapper[m].at = "done" /\ mapper[m].was /\ mapper[m].opt # "0" /\ ~mixed /\ cut = {}
      => AliveLoops # {} \/ BusyStarts # {}

(* Nothing disturbs the jukebox, and a registered card stays on the reader. *)
CardWaits ==
  /\ \E u \in Uids : u = card /\ tagMap[u] # NoStation
  /\ ~phone.busy /\ Running /\ BusyStarts = {} /\ \A m \in Mappers : mapper[m].at \in {"idle", "done"}

(* The station of a card that stays on the reader is played: after a tap that Bluetooth
   refused, a play that failed, a scan that found nothing, a restart of the jukebox. *)
CardIsPlayed == <>[]CardWaits => []<>(\E u \in Uids : u = card /\ player.station = tagMap[u])
===============================================================================
