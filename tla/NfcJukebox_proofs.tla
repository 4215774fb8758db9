-------------------------- MODULE NfcJukebox_proofs --------------------------
(***************************************************************************)
(* Proofs about NfcJukebox for every set of cards, stations, starts and    *)
(* registrations, and every number of loops and retries.                   *)
(***************************************************************************)
EXTENDS NfcJukebox, FiniteSetTheorems, WellFoundedInduction, TLAPS

LoopFields == {"alive", "at", "uid", "station", "recent"}
StartFields == {"at", "restart", "loop"}
MapFields == {"at", "opt", "uid", "station", "was", "onExit", "draft"}

Records ==
  /\ DOMAIN jukebox = Loops /\ \A l \in Loops : DOMAIN jukebox[l] = LoopFields
  /\ DOMAIN starter = Procs /\ \A p \in Procs : DOMAIN starter[p] = StartFields
  /\ DOMAIN mapper = Mappers /\ \A m \in Mappers : DOMAIN mapper[m] = MapFields

(* One start at a time, and none beside the stop of a registration; no loop runs from the kill
   of the old one to the spawn of the next; until its pid is in the file only the start that
   has spawned it knows the loop. *)
Alone ==
  /\ \A p, q \in Procs : Active(p) /\ Active(q) => p = q
  /\ \A m \in Mappers : mapper[m].at = "rm" => AliveLoops = {} /\ \A p \in Procs : ~Active(p)
  /\ \A p \in Procs : starter[p].at \in {"rm", "spawn"} => AliveLoops = {}
  /\ \A p \in Procs : starter[p].at = "write" => AliveLoops \subseteq {starter[p].loop}
  /\ (\A p \in Procs : starter[p].at # "write") => AliveLoops \subseteq {jukePid}

(* No start has run beside another one or beside a stop, and none has left a loop unnamed. *)
Orderly == ~mixed /\ Unnamed \notin cut

JukeInv == Records /\ (Orderly => Alone)
-------------------------------------------------------------------------------
LEMMA InitJuke == NfcInit => JukeInv
<1>. SUFFICES ASSUME NfcInit PROVE JukeInv
  OBVIOUS
<1>1. Records
  BY DEF NfcInit, Records, Unborn, NoStart, NoMap, LoopFields, StartFields, MapFields
<1>2. AliveLoops = {}
  BY DEF NfcInit, AliveLoops, Unborn
<1>3. /\ \A p \in Procs : starter[p].at = "idle"
      /\ \A m \in Mappers : mapper[m].at = "idle"
  BY DEF NfcInit, NoStart, NoMap
<1>. QED BY <1>1, <1>2, <1>3 DEF JukeInv, Alone, Active

(* What a loop does neither ends it nor starts another one. *)
LEMMA LoopGoesOn ==
  ASSUME Records, NEW l \in Loops, jukebox[l].alive, NEW loop, DOMAIN loop = LoopFields, loop.alive,
         Only(l, loop)
  PROVE  /\ DOMAIN jukebox' = Loops /\ \A k \in Loops : DOMAIN jukebox'[k] = LoopFields
         /\ AliveLoops' = AliveLoops
<1>1. DOMAIN jukebox' = Loops /\ \A k \in Loops : jukebox'[k] = IF k = l THEN loop ELSE jukebox[k]
  BY DEF Only, Records
<1>. QED BY <1>1 DEF Records, AliveLoops

(* The kill by the pid file leaves no loop, when every loop is the one in the file. *)
LEMMA KillEmpties ==
  ASSUME Records, KillJukebox
  PROVE  /\ DOMAIN jukebox' = Loops /\ \A k \in Loops : DOMAIN jukebox'[k] = LoopFields
         /\ AliveLoops \subseteq {jukePid} => AliveLoops' = {}
<1>1. CASE Running
  <2>1. jukebox' = [jukebox EXCEPT ![jukePid] = Unborn]
    BY <1>1 DEF KillJukebox
  <2>2. DOMAIN Unborn = LoopFields /\ ~Unborn.alive
    BY DEF Unborn, LoopFields
  <2>3. DOMAIN jukebox' = Loops /\ \A k \in Loops : jukebox'[k] = IF k = jukePid THEN Unborn ELSE jukebox[k]
    BY <2>1 DEF Records
  <2>. QED BY <2>2, <2>3 DEF Records, AliveLoops
<1>2. CASE ~Running
  <2>1. jukebox' = jukebox
    BY <1>2 DEF KillJukebox
  <2>2. \A l \in Loops : l # Group
    BY NfcAssumption DEF Loops, Group
  <2>. QED BY <1>2, <2>1, <2>2 DEF Running, AliveLoops, Records
<1>. QED BY <1>1, <1>2

LEMMA NoLoop ==
  ASSUME ~Running, AliveLoops \subseteq {jukePid}
  PROVE  AliveLoops = {}
<1>1. \A l \in Loops : l # Group
  BY NfcAssumption DEF Loops, Group
<1>. QED BY <1>1 DEF Running, AliveLoops

(* The step of a start that is alone at work. *)
LEMMA StartMoves ==
  ASSUME JukeInv, NEW p \in Procs, Active(p), NEW rec, starter' = [starter EXCEPT ![p] = rec],
         DOMAIN rec = StartFields,
         DOMAIN jukebox' = Loops, \A k \in Loops : DOMAIN jukebox'[k] = LoopFields,
         UNCHANGED mapper, Orderly' => Orderly,
         Orderly' =>
           /\ rec.at \in {"rm", "spawn"} => AliveLoops' = {}
           /\ rec.at = "write" => AliveLoops' \subseteq {rec.loop}
           /\ rec.at # "write" => AliveLoops' \subseteq {jukePid'}
  PROVE  JukeInv'
<1>1. /\ DOMAIN starter' = Procs /\ starter'[p] = rec
      /\ \A q \in Procs \ {p} : starter'[q] = starter[q]
  BY DEF JukeInv, Records
<1>2. Records'
  BY <1>1 DEF JukeInv, Records
<1>3. ASSUME Orderly' PROVE Alone'
  <2>1. \A q \in Procs \ {p} : starter[q].at \in {"idle", "done"}
    BY <1>3 DEF JukeInv, Alone, Active
  <2>2. \A q \in Procs \ {p} : starter'[q].at \in {"idle", "done"}
    BY <1>1, <2>1
  <2>3. \A m \in Mappers : mapper'[m].at # "rm"
    BY <1>3 DEF JukeInv, Alone
  <2>. QED BY <1>1, <1>3, <2>2, <2>3 DEF Alone, Active
<1>. QED BY <1>2, <1>3 DEF JukeInv

(* A start that begins is alone, or `mixed' says otherwise. *)
LEMMA StartEnters ==
  ASSUME JukeInv, NEW p \in Procs, ~Active(p), NEW restart, BeginStart(p, restart),
         UNCHANGED <<jukebox, jukePid>>,
         DOMAIN mapper' = Mappers, \A m \in Mappers : DOMAIN mapper'[m] = MapFields,
         \A m \in Mappers : mapper'[m].at = "rm" => mapper[m].at = "rm"
  PROVE  JukeInv'
<1>. DEFINE rec == [NoStart EXCEPT !.at = "test", !.restart = restart]
<1>1. DOMAIN rec = StartFields /\ rec.at = "test"
  BY DEF NoStart, StartFields
<1>2. starter' = [starter EXCEPT ![p] = rec] /\ (Orderly' => Orderly /\ ~MixesStarts(p))
  BY DEF BeginStart, Orderly
<1>. HIDE DEF rec
<1>3. /\ DOMAIN starter' = Procs /\ starter'[p] = rec
      /\ \A q \in Procs \ {p} : starter'[q] = starter[q]
  BY <1>2 DEF JukeInv, Records
<1>4. Records'
  BY <1>1, <1>3 DEF JukeInv, Records
<1>5. ASSUME Orderly' PROVE Alone'
  <2>1. Orderly /\ BusyStarts \ {p} = {} /\ \A m \in Mappers : mapper[m].at # "rm"
    BY <1>2, <1>5 DEF MixesStarts
  <2>2. \A q \in Procs : ~Active(q)
    BY <2>1 DEF BusyStarts
  <2>3. \A q \in Procs : starter[q].at \in {"idle", "done"}
    BY <2>2 DEF Active
  <2>4. AliveLoops' = AliveLoops /\ AliveLoops \subseteq {jukePid}
    BY <2>1, <2>3 DEF JukeInv, Alone, AliveLoops
  <2>5. \A m \in Mappers : mapper'[m].at # "rm"
    BY <2>1
  <2>6. \A q \in Procs \ {p} : starter'[q].at \in {"idle", "done"}
    BY <1>3, <2>3
  <2>. QED BY <1>1, <1>3, <2>4, <2>5, <2>6 DEF Alone, Active
<1>. QED BY <1>4, <1>5 DEF JukeInv

(* A registration that neither stops nor starts a jukebox. *)
LEMMA MapMoves ==
  ASSUME JukeInv, UNCHANGED <<jukebox, jukePid, starter>>, Orderly' => Orderly,
         DOMAIN mapper' = Mappers, \A m \in Mappers : DOMAIN mapper'[m] = MapFields,
         \A m \in Mappers : mapper'[m].at = "rm" => mapper[m].at = "rm"
  PROVE  JukeInv'
<1>1. AliveLoops' = AliveLoops
  BY DEF AliveLoops
<1>2. Records'
  BY DEF JukeInv, Records
<1>3. ASSUME Orderly' PROVE Alone'
  BY <1>1, <1>3 DEF JukeInv, Alone, Active
<1>. QED BY <1>2, <1>3 DEF JukeInv

LEMMA JukeboxSteps == ASSUME JukeInv, NEW l \in Loops, JukeboxStep(l) PROVE JukeInv'
<1>1. /\ jukebox[l].alive /\ UNCHANGED <<jukePid, starter, mapper, history>>
      /\ \E loop : Only(l, loop) /\ DOMAIN loop = LoopFields /\ loop.alive
  <2>. USE DEF At, othersOfJukebox
  <2>0. DOMAIN jukebox[l] = LoopFields
    BY DEF JukeInv, Records
  <2>1. CASE ScanEmpty(l)
    BY <2>0, <2>1 DEF ScanEmpty, LoopFields
  <2>2. CASE ScanFinds(l)
    <3>1. PICK uid \in Uids : Only(l, HandleUid(l, uid))
      BY <2>2 DEF ScanFinds
    <3>2. jukebox[l].alive
      BY <2>2 DEF ScanFinds
    <3>3. DOMAIN HandleUid(l, uid) = LoopFields /\ HandleUid(l, uid).alive
      BY <2>0, <3>2 DEF HandleUid, Handled, Chosen, LoopFields
    <3>. QED BY <2>2, <3>1, <3>2, <3>3 DEF ScanFinds
  <2>3. CASE Ack(l)
    BY <2>0, <2>3 DEF Ack, LoopFields
  <2>4. CASE TagPlaySucceeds(l) \/ TagPlayFails(l)
    <3>1. PICK recent : Only(l, [Fresh EXCEPT !.recent = recent])
      BY <2>4 DEF TagPlaySucceeds, TagPlayFails, AfterPlay
    <3>2. DOMAIN [Fresh EXCEPT !.recent = recent] = LoopFields /\ [Fresh EXCEPT !.recent = recent].alive
      BY DEF Fresh, Unborn, LoopFields
    <3>. QED BY <2>4, <3>1, <3>2 DEF TagPlaySucceeds, TagPlayFails
  <2>5. CASE CooldownEnds(l)
    BY <2>0, <2>5 DEF CooldownEnds, LoopFields
  <2>. QED BY <2>1, <2>2, <2>3, <2>4, <2>5 DEF JukeboxStep
<1>2. /\ DOMAIN jukebox' = Loops /\ \A k \in Loops : DOMAIN jukebox'[k] = LoopFields
      /\ AliveLoops' = AliveLoops
  BY <1>1, LoopGoesOn DEF JukeInv
<1>3. Records'
  BY <1>1, <1>2 DEF JukeInv, Records
<1>4. ASSUME Orderly' PROVE Alone'
  BY <1>1, <1>2, <1>4 DEF JukeInv, Alone, Active, Orderly, history
<1>. QED BY <1>1, <1>3, <1>4 DEF JukeInv

(* Each step of nq-start-nfc-jukebox is one of StartMoves. *)
LEMMA StarterSteps == ASSUME JukeInv, NEW p \in Procs, StarterStep(p) PROVE JukeInv'
<1>. USE DEF Active, othersOfStarter, StartGoto, history, Orderly
<1>0. /\ DOMAIN starter = Procs /\ DOMAIN starter[p] = StartFields
      /\ DOMAIN jukebox = Loops /\ \A k \in Loops : DOMAIN jukebox[k] = LoopFields
  BY DEF JukeInv, Records
<1>1. CASE TestPid(p)
  <2>. DEFINE rec == [starter[p] EXCEPT !.at = IF Running THEN "done" ELSE "spawn"]
  <2>1. starter' = [starter EXCEPT ![p] = rec] /\ DOMAIN rec = StartFields
    BY <1>0, <1>1 DEF TestPid, StartFields
  <2>2. rec.at = IF Running THEN "done" ELSE "spawn"
    BY <1>0 DEF StartFields
  <2>3. starter[p].at = "test" /\ UNCHANGED <<jukebox, jukePid, mapper, history>> /\ AliveLoops' = AliveLoops
    BY <1>1 DEF TestPid, AliveLoops
  <2>4. Orderly => AliveLoops \subseteq {jukePid}
    BY <2>3 DEF JukeInv, Alone
  <2>. HIDE DEF rec
  <2>5. Orderly /\ rec.at \in {"rm", "spawn"} => AliveLoops' = {}
    BY <2>2, <2>3, <2>4, NoLoop
  <2>. QED BY <1>0, <2>1, <2>2, <2>3, <2>4, <2>5, StartMoves
<1>2. CASE StopOld(p)
  <2>. DEFINE rec == [starter[p] EXCEPT !.at = IF jukePid = Group THEN "spawn" ELSE "rm"]
  <2>1. starter' = [starter EXCEPT ![p] = rec] /\ DOMAIN rec = StartFields
    BY <1>0, <1>2 DEF StopOld, StartFields
  <2>2. rec.at \in {"rm", "spawn"}
    BY <1>0 DEF StartFields
  <2>3. starter[p].at = "test" /\ UNCHANGED <<jukePid, mapper, history>> /\ KillJukebox
    BY <1>2 DEF StopOld
  <2>4. Orderly => AliveLoops \subseteq {jukePid}
    BY <2>3 DEF JukeInv, Alone
  <2>5. /\ DOMAIN jukebox' = Loops /\ \A k \in Loops : DOMAIN jukebox'[k] = LoopFields
        /\ Orderly => AliveLoops' = {}
    BY <2>3, <2>4, KillEmpties DEF JukeInv
  <2>. HIDE DEF rec
  <2>. QED BY <2>1, <2>2, <2>3, <2>5, StartMoves
<1>3. CASE StopOldRm(p)
  <2>. DEFINE rec == [starter[p] EXCEPT !.at = "spawn"]
  <2>1. starter' = [starter EXCEPT ![p] = rec] /\ DOMAIN rec = StartFields /\ rec.at = "spawn"
    BY <1>0, <1>3 DEF StopOldRm, StartFields
  <2>2. starter[p].at = "rm" /\ UNCHANGED <<jukebox, mapper, history>> /\ AliveLoops' = AliveLoops
    BY <1>3 DEF StopOldRm, AliveLoops
  <2>3. Orderly => AliveLoops = {}
    BY <2>2 DEF JukeInv, Alone
  <2>. HIDE DEF rec
  <2>. QED BY <1>0, <2>1, <2>2, <2>3, StartMoves
<1>4. CASE Spawn(p)
  <2>1. PICK l : Only(l, Fresh) /\ starter' = [starter EXCEPT ![p].at = "write", ![p].loop = l]
    BY <1>4 DEF Spawn
  <2>. DEFINE rec == [starter[p] EXCEPT !.at = "write", !.loop = l]
  <2>2. starter' = [starter EXCEPT ![p] = rec] /\ DOMAIN rec = StartFields
    BY <1>0, <2>1 DEF StartFields
  <2>3. rec.at = "write" /\ rec.loop = l
    BY <1>0 DEF StartFields
  <2>4. starter[p].at = "spawn" /\ UNCHANGED <<mapper, history>>
    BY <1>4 DEF Spawn
  <2>5. DOMAIN Fresh = LoopFields
    BY DEF Fresh, Unborn, LoopFields
  <2>6. DOMAIN jukebox' = Loops /\ \A k \in Loops : jukebox'[k] = IF k = l THEN Fresh ELSE jukebox[k]
    BY <1>0, <2>1 DEF Only
  <2>7. DOMAIN jukebox' = Loops /\ \A k \in Loops : DOMAIN jukebox'[k] = LoopFields
    BY <1>0, <2>5, <2>6
  <2>8. Orderly => AliveLoops' \subseteq {l}
    <3>1. Orderly => AliveLoops = {}
      BY <2>4 DEF JukeInv, Alone
    <3>. QED BY <2>6, <3>1 DEF AliveLoops
  <2>. HIDE DEF rec
  <2>. QED BY <2>2, <2>3, <2>4, <2>7, <2>8, StartMoves
<1>5. CASE WriteJukePid(p)
  <2>. DEFINE rec == [starter[p] EXCEPT !.at = "verify"]
  <2>1. starter' = [starter EXCEPT ![p] = rec] /\ DOMAIN rec = StartFields /\ rec.at = "verify"
    BY <1>0, <1>5 DEF WriteJukePid, StartFields
  <2>2. /\ starter[p].at = "write" /\ jukePid' = starter[p].loop
        /\ UNCHANGED <<jukebox, mapper, history>> /\ AliveLoops' = AliveLoops
    BY <1>5 DEF WriteJukePid, AliveLoops
  <2>3. Orderly => AliveLoops \subseteq {starter[p].loop}
    BY <2>2 DEF JukeInv, Alone
  <2>. HIDE DEF rec
  <2>. QED BY <1>0, <2>1, <2>2, <2>3, StartMoves
<1>6. CASE StartDone(p)
  <2>. DEFINE rec == [starter[p] EXCEPT !.at = "done", !.restart = FALSE]
  <2>1. starter' = [starter EXCEPT ![p] = rec] /\ DOMAIN rec = StartFields /\ rec.at = "done"
    BY <1>0, <1>6 DEF StartDone, StartFields
  <2>2. starter[p].at = "verify" /\ UNCHANGED <<jukebox, jukePid, mapper, history>> /\ AliveLoops' = AliveLoops
    BY <1>6 DEF StartDone, AliveLoops
  <2>3. Orderly => AliveLoops \subseteq {jukePid}
    <3>1. ASSUME Orderly PROVE \A q \in Procs : starter[q].at # "write"
      BY <2>2, <3>1 DEF JukeInv, Alone
    <3>. QED BY <3>1 DEF JukeInv, Alone
  <2>. HIDE DEF rec
  <2>. QED BY <1>0, <2>1, <2>2, <2>3, StartMoves
<1>7. CASE AutoLook(p) \/ AutoPlays(p) \/ AutoFails(p)
  <2>1. UNCHANGED <<jukebox, jukePid, starter, mapper, history>>
    BY <1>7 DEF AutoLook, AutoPlays, AutoFails, othersOfAuto
  <2>. QED BY <2>1, MapMoves DEF JukeInv, Records
<1>8. CASE StartCut(p)
  <2>. DEFINE rec == [starter[p] EXCEPT !.at = "done", !.restart = FALSE]
  <2>1. starter' = [starter EXCEPT ![p] = rec] /\ DOMAIN rec = StartFields /\ rec.at = "done"
    BY <1>0, <1>8 DEF StartCut, StartFields
  <2>2. /\ Active(p) /\ UNCHANGED <<jukebox, jukePid, mapper, mixed>> /\ AliveLoops' = AliveLoops
        /\ cut' = cut \cup Loss(starter[p].at)
    BY <1>8 DEF StartCut, AliveLoops
  <2>3. ASSUME Orderly' PROVE Orderly /\ AliveLoops \subseteq {jukePid}
    <3>1. Orderly /\ starter[p].at # "write"
      BY <2>2, <2>3 DEF Loss
    <3>2. Alone
      BY <3>1 DEF JukeInv
    <3>3. \A q \in Procs : starter[q].at # "write"
      BY <2>2, <3>1, <3>2 DEF Alone
    <3>. QED BY <3>1, <3>2, <3>3 DEF Alone
  <2>. HIDE DEF rec
  <2>. QED BY <1>0, <2>1, <2>2, <2>3, StartMoves
<1>. QED BY <1>1, <1>2, <1>3, <1>4, <1>5, <1>6, <1>7, <1>8 DEF StarterStep

(* The record of one registration after a step of it. *)
LEMMA MapRecord ==
  ASSUME Records, NEW m \in Mappers, NEW rec, DOMAIN rec = MapFields, rec.at # "rm",
         mapper' = [mapper EXCEPT ![m] = rec]
  PROVE  /\ DOMAIN mapper' = Mappers /\ \A n \in Mappers : DOMAIN mapper'[n] = MapFields
         /\ \A n \in Mappers : mapper'[n].at = "rm" => mapper[n].at = "rm"
BY DEF Records

LEMMA PastRecord ==
  ASSUME NEW m, NEW at, NEW onExit
  PROVE  /\ DOMAIN Past(m, at, onExit) = MapFields /\ Past(m, at, onExit).at = at
         /\ Past(m, at, onExit).was = mapper[m].was /\ Past(m, at, onExit).opt = mapper[m].opt
         /\ Past(m, at, onExit).onExit = onExit
BY DEF Past, NoMap, MapFields

(* Each step of nq-nfc-map: a move, the stop of the jukebox, or the begin of a start. *)
LEMMA MapperSteps == ASSUME JukeInv, NEW m \in Mappers, MapperStep(m) PROVE JukeInv'
<1>. USE DEF Maps, MapGoto, othersOfMap, history, Orderly
<1>0. /\ Records /\ m \in Procs
      /\ DOMAIN mapper = Mappers /\ \A n \in Mappers : DOMAIN mapper[n] = MapFields
  BY DEF JukeInv, Records, Procs
<1>1. CASE MapBegins(m) \/ Validate(m) \/ LookAtJukebox(m) \/ MapScans(m)
  <2>1. PICK rec : /\ DOMAIN rec = MapFields /\ rec.at # "rm" /\ mapper' = [mapper EXCEPT ![m] = rec]
    <3>1. CASE MapBegins(m)
      <4>1. PICK opt, uid, station :
              mapper' = [mapper EXCEPT ![m].at = "validate", ![m].opt = opt, ![m].uid = uid,
                                       ![m].station = station]
        BY <3>1 DEF MapBegins
      <4>. DEFINE rec == [mapper[m] EXCEPT !.at = "validate", !.opt = opt, !.uid = uid, !.station = station]
      <4>2. mapper' = [mapper EXCEPT ![m] = rec]
        BY <1>0, <4>1
      <4>3. DOMAIN rec = MapFields /\ rec.at = "validate"
        BY <1>0 DEF MapFields
      <4>. HIDE DEF rec
      <4>. QED BY <4>2, <4>3
    <3>2. CASE Validate(m)
      <4>1. PICK next \in {"look", "rewrite", "done"} : mapper' = [mapper EXCEPT ![m].at = next]
        BY <3>2 DEF Validate
      <4>. QED BY <1>0, <4>1 DEF MapFields
    <3>3. CASE LookAtJukebox(m)
      <4>1. PICK was, onExit :
              mapper' = [mapper EXCEPT ![m].at = "stop", ![m].was = was, ![m].onExit = onExit]
        BY <3>3 DEF LookAtJukebox
      <4>. DEFINE rec == [mapper[m] EXCEPT !.at = "stop", !.was = was, !.onExit = onExit]
      <4>2. mapper' = [mapper EXCEPT ![m] = rec]
        BY <1>0, <4>1
      <4>3. DOMAIN rec = MapFields /\ rec.at = "stop"
        BY <1>0 DEF MapFields
      <4>. HIDE DEF rec
      <4>. QED BY <4>2, <4>3
    <3>4. CASE MapScans(m)
      <4>1. PICK uid : mapper' = [mapper EXCEPT ![m].uid = uid,
                                                ![m].at = IF uid = NoUid THEN "exit" ELSE "rewrite"]
        BY <3>4 DEF MapScans
      <4>. DEFINE rec == [mapper[m] EXCEPT !.uid = uid, !.at = IF uid = NoUid THEN "exit" ELSE "rewrite"]
      <4>2. mapper' = [mapper EXCEPT ![m] = rec]
        BY <1>0, <4>1
      <4>3. DOMAIN rec = MapFields /\ rec.at # "rm"
        BY <1>0 DEF MapFields
      <4>. HIDE DEF rec
      <4>. QED BY <4>2, <4>3
    <3>. QED BY <1>1, <3>1, <3>2, <3>3, <3>4
  <2>2. UNCHANGED <<jukebox, jukePid, starter, history>>
    BY <1>1 DEF MapBegins, Validate, LookAtJukebox, MapScans
  <2>. QED BY <1>0, <2>1, <2>2, MapRecord, MapMoves
<1>2. CASE RewriteMap(m) \/ InstallMap(m)
  <2>1. PICK rec : /\ DOMAIN rec = MapFields /\ rec.at # "rm" /\ mapper' = [mapper EXCEPT ![m] = rec]
    <3>1. CASE mapper' = [mapper EXCEPT ![m].at = "install", ![m].draft = Rewrite(m)]
      BY <1>0, <3>1 DEF MapFields
    <3>2. CASE mapper' = [mapper EXCEPT ![m].at = "exit"]
      BY <1>0, <3>2 DEF MapFields
    <3>3. CASE mapper' = [mapper EXCEPT ![m] = Past(m, "restart", mapper[m].onExit)]
      <4>. DEFINE rec == Past(m, "restart", mapper[m].onExit)
      <4>1. DOMAIN rec = MapFields /\ rec.at = "restart"
        BY PastRecord
      <4>2. mapper' = [mapper EXCEPT ![m] = rec]
        BY <3>3
      <4>. HIDE DEF rec
      <4>. QED BY <4>1, <4>2
    <3>. QED BY <1>2, <3>1, <3>2, <3>3 DEF RewriteMap, InstallMap
  <2>2. UNCHANGED <<jukebox, jukePid, starter, history>>
    BY <1>2 DEF RewriteMap, InstallMap
  <2>. QED BY <1>0, <2>1, <2>2, MapRecord, MapMoves
<1>3. CASE StopJukebox(m)
  <2>1. PICK at : mapper' = [mapper EXCEPT ![m].at = at]
    BY <1>3 DEF StopJukebox
  <2>2. DOMAIN mapper' = Mappers /\ \A n \in Mappers : DOMAIN mapper'[n] = MapFields
    BY <1>0, <2>1 DEF MapFields
  <2>3. KillJukebox /\ UNCHANGED <<jukePid, starter, cut>> /\ mixed' = (mixed \/ BusyStarts # {})
    BY <1>3 DEF StopJukebox
  <2>4. /\ DOMAIN jukebox' = Loops /\ \A k \in Loops : DOMAIN jukebox'[k] = LoopFields
        /\ AliveLoops \subseteq {jukePid} => AliveLoops' = {}
    BY <1>0, <2>3, KillEmpties
  <2>5. Records'
    BY <1>0, <2>2, <2>3, <2>4 DEF Records
  <2>6. ASSUME Orderly' PROVE Alone'
    <3>1. Orderly /\ \A p \in Procs : ~Active(p)
      BY <2>3, <2>6 DEF BusyStarts
    <3>2. \A p \in Procs : starter[p].at \in {"idle", "done"}
      BY <3>1 DEF Active
    <3>3. AliveLoops \subseteq {jukePid}
      BY <3>1, <3>2 DEF JukeInv, Alone
    <3>. QED BY <2>3, <2>4, <3>2, <3>3 DEF Alone, Active
  <2>. QED BY <2>5, <2>6 DEF JukeInv
<1>4. CASE StopJukeboxRm(m)
  <2>1. mapper[m].at = "rm" /\ mapper' = [mapper EXCEPT ![m].at = "scan"] /\ jukePid' = Group
    BY <1>4 DEF StopJukeboxRm
  <2>2. /\ DOMAIN mapper' = Mappers /\ \A n \in Mappers : DOMAIN mapper'[n] = MapFields
        /\ \A n \in Mappers : mapper'[n].at = "rm" => mapper[n].at = "rm"
    BY <1>0, <2>1 DEF MapFields
  <2>3. UNCHANGED <<jukebox, starter, history>> /\ AliveLoops' = AliveLoops
    BY <1>4 DEF StopJukeboxRm, AliveLoops
  <2>4. Records'
    BY <1>0, <2>2, <2>3 DEF Records
  <2>5. ASSUME Orderly PROVE Alone'
    <3>1. AliveLoops = {} /\ \A p \in Procs : ~Active(p)
      BY <2>1, <2>5 DEF JukeInv, Alone
    <3>. QED BY <2>3, <3>1 DEF Alone, Active
  <2>. QED BY <2>3, <2>4, <2>5 DEF JukeInv
<1>5. CASE RestartJukebox(m) \/ CleanUp(m)
  <2>1. mapper' = [mapper EXCEPT ![m] = Ended(m)]
    BY <1>5 DEF RestartJukebox, CleanUp
  <2>2. DOMAIN Ended(m) = MapFields /\ Ended(m).at # "rm"
    BY PastRecord DEF Ended
  <2>3. /\ DOMAIN mapper' = Mappers /\ \A n \in Mappers : DOMAIN mapper'[n] = MapFields
        /\ \A n \in Mappers : mapper'[n].at = "rm" => mapper[n].at = "rm"
    BY <1>0, <2>1, <2>2, MapRecord
  <2>4. ~Active(m) /\ UNCHANGED <<jukebox, jukePid>>
    BY <1>5 DEF RestartJukebox, CleanUp
  <2>5. BeginStart(m, TRUE) \/ UNCHANGED <<starter, history>>
    BY <1>5 DEF RestartJukebox, CleanUp
  <2>6. CASE BeginStart(m, TRUE)
    BY <1>0, <2>3, <2>4, <2>6, StartEnters
  <2>7. CASE UNCHANGED <<starter, history>>
    BY <2>3, <2>4, <2>7, MapMoves
  <2>. QED BY <2>5, <2>6, <2>7
<1>6. CASE Signal(m)
  <2>1. /\ ~Active(m) /\ UNCHANGED <<jukebox, jukePid>> /\ BeginStart(m, TRUE)
        /\ mapper' = [mapper EXCEPT ![m].onExit = "spent"]
    BY <1>6 DEF Signal
  <2>2. /\ DOMAIN mapper' = Mappers /\ \A n \in Mappers : DOMAIN mapper'[n] = MapFields
        /\ \A n \in Mappers : mapper'[n].at = mapper[n].at
    BY <1>0, <2>1 DEF MapFields
  <2>. QED BY <1>0, <2>1, <2>2, StartEnters
<1>7. CASE TakeTrapsBack(m) \/ Killed(m)
  <2>1. PICK at, onExit :
          at \in {"start", "exit", "done"} /\ mapper' = [mapper EXCEPT ![m] = Past(m, at, onExit)]
    BY <1>7 DEF TakeTrapsBack, Killed, Ended
  <2>2. DOMAIN Past(m, at, onExit) = MapFields /\ Past(m, at, onExit).at = at
    BY PastRecord
  <2>3. /\ DOMAIN mapper' = Mappers /\ \A n \in Mappers : DOMAIN mapper'[n] = MapFields
        /\ \A n \in Mappers : mapper'[n].at = "rm" => mapper[n].at = "rm"
    BY <1>0, <2>1, <2>2, MapRecord
  <2>4. UNCHANGED <<jukebox, jukePid, starter, mixed>> /\ cut \subseteq cut'
    BY <1>7 DEF TakeTrapsBack, Killed
  <2>. QED BY <2>3, <2>4, MapMoves
<1>. QED BY <1>1, <1>2, <1>3, <1>4, <1>5, <1>6, <1>7 DEF MapperStep

LEMMA JukeStep == JukeInv /\ [NfcNext]_nfcVars => JukeInv'
<1>. SUFFICES ASSUME JukeInv, [NfcNext]_nfcVars PROVE JukeInv'
  OBVIOUS
<1>1. ASSUME NEW p \in Starters, StartBegins(p) PROVE JukeInv'
  <2>1. PICK restart : BeginStart(p, restart)
    BY <1>1 DEF StartBegins
  <2>2. ~Active(p) /\ p \in Procs /\ UNCHANGED <<jukebox, jukePid, mapper>>
    BY <1>1 DEF StartBegins, Active, Procs, othersOfStarter
  <2>. QED BY <2>1, <2>2, StartEnters DEF JukeInv, Records
<1>2. CASE PhoneTakes \/ PhoneEnds \/ (\E u \in Uids \cup {NoUid} : PutCard(u)) \/ UNCHANGED nfcVars
  <2>1. UNCHANGED <<jukebox, jukePid, starter, mapper, history>>
    BY <1>2 DEF PhoneTakes, PhoneEnds, PutCard, nfcVars
  <2>. QED BY <2>1, MapMoves DEF JukeInv, Records, Orderly, history
<1>. QED BY <1>1, <1>2, JukeboxSteps, StarterSteps, MapperSteps DEF NfcNext

(* One jukebox loop watches the reader, however many starts and registrations come, fail or
   are interrupted, until a start has run beside another one or beside a stop. *)
THEOREM JukeboxIsOne == NfcSpec => []OneJukebox
<1>1. JukeInv => OneJukebox
  <2>. SUFFICES ASSUME JukeInv, Orderly PROVE Cardinality(AliveLoops) <= 1
    BY DEF OneJukebox, Orderly
  <2>1. PICK x : AliveLoops \subseteq {x}
    <3>1. CASE \E p \in Procs : starter[p].at = "write"
      BY <3>1 DEF JukeInv, Alone
    <3>2. CASE \A p \in Procs : starter[p].at # "write"
      BY <3>2 DEF JukeInv, Alone
    <3>. QED BY <3>1, <3>2
  <2>2. Cardinality({x}) = 1 /\ Cardinality({}) = 0
    BY FS_Singleton, FS_EmptySet
  <2>3. AliveLoops = {x} \/ AliveLoops = {}
    BY <2>1
  <2>. QED BY <2>2, <2>3
<1>. QED BY <1>1, InitJuke, JukeStep, PTL DEF NfcSpec

-------------------------------------------------------------------------------
(* Types.  A loop to spawn is always left, since BeginStart has made sure of one: the starts
   that have not spawned theirs yet fit beside the loops that are taken. *)
Waiting == {p \in Procs : starter[p].at \in {"test", "rm", "spawn"}}
TakenLoops == Taken \ {Group}
Spare == Cardinality(Waiting) + Cardinality(TakenLoops) <= MaxLoops

LoopState == [alive : BOOLEAN, at : {"none", "scan", "ack", "play"}, uid : Uids \cup {NoUid},
              station : Stations \cup {NoStation}, recent : Uids \cup {NoUid}]
StartState == [at : {"idle", "test", "rm", "spawn", "write", "verify", "done"}, restart : BOOLEAN,
               loop : Loops \cup {Group}]
AutoState == [at : {"off", "look", "play"}, left : 0..Retries]
MapState == [at : {"idle", "validate", "look", "stop", "rm", "scan", "rewrite", "install", "restart",
                   "start", "exit", "done"},
             opt : {"auto", "0", "1"}, uid : Uids \cup {NoUid}, station : Stations \cup {NoStation},
             was : BOOLEAN, onExit : {"off", "armed", "spent"}, draft : [Uids -> Stations \cup {NoStation}]]
PlayerState == [station : Stations \cup {NoStation}, group : Loops \cup {Group}]
PhoneState == [busy : BOOLEAN, left : 0..MaxPhone]

HistoryTyped == mixed \in BOOLEAN /\ cut \subseteq {Unstarted, Unnamed}

Typed ==
  /\ tagMap \in [Uids -> Stations \cup {NoStation}] /\ card \in Uids \cup {NoUid}
  /\ phone \in PhoneState /\ player \in PlayerState
  /\ jukebox \in [Loops -> LoopState] /\ jukePid \in Loops \cup {Group}
  /\ starter \in [Procs -> StartState] /\ autostart \in [Procs -> AutoState]
  /\ mapper \in [Mappers -> MapState] /\ HistoryTyped

Counted == \A p \in Procs : autostart[p].at = "play" => autostart[p].left > 0

TypeInv == Typed /\ Counted /\ Spare

LEMMA TypedIsTypeOK == Typed <=> NfcTypeOK
BY DEF Typed, HistoryTyped, NfcTypeOK, LoopState, StartState, AutoState, MapState, PlayerState, PhoneState

LEMMA LoopsFinite == IsFiniteSet(Loops) /\ Cardinality(Loops) = MaxLoops /\ Group \notin Loops
BY FS_Interval, NfcAssumption DEF Loops, Group

LEMMA TakenType == ASSUME Typed PROVE TakenLoops \subseteq Loops /\ Waiting \subseteq Procs
BY DEF Typed, TakenLoops, Taken, BusyStarts, Waiting, StartState

LEMMA TakenFinite ==
  ASSUME Typed
  PROVE  /\ IsFiniteSet(TakenLoops) /\ Cardinality(TakenLoops) \in Nat
         /\ IsFiniteSet(Waiting) /\ Cardinality(Waiting) \in Nat
<1>1. IsFiniteSet(Procs)
  BY NfcAssumption, FS_Union DEF Procs
<1>2. IsFiniteSet(TakenLoops) /\ IsFiniteSet(Waiting)
  BY <1>1, TakenType, LoopsFinite, FS_Subset
<1>. QED BY <1>2, FS_CardinalityType

LEMMA Fewer ==
  ASSUME NEW S, IsFiniteSet(S), NEW T, T \subseteq S
  PROVE  /\ IsFiniteSet(T) /\ Cardinality(T) <= Cardinality(S)
         /\ Cardinality(T) \in Nat /\ Cardinality(S) \in Nat
BY FS_Subset, FS_CardinalityType

LEMMA OneMore ==
  ASSUME NEW S, IsFiniteSet(S), NEW x
  PROVE  IsFiniteSet(S \cup {x}) /\ Cardinality(S \cup {x}) <= Cardinality(S) + 1
<1>1. Cardinality(S) \in Nat
  BY FS_CardinalityType
<1>2. Cardinality(S \cup {x}) = Cardinality(S) \/ Cardinality(S \cup {x}) = Cardinality(S) + 1
  BY FS_AddElement
<1>. QED BY <1>1, <1>2, FS_AddElement

(* No start begins, and no loop is taken that was not. *)
LEMMA SpareStays ==
  ASSUME Typed, Spare, Waiting' \subseteq Waiting, TakenLoops' \subseteq TakenLoops
  PROVE  Spare'
<1>1. /\ Cardinality(Waiting') <= Cardinality(Waiting) /\ Cardinality(Waiting) \in Nat
      /\ Cardinality(Waiting') \in Nat
  BY TakenFinite, Fewer
<1>2. /\ Cardinality(TakenLoops') <= Cardinality(TakenLoops) /\ Cardinality(TakenLoops) \in Nat
      /\ Cardinality(TakenLoops') \in Nat
  BY TakenFinite, Fewer
<1>3. MaxLoops \in Nat
  BY NfcAssumption
<1>. QED BY <1>1, <1>2, <1>3 DEF Spare

LEMMA StartFits ==
  ASSUME Typed, NEW p \in Procs, ~Active(p), NEW restart \in BOOLEAN, BeginStart(p, restart),
         UNCHANGED <<jukebox, jukePid>>
  PROVE  starter' \in [Procs -> StartState] /\ Spare'
<1>. DEFINE rec == [NoStart EXCEPT !.at = "test", !.restart = restart]
<1>1. rec \in StartState /\ rec.at = "test" /\ rec.loop = Group
  BY DEF NoStart, StartState
<1>2. starter' = [starter EXCEPT ![p] = rec] /\ SpareLoop
  BY DEF BeginStart
<1>. HIDE DEF rec
<1>3. /\ starter' \in [Procs -> StartState] /\ starter'[p] = rec
      /\ \A q \in Procs \ {p} : starter'[q] = starter[q]
  BY <1>1, <1>2 DEF Typed
<1>4. TakenLoops' \subseteq TakenLoops
  <2>1. ASSUME NEW q \in BusyStarts'
        PROVE  starter'[q].loop = Group \/ (q \in BusyStarts /\ starter'[q] = starter[q])
    <3>1. q \in Procs
      BY DEF BusyStarts
    <3>2. CASE q = p
      BY <1>1, <1>3, <3>2
    <3>3. CASE q # p
      BY <1>3, <3>1, <3>3 DEF BusyStarts, Active
    <3>. QED BY <3>2, <3>3
  <2>. QED BY <2>1 DEF TakenLoops, Taken
<1>5. Waiting' \subseteq BusyStarts \cup {p} /\ BusyStarts \subseteq Procs
  BY <1>3 DEF Waiting, BusyStarts, Active
<1>6. IsFiniteSet(Procs)
  BY NfcAssumption, FS_Union DEF Procs
<1>7. IsFiniteSet(BusyStarts) /\ Cardinality(BusyStarts) \in Nat
  BY <1>5, <1>6, Fewer
<1>8. IsFiniteSet(BusyStarts \cup {p}) /\ Cardinality(BusyStarts \cup {p}) <= Cardinality(BusyStarts) + 1
  BY <1>7, OneMore
<1>9. /\ Cardinality(Waiting') <= Cardinality(BusyStarts \cup {p}) /\ Cardinality(Waiting') \in Nat
      /\ Cardinality(BusyStarts \cup {p}) \in Nat
  BY <1>5, <1>8, Fewer
<1>10. /\ Cardinality(TakenLoops') <= Cardinality(TakenLoops) /\ Cardinality(TakenLoops') \in Nat
       /\ Cardinality(TakenLoops) \in Nat
  BY <1>4, TakenFinite, Fewer
<1>11. MaxLoops > Cardinality(BusyStarts) + Cardinality(TakenLoops) /\ MaxLoops \in Nat
  BY <1>2, NfcAssumption DEF SpareLoop, TakenLoops
<1>12. Cardinality(Waiting') + Cardinality(TakenLoops') <= MaxLoops
  BY <1>7, <1>8, <1>9, <1>10, <1>11
<1>. QED BY <1>3, <1>12 DEF Spare

(* The pid that a new loop gets: the least that is not taken. *)
NewLoop == CHOOSE n \in Loops \ Taken : \A k \in Loops \ Taken : n <= k

LEMMA LoopIsSpare ==
  ASSUME Typed, Spare, Waiting # {}
  PROVE  NewLoop \in Loops /\ NewLoop \notin Taken
<1>1. Loops \ Taken # {}
  <2>1. SUFFICES ASSUME Loops \subseteq Taken PROVE FALSE
    OBVIOUS
  <2>2. TakenLoops = Loops
    BY <2>1, LoopsFinite, TakenType DEF TakenLoops
  <2>3. Cardinality(TakenLoops) = MaxLoops /\ MaxLoops \in Nat
    BY <2>2, LoopsFinite, NfcAssumption
  <2>4. Cardinality(Waiting) \in Nat /\ Cardinality(Waiting) # 0
    BY TakenFinite, FS_EmptySet
  <2>. QED BY <2>3, <2>4 DEF Spare
<1>. DEFINE S == Loops \ Taken
<1>2. S \subseteq Nat /\ S # {}
  BY <1>1 DEF Loops
<1>. HIDE DEF S
<1>3. PICK l \in S : \A k \in S : ~(<<k, l>> \in OpToRel(<, Nat))
  BY <1>2, NatLessThanWellFounded, WFMin
<1>4. ASSUME NEW k \in S PROVE l <= k
  <2>1. l \in Nat /\ k \in Nat
    BY <1>2
  <2>2. ~(k < l)
    BY <1>3, <2>1 DEF OpToRel
  <2>. QED BY <2>1, <2>2
<1>5. \E n \in S : \A k \in S : n <= k
  BY <1>4
<1>. QED BY <1>5 DEF NewLoop, S

LEMMA SpawnFits ==
  ASSUME Typed, Spare, NEW p \in Procs, Spawn(p)
  PROVE  /\ jukebox' \in [Loops -> LoopState] /\ starter' \in [Procs -> StartState] /\ Spare'
         /\ NewLoop \in Loops /\ starter'[p].at = "write" /\ starter'[p].loop = NewLoop
         /\ jukebox'[NewLoop].alive
         /\ \A q \in Procs \ {p} : starter'[q] = starter[q]
<1>1. /\ starter[p].at = "spawn" /\ jukebox' = [jukebox EXCEPT ![NewLoop] = Fresh] /\ jukePid' = jukePid
      /\ starter' = [starter EXCEPT ![p].at = "write", ![p].loop = NewLoop]
  BY DEF Spawn, Only, NewLoop
<1>2. p \in Waiting
  BY <1>1 DEF Waiting
<1>3. NewLoop \in Loops
  BY <1>2, LoopIsSpare
<1>4. Fresh \in LoopState /\ Fresh.alive
  BY DEF Fresh, Unborn, LoopState
<1>. DEFINE rec == [starter[p] EXCEPT !.at = "write", !.loop = NewLoop]
<1>5. starter' = [starter EXCEPT ![p] = rec]
  BY <1>1 DEF Typed
<1>6. rec \in StartState /\ rec.at = "write" /\ rec.loop = NewLoop
  BY <1>3 DEF Typed, StartState
<1>. HIDE DEF rec
<1>7. /\ starter' \in [Procs -> StartState] /\ starter'[p] = rec
      /\ \A q \in Procs \ {p} : starter'[q] = starter[q]
  BY <1>5, <1>6 DEF Typed
<1>8. /\ jukebox' \in [Loops -> LoopState] /\ jukebox'[NewLoop].alive
      /\ \A l \in Loops \ {NewLoop} : jukebox'[l] = jukebox[l]
  BY <1>1, <1>3, <1>4 DEF Typed
<1>9. Waiting' = Waiting \ {p}
  BY <1>6, <1>7 DEF Waiting
<1>10. TakenLoops' \subseteq TakenLoops \cup {NewLoop}
  <2>1. \A q \in Procs \ {p} : q \in BusyStarts' => q \in BusyStarts
    BY <1>7 DEF BusyStarts, Active
  <2>. QED BY <1>1, <1>6, <1>7, <1>8, <2>1 DEF TakenLoops, Taken, BusyStarts
<1>11. Cardinality(Waiting') = Cardinality(Waiting) - 1 /\ Cardinality(Waiting) \in Nat
  BY <1>2, <1>9, TakenFinite, FS_RemoveElement
<1>12. /\ Cardinality(TakenLoops') <= Cardinality(TakenLoops) + 1 /\ Cardinality(TakenLoops) \in Nat
       /\ Cardinality(TakenLoops') \in Nat
  <2>0. IsFiniteSet(TakenLoops) /\ Cardinality(TakenLoops) \in Nat
    BY TakenFinite
  <2>1. /\ IsFiniteSet(TakenLoops \cup {NewLoop})
        /\ Cardinality(TakenLoops \cup {NewLoop}) <= Cardinality(TakenLoops) + 1
    BY <2>0, OneMore
  <2>2. /\ Cardinality(TakenLoops') <= Cardinality(TakenLoops \cup {NewLoop})
        /\ Cardinality(TakenLoops') \in Nat /\ Cardinality(TakenLoops \cup {NewLoop}) \in Nat
    BY <1>10, <2>1, Fewer
  <2>. QED BY <2>1, <2>2, TakenFinite
<1>13. Spare'
  BY <1>11, <1>12, NfcAssumption DEF Spare
<1>. QED BY <1>3, <1>6, <1>7, <1>8, <1>13

LEMMA InitTyped == NfcInit => TypeInv
<1>. SUFFICES ASSUME NfcInit PROVE TypeInv
  OBVIOUS
<1>1. /\ tagMap \in [Uids -> Stations \cup {NoStation}] /\ card \in Uids \cup {NoUid}
      /\ autostart \in [Procs -> AutoState] /\ jukePid \in Loops \cup {Group} /\ HistoryTyped
  <2>1. [at |-> "off", left |-> 0] \in AutoState
    BY NfcAssumption DEF AutoState
  <2>. QED BY <2>1 DEF NfcInit, HistoryTyped
<1>2. phone \in PhoneState /\ player \in PlayerState
  BY NfcAssumption DEF NfcInit, PhoneState, PlayerState, Silence
<1>3. Unborn \in LoopState /\ NoStart \in StartState /\ NoMap \in MapState
  BY DEF Unborn, LoopState, NoStart, StartState, NoMap, MapState
<1>4. jukebox \in [Loops -> LoopState] /\ starter \in [Procs -> StartState] /\ mapper \in [Mappers -> MapState]
  BY <1>3 DEF NfcInit
<1>5. Counted
  BY DEF NfcInit, Counted
<1>6. Waiting = {} /\ TakenLoops = {}
  BY DEF NfcInit, Waiting, TakenLoops, Taken, BusyStarts, Active, NoStart, Unborn
<1>7. Spare
  BY <1>6, FS_EmptySet, NfcAssumption DEF Spare
<1>. QED BY <1>1, <1>2, <1>4, <1>5, <1>7 DEF TypeInv, Typed

(* Whoever neither starts a loop nor begins a start leaves as many to spare. *)
LEMMA SpareKept ==
  ASSUME Typed, Spare, UNCHANGED <<jukePid, starter>>, AliveLoops' \subseteq AliveLoops
  PROVE  Spare'
<1>1. Waiting' = Waiting /\ BusyStarts' = BusyStarts
  BY DEF Waiting, BusyStarts, Active
<1>2. TakenLoops' \subseteq TakenLoops
  BY <1>1 DEF TakenLoops, Taken, AliveLoops
<1>. QED BY <1>1, <1>2, SpareStays

LEMMA SilenceType == Silence \in PlayerState
BY DEF Silence, PlayerState

LEMMA PlayedType ==
  ASSUME NEW s \in Stations \cup {NoStation}, NEW g \in Loops \cup {Group}
  PROVE  Played(s, g) \in PlayerState
BY DEF Played, PlayerState

(* What a loop does keeps its record one. *)
LEMMA LoopTyped ==
  ASSUME Typed, NEW l \in Loops, JukeboxStep(l)
  PROVE  /\ \E loop \in LoopState : Only(l, loop) /\ loop.alive
         /\ jukebox[l].alive /\ player' \in PlayerState /\ UNCHANGED othersOfJukebox
<1>. USE DEF At, othersOfJukebox
<1>0. jukebox[l] \in LoopState /\ player \in PlayerState /\ tagMap \in [Uids -> Stations \cup {NoStation}]
  BY DEF Typed
<1>1. CASE ScanEmpty(l)
  BY <1>0, <1>1 DEF ScanEmpty, LoopState
<1>2. CASE ScanFinds(l)
  <2>1. PICK uid \in Uids : Only(l, HandleUid(l, uid))
    BY <1>2 DEF ScanFinds
  <2>2. Handled(l, uid) \in LoopState /\ Handled(l, uid).alive = jukebox[l].alive
    BY <1>0 DEF Handled, LoopState
  <2>3. Chosen(l, uid) \in LoopState /\ Chosen(l, uid).alive = jukebox[l].alive
    BY <1>0 DEF Chosen, LoopState
  <2>. QED BY <1>0, <1>2, <2>1, <2>2, <2>3 DEF ScanFinds, HandleUid
<1>3. CASE Ack(l)
  BY <1>0, <1>3, SilenceType DEF Ack, LoopState
<1>4. CASE TagPlaySucceeds(l) \/ TagPlayFails(l)
  <2>1. PICK recent \in {jukebox[l].uid, NoUid} : Only(l, [Fresh EXCEPT !.recent = recent])
    BY <1>4 DEF TagPlaySucceeds, TagPlayFails, AfterPlay
  <2>2. [Fresh EXCEPT !.recent = recent] \in LoopState /\ [Fresh EXCEPT !.recent = recent].alive
    BY <1>0, <2>1 DEF Fresh, Unborn, LoopState
  <2>3. jukebox[l].station \in Stations \cup {NoStation}
    BY <1>0 DEF LoopState
  <2>4. player' \in PlayerState
    BY <1>0, <1>4, <2>3, PlayedType DEF TagPlaySucceeds, TagPlayFails, PlayWorks, PlayFails
  <2>. QED BY <1>4, <2>1, <2>2, <2>4 DEF TagPlaySucceeds, TagPlayFails
<1>5. CASE CooldownEnds(l)
  BY <1>0, <1>5 DEF CooldownEnds, LoopState
<1>. QED BY <1>1, <1>2, <1>3, <1>4, <1>5 DEF JukeboxStep

LEMMA LoopKeepsTypes == ASSUME TypeInv, NEW l \in Loops, JukeboxStep(l) PROVE TypeInv'
<1>1. PICK loop \in LoopState : Only(l, loop) /\ loop.alive
  BY LoopTyped DEF TypeInv
<1>2. jukebox[l].alive /\ player' \in PlayerState /\ UNCHANGED othersOfJukebox
  BY LoopTyped DEF TypeInv
<1>3. jukebox' \in [Loops -> LoopState] /\ AliveLoops' = AliveLoops
  BY <1>1, <1>2 DEF TypeInv, Typed, Only, AliveLoops
<1>4. Spare'
  BY <1>2, <1>3, SpareKept DEF TypeInv, othersOfJukebox
<1>. QED BY <1>2, <1>3, <1>4 DEF TypeInv, Typed, Counted, HistoryTyped, history, othersOfJukebox

LEMMA KillTyped ==
  ASSUME Typed, KillJukebox
  PROVE  jukebox' \in [Loops -> LoopState] /\ player' \in PlayerState /\ AliveLoops' \subseteq AliveLoops
<1>1. Unborn \in LoopState /\ ~Unborn.alive
  BY DEF Unborn, LoopState
<1>2. jukebox' = jukebox \/ jukebox' = [jukebox EXCEPT ![jukePid] = Unborn]
  BY DEF KillJukebox
<1>3. jukebox' \in [Loops -> LoopState] /\ AliveLoops' \subseteq AliveLoops
  BY <1>1, <1>2 DEF Typed, AliveLoops
<1>. QED BY <1>3, SilenceType DEF Typed, KillJukebox

LEMMA StarterKeepsTypes == ASSUME TypeInv, NEW p \in Procs, StarterStep(p) PROVE TypeInv'
<1>. USE DEF othersOfStarter, StartGoto, world, history
<1>0. /\ Typed /\ Counted /\ Spare /\ starter[p] \in StartState /\ autostart[p] \in AutoState
      /\ starter \in [Procs -> StartState] /\ autostart \in [Procs -> AutoState] /\ Retries \in Nat
  BY NfcAssumption DEF TypeInv, Typed
<1>1. ASSUME NEW at \in {"done", "spawn", "rm", "verify"},
             starter' = [starter EXCEPT ![p].at = at],
             starter[p].at \in {"test", "rm", "spawn"} \/ at \in {"verify", "done"},
             Active(p)
      PROVE  /\ starter' \in [Procs -> StartState]
             /\ Waiting' \subseteq Waiting /\ BusyStarts' \subseteq BusyStarts
             /\ \A q \in Procs : starter'[q].loop = starter[q].loop
  <2>. DEFINE rec == [starter[p] EXCEPT !.at = at]
  <2>1. starter' = [starter EXCEPT ![p] = rec] /\ rec \in StartState /\ rec.at = at /\ rec.loop = starter[p].loop
    BY <1>0, <1>1 DEF StartState
  <2>. HIDE DEF rec
  <2>. QED BY <1>0, <1>1, <2>1 DEF Waiting, BusyStarts, Active
<1>2. CASE TestPid(p)
  <2>1. PICK at \in {"done", "spawn"} : starter' = [starter EXCEPT ![p].at = at]
    BY <1>2 DEF TestPid
  <2>2. starter[p].at = "test" /\ UNCHANGED <<world, tagMap, mapper, player, jukebox, jukePid, autostart, history>>
    BY <1>2 DEF TestPid
  <2>3. /\ starter' \in [Procs -> StartState] /\ Waiting' \subseteq Waiting /\ BusyStarts' \subseteq BusyStarts
        /\ \A q \in Procs : starter'[q].loop = starter[q].loop
    BY <1>1, <2>1, <2>2 DEF Active
  <2>4. TakenLoops' \subseteq TakenLoops
    BY <2>2, <2>3 DEF TakenLoops, Taken, BusyStarts
  <2>. QED BY <1>0, <2>2, <2>3, <2>4, SpareStays DEF TypeInv, Typed, Counted, HistoryTyped
<1>3. CASE StopOld(p)
  <2>1. PICK at \in {"rm", "spawn"} : starter' = [starter EXCEPT ![p].at = at]
    BY <1>3 DEF StopOld
  <2>2. /\ starter[p].at = "test" /\ KillJukebox
        /\ UNCHANGED <<world, tagMap, mapper, jukePid, autostart, history>>
    BY <1>3 DEF StopOld
  <2>3. /\ starter' \in [Procs -> StartState] /\ Waiting' \subseteq Waiting /\ BusyStarts' \subseteq BusyStarts
        /\ \A q \in Procs : starter'[q].loop = starter[q].loop
    BY <1>1, <2>1, <2>2 DEF Active
  <2>4. jukebox' \in [Loops -> LoopState] /\ player' \in PlayerState /\ AliveLoops' \subseteq AliveLoops
    BY <1>0, <2>2, KillTyped
  <2>5. TakenLoops' \subseteq TakenLoops
    BY <2>2, <2>3, <2>4 DEF TakenLoops, Taken, BusyStarts, AliveLoops
  <2>. QED BY <1>0, <2>2, <2>3, <2>4, <2>5, SpareStays DEF TypeInv, Typed, Counted, HistoryTyped
<1>4. CASE StopOldRm(p)
  <2>1. /\ starter' = [starter EXCEPT ![p].at = "spawn"] /\ starter[p].at = "rm" /\ jukePid' = Group
        /\ UNCHANGED <<world, tagMap, mapper, player, jukebox, autostart, history>>
    BY <1>4 DEF StopOldRm
  <2>3. /\ starter' \in [Procs -> StartState] /\ Waiting' \subseteq Waiting /\ BusyStarts' \subseteq BusyStarts
        /\ \A q \in Procs : starter'[q].loop = starter[q].loop
    BY <1>1, <2>1 DEF Active
  <2>4. TakenLoops' \subseteq TakenLoops
    BY <2>1, <2>3 DEF TakenLoops, Taken, BusyStarts
  <2>. QED BY <1>0, <2>1, <2>3, <2>4, SpareStays DEF TypeInv, Typed, Counted, HistoryTyped
<1>5. CASE Spawn(p)
  <2>1. jukebox' \in [Loops -> LoopState] /\ starter' \in [Procs -> StartState] /\ Spare'
    BY <1>0, <1>5, SpawnFits
  <2>. QED BY <1>0, <1>5, <2>1 DEF Spawn, TypeInv, Typed, Counted, HistoryTyped
<1>6. CASE WriteJukePid(p)
  <2>1. /\ starter' = [starter EXCEPT ![p].at = "verify"] /\ starter[p].at = "write" /\ jukePid' = starter[p].loop
        /\ UNCHANGED <<world, tagMap, mapper, player, jukebox, autostart, history>>
    BY <1>6 DEF WriteJukePid
  <2>2. jukePid' \in Loops \cup {Group} /\ p \in BusyStarts
    BY <1>0, <2>1 DEF StartState, BusyStarts, Active
  <2>3. /\ starter' \in [Procs -> StartState] /\ Waiting' \subseteq Waiting /\ BusyStarts' \subseteq BusyStarts
        /\ \A q \in Procs : starter'[q].loop = starter[q].loop
    BY <1>1, <2>1 DEF Active
  <2>4. TakenLoops' \subseteq TakenLoops
    BY <2>1, <2>2, <2>3 DEF TakenLoops, Taken, BusyStarts
  <2>. QED BY <1>0, <2>1, <2>2, <2>3, <2>4, SpareStays DEF TypeInv, Typed, Counted, HistoryTyped
<1>7. CASE StartDone(p)
  <2>. DEFINE rec == [starter[p] EXCEPT !.at = "done", !.restart = FALSE]
              new == [at |-> "look", left |-> Retries]
  <2>1. /\ starter' = [starter EXCEPT ![p] = rec] /\ rec \in StartState /\ rec.at = "done" /\ rec.loop = starter[p].loop
    BY <1>0, <1>7 DEF StartDone, StartState
  <2>2. UNCHANGED <<world, tagMap, mapper, player, jukebox, jukePid, history>>
    BY <1>7 DEF StartDone
  <2>3. new \in AutoState /\ new.at # "play"
    BY <1>0 DEF AutoState
  <2>4. autostart' = autostart \/ autostart' = [autostart EXCEPT ![p] = new]
    BY <1>7 DEF StartDone
  <2>. HIDE DEF rec, new
  <2>5. autostart' \in [Procs -> AutoState] /\ Counted'
    BY <1>0, <2>3, <2>4 DEF Counted
  <2>6. /\ starter' \in [Procs -> StartState] /\ Waiting' \subseteq Waiting /\ BusyStarts' \subseteq BusyStarts
        /\ \A q \in Procs : starter'[q].loop = starter[q].loop
    BY <1>0, <2>1 DEF Waiting, BusyStarts, Active
  <2>7. TakenLoops' \subseteq TakenLoops
    BY <2>2, <2>6 DEF TakenLoops, Taken, BusyStarts
  <2>. QED BY <1>0, <2>2, <2>5, <2>6, <2>7, SpareStays DEF TypeInv, Typed, HistoryTyped
<1>8. CASE AutoLook(p) \/ AutoPlays(p) \/ AutoFails(p)
  <2>1. UNCHANGED othersOfAuto
    BY <1>8 DEF AutoLook, AutoPlays, AutoFails
  <2>2. player' \in PlayerState
    BY <1>0, <1>8, PlayedType, NfcAssumption DEF AutoLook, AutoPlays, AutoFails, PlayWorks, PlayFails, Typed
  <2>3. autostart' \in [Procs -> AutoState] /\ Counted'
    <3>1. PICK at \in {"off", "look", "play"}, n \in 0..Retries :
            /\ autostart' = [autostart EXCEPT ![p] = [at |-> at, left |-> n]]
            /\ at = "play" => n > 0
      <4>1. autostart[p] = [at |-> autostart[p].at, left |-> autostart[p].left] /\ autostart[p].left \in 0..Retries
        BY <1>0 DEF AutoState
      <4>2. CASE AutoLook(p)
        <5>1. PICK at \in {"off", "play"} :
                autostart' = [autostart EXCEPT ![p].at = at] /\ (at = "play" => autostart[p].left # 0)
          BY <4>2 DEF AutoLook, AutoGoto
        <5>2. [autostart[p] EXCEPT !.at = at] = [at |-> at, left |-> autostart[p].left]
          BY <4>1
        <5>3. autostart' = [autostart EXCEPT ![p] = [at |-> at, left |-> autostart[p].left]]
          BY <1>0, <5>1, <5>2
        <5>4. at = "play" => autostart[p].left > 0
          BY <1>0, <4>1, <5>1
        <5>. QED BY <4>1, <5>3, <5>4
      <4>3. CASE AutoPlays(p)
        <5>1. autostart' = [autostart EXCEPT ![p].at = "off"]
          BY <4>3 DEF AutoPlays, AutoGoto
        <5>2. [autostart[p] EXCEPT !.at = "off"] = [at |-> "off", left |-> autostart[p].left]
          BY <4>1
        <5>3. autostart' = [autostart EXCEPT ![p] = [at |-> "off", left |-> autostart[p].left]]
          BY <1>0, <5>1, <5>2
        <5>. QED BY <4>1, <5>3
      <4>4. CASE AutoFails(p)
        <5>1. autostart' = [autostart EXCEPT ![p] = [at |-> "look", left |-> autostart[p].left - 1]]
          BY <1>0, <4>4 DEF AutoFails
        <5>2. autostart[p].left > 0
          BY <1>0, <4>4 DEF AutoFails, Counted
        <5>3. autostart[p].left - 1 \in 0..Retries
          BY <1>0, <4>1, <5>2
        <5>. QED BY <5>1, <5>3
      <4>. QED BY <1>8, <4>2, <4>3, <4>4
    <3>. DEFINE new == [at |-> at, left |-> n]
    <3>2. new \in AutoState /\ new.at = at /\ new.left = n
      BY DEF AutoState
    <3>3. autostart' = [autostart EXCEPT ![p] = new] /\ (new.at = "play" => new.left > 0)
      BY <3>1, <3>2
    <3>. HIDE DEF new
    <3>. QED BY <1>0, <3>2, <3>3 DEF Counted
  <2>4. AliveLoops' = AliveLoops
    BY <2>1 DEF othersOfAuto, AliveLoops
  <2>. QED BY <1>0, <2>1, <2>2, <2>3, <2>4, SpareKept DEF othersOfAuto, TypeInv, Typed, HistoryTyped
<1>9. CASE StartCut(p)
  <2>. DEFINE rec == [starter[p] EXCEPT !.at = "done", !.restart = FALSE]
  <2>1. /\ starter' = [starter EXCEPT ![p] = rec] /\ rec \in StartState /\ rec.at = "done" /\ rec.loop = starter[p].loop
    BY <1>0, <1>9 DEF StartCut, StartState
  <2>2. UNCHANGED <<world, tagMap, mapper, player, jukebox, jukePid, autostart, mixed>>
    BY <1>9 DEF StartCut
  <2>3. HistoryTyped'
    BY <1>0, <1>9 DEF StartCut, Loss, Typed, HistoryTyped
  <2>. HIDE DEF rec
  <2>6. /\ starter' \in [Procs -> StartState] /\ Waiting' \subseteq Waiting /\ BusyStarts' \subseteq BusyStarts
        /\ \A q \in Procs : starter'[q].loop = starter[q].loop
    BY <1>0, <2>1 DEF Waiting, BusyStarts, Active
  <2>7. TakenLoops' \subseteq TakenLoops
    BY <2>2, <2>6 DEF TakenLoops, Taken, BusyStarts
  <2>. QED BY <1>0, <2>2, <2>3, <2>6, <2>7, SpareStays DEF TypeInv, Typed, Counted
<1>. QED BY <1>2, <1>3, <1>4, <1>5, <1>6, <1>7, <1>8, <1>9 DEF StarterStep

(* What nq-nfc-map does to the rest: it moves, stops the jukebox or begins a start. *)
LEMMA MapperTyped ==
  ASSUME Typed, NEW m \in Mappers, MapperStep(m)
  PROVE  /\ \E rec \in MapState : mapper' = [mapper EXCEPT ![m] = rec]
         /\ tagMap' \in [Uids -> Stations \cup {NoStation}]
<1>. USE DEF Maps, MapGoto
<1>0. /\ mapper[m] \in MapState /\ mapper \in [Mappers -> MapState]
      /\ tagMap \in [Uids -> Stations \cup {NoStation}] /\ card \in Uids \cup {NoUid}
  BY DEF Typed
<1>1. ASSUME NEW at \in {"look", "stop", "rm", "scan", "rewrite", "install", "exit", "done"},
             mapper' = [mapper EXCEPT ![m].at = at]
      PROVE  \E rec \in MapState : mapper' = [mapper EXCEPT ![m] = rec]
  <2>. DEFINE rec == [mapper[m] EXCEPT !.at = at]
  <2>1. rec \in MapState /\ mapper' = [mapper EXCEPT ![m] = rec]
    BY <1>0, <1>1 DEF MapState
  <2>. QED BY <2>1
<1>2. ASSUME NEW at \in {"restart", "start", "exit", "done"}, NEW onExit \in {"off", "armed", "spent"},
             mapper' = [mapper EXCEPT ![m] = Past(m, at, onExit)]
      PROVE  \E rec \in MapState : mapper' = [mapper EXCEPT ![m] = rec]
  <2>1. Past(m, at, onExit) \in MapState
    BY <1>0 DEF Past, NoMap, MapState
  <2>. QED BY <1>2, <2>1
<1>11. mapper[m].onExit \in {"off", "armed", "spent"}
  BY <1>0 DEF MapState
<1>3. CASE MapBegins(m)
  <2>1. PICK opt \in {"auto", "0", "1"}, uid \in Uids \cup {NoUid}, station \in Stations \ {DefaultStation} :
          mapper' = [mapper EXCEPT ![m].at = "validate", ![m].opt = opt, ![m].uid = uid, ![m].station = station]
    BY <1>3 DEF MapBegins
  <2>. DEFINE rec == [mapper[m] EXCEPT !.at = "validate", !.opt = opt, !.uid = uid, !.station = station]
  <2>2. rec \in MapState
    BY <1>0 DEF MapState
  <2>3. mapper' = [mapper EXCEPT ![m] = rec]
    BY <1>0, <2>1
  <2>. QED BY <1>0, <1>3, <2>2, <2>3 DEF MapBegins
<1>4. CASE LookAtJukebox(m)
  <2>1. PICK was \in BOOLEAN, onExit \in {"off", "armed", "spent"} :
          mapper' = [mapper EXCEPT ![m].at = "stop", ![m].was = was, ![m].onExit = onExit]
    <3>1. Running \in BOOLEAN
      BY DEF Running
    <3>. QED BY <1>4, <3>1 DEF LookAtJukebox
  <2>. DEFINE rec == [mapper[m] EXCEPT !.at = "stop", !.was = was, !.onExit = onExit]
  <2>2. rec \in MapState
    BY <1>0 DEF MapState
  <2>3. mapper' = [mapper EXCEPT ![m] = rec]
    BY <1>0, <2>1
  <2>. QED BY <1>0, <1>4, <2>2, <2>3 DEF LookAtJukebox
<1>5. CASE MapScans(m)
  <2>1. PICK uid \in Uids \cup {NoUid}, at \in {"exit", "rewrite"} :
          mapper' = [mapper EXCEPT ![m].uid = uid, ![m].at = at]
    BY <1>5 DEF MapScans
  <2>. DEFINE rec == [mapper[m] EXCEPT !.uid = uid, !.at = at]
  <2>2. rec \in MapState
    BY <1>0 DEF MapState
  <2>3. mapper' = [mapper EXCEPT ![m] = rec]
    BY <1>0, <2>1
  <2>. QED BY <1>0, <1>5, <2>2, <2>3 DEF MapScans
<1>6. CASE RewriteMap(m)
  <2>1. CASE mapper' = [mapper EXCEPT ![m].at = "install", ![m].draft = Rewrite(m)]
    <3>. DEFINE rec == [mapper[m] EXCEPT !.at = "install", !.draft = Rewrite(m)]
    <3>1. Rewrite(m) \in [Uids -> Stations \cup {NoStation}]
      BY <1>0 DEF Rewrite, MapState
    <3>2. rec \in MapState
      BY <1>0, <3>1 DEF MapState
    <3>3. mapper' = [mapper EXCEPT ![m] = rec]
      BY <1>0, <2>1
    <3>. QED BY <1>0, <1>6, <3>2, <3>3 DEF RewriteMap
  <2>. QED BY <1>0, <1>1, <1>6, <2>1 DEF RewriteMap
<1>7. CASE InstallMap(m)
  <2>1. tagMap' \in [Uids -> Stations \cup {NoStation}]
    BY <1>0, <1>7 DEF InstallMap, MapState
  <2>. QED BY <1>1, <1>2, <1>7, <1>11, <2>1 DEF InstallMap
<1>8. CASE Validate(m) \/ StopJukebox(m) \/ StopJukeboxRm(m)
  <2>1. PICK at \in {"look", "rewrite", "done", "rm", "scan"} : mapper' = [mapper EXCEPT ![m].at = at]
    BY <1>8 DEF Validate, StopJukebox, StopJukeboxRm
  <2>. QED BY <1>0, <1>1, <1>8, <2>1 DEF Validate, StopJukebox, StopJukeboxRm
<1>9. CASE RestartJukebox(m) \/ CleanUp(m) \/ TakeTrapsBack(m) \/ Killed(m)
  <2>1. PICK at, onExit :
          /\ at \in {"start", "exit", "done"} /\ onExit \in {"off", "armed", "spent"}
          /\ mapper' = [mapper EXCEPT ![m] = Past(m, at, onExit)]
    BY <1>9, <1>11 DEF RestartJukebox, CleanUp, TakeTrapsBack, Killed, Ended
  <2>. QED BY <1>0, <1>2, <1>9, <2>1 DEF RestartJukebox, CleanUp, TakeTrapsBack, Killed
<1>10. CASE Signal(m)
  <2>1. mapper' = [mapper EXCEPT ![m].onExit = "spent"]
    BY <1>10 DEF Signal
  <2>. DEFINE rec == [mapper[m] EXCEPT !.onExit = "spent"]
  <2>2. rec \in MapState
    BY <1>0 DEF MapState
  <2>3. mapper' = [mapper EXCEPT ![m] = rec]
    BY <1>0, <2>1
  <2>. QED BY <1>0, <1>10, <2>2, <2>3 DEF Signal
<1>. QED BY <1>3, <1>4, <1>5, <1>6, <1>7, <1>8, <1>9, <1>10 DEF MapperStep

LEMMA MapperKeepsTypes == ASSUME TypeInv, NEW m \in Mappers, MapperStep(m) PROVE TypeInv'
<1>. USE DEF othersOfMap, history
<1>0. Typed /\ Counted /\ Spare /\ m \in Procs
  BY DEF TypeInv, Procs
<1>1. mapper' \in [Mappers -> MapState] /\ tagMap' \in [Uids -> Stations \cup {NoStation}]
  BY <1>0, MapperTyped DEF Typed
<1>2. CASE StopJukebox(m)
  <2>1. KillJukebox /\ UNCHANGED <<card, phone, autostart, jukePid, starter>> /\ HistoryTyped'
    BY <1>0, <1>2 DEF StopJukebox, Typed, HistoryTyped
  <2>2. jukebox' \in [Loops -> LoopState] /\ player' \in PlayerState /\ AliveLoops' \subseteq AliveLoops
    BY <1>0, <2>1, KillTyped
  <2>. QED BY <1>0, <1>1, <2>1, <2>2, SpareKept DEF TypeInv, Typed, Counted, HistoryTyped
<1>3. CASE StopJukeboxRm(m)
  <2>1. jukePid' = Group /\ UNCHANGED <<card, phone, autostart, player, jukebox, starter, history>>
    BY <1>3 DEF StopJukeboxRm
  <2>2. Waiting' = Waiting /\ TakenLoops' \subseteq TakenLoops
    BY <2>1 DEF Waiting, TakenLoops, Taken, BusyStarts, Active
  <2>. QED BY <1>0, <1>1, <2>1, <2>2, SpareStays DEF TypeInv, Typed, Counted, HistoryTyped
<1>4. CASE /\ UNCHANGED <<card, phone, autostart, player, jukebox, jukePid>>
           /\ BeginStart(m, TRUE) /\ ~Active(m)
  <2>1. starter' \in [Procs -> StartState] /\ Spare' /\ HistoryTyped'
    BY <1>0, <1>4, StartFits DEF BeginStart, Typed, HistoryTyped
  <2>. QED BY <1>0, <1>1, <1>4, <2>1 DEF TypeInv, Typed, Counted, HistoryTyped
<1>5. CASE UNCHANGED <<card, phone, autostart, player, jukebox, jukePid, starter, history>>
  <2>1. AliveLoops' = AliveLoops
    BY <1>5 DEF AliveLoops
  <2>. QED BY <1>0, <1>1, <1>5, <2>1, SpareKept DEF TypeInv, Typed, Counted, HistoryTyped
<1>6. CASE \/ MapBegins(m) \/ Validate(m) \/ LookAtJukebox(m) \/ MapScans(m) \/ RewriteMap(m)
           \/ InstallMap(m) \/ TakeTrapsBack(m)
  BY <1>5, <1>6 DEF MapBegins, Validate, LookAtJukebox, MapScans, RewriteMap, InstallMap, TakeTrapsBack
<1>7. CASE RestartJukebox(m) \/ CleanUp(m) \/ Signal(m)
  BY <1>4, <1>5, <1>7 DEF RestartJukebox, CleanUp, Signal, Maps
<1>8. CASE Killed(m)
  <2>1. UNCHANGED <<card, phone, autostart, player, jukebox, jukePid, starter>> /\ HistoryTyped'
    BY <1>0, <1>8 DEF Killed, Typed, HistoryTyped
  <2>2. AliveLoops' = AliveLoops
    BY <2>1 DEF AliveLoops
  <2>. QED BY <1>0, <1>1, <2>1, <2>2, SpareKept DEF TypeInv, Typed, Counted
<1>. QED BY <1>2, <1>3, <1>6, <1>7, <1>8 DEF MapperStep

LEMMA TypeStep == TypeInv /\ [NfcNext]_nfcVars => TypeInv'
<1>. SUFFICES ASSUME TypeInv, [NfcNext]_nfcVars PROVE TypeInv'
  OBVIOUS
<1>. USE DEF history
<1>0. Typed /\ Counted /\ Spare
  BY DEF TypeInv
<1>1. ASSUME NEW p \in Starters, StartBegins(p) PROVE TypeInv'
  <2>1. PICK restart \in BOOLEAN : BeginStart(p, restart)
    BY <1>1 DEF StartBegins
  <2>2. /\ ~Active(p) /\ p \in Procs
        /\ UNCHANGED <<tagMap, card, phone, player, jukebox, jukePid, autostart, mapper>>
    BY <1>1 DEF StartBegins, Active, Procs, othersOfStarter, world
  <2>3. starter' \in [Procs -> StartState] /\ Spare' /\ HistoryTyped'
    BY <1>0, <2>1, <2>2, StartFits DEF BeginStart, Typed, HistoryTyped
  <2>. QED BY <1>0, <2>2, <2>3 DEF TypeInv, Typed, Counted, HistoryTyped
<1>2. CASE PhoneTakes \/ PhoneEnds \/ (\E u \in Uids \cup {NoUid} : PutCard(u)) \/ UNCHANGED nfcVars
  <2>1. /\ UNCHANGED <<tagMap, jukebox, jukePid, starter, autostart, mapper, history>>
        /\ card' \in Uids \cup {NoUid} /\ player' \in PlayerState
    BY <1>0, <1>2, SilenceType DEF PhoneTakes, PhoneEnds, PutCard, nfcVars, Typed
  <2>2. phone' \in PhoneState
    <3>1. phone \in PhoneState /\ MaxPhone \in Nat
      BY <1>0, NfcAssumption DEF Typed
    <3>2. CASE PhoneTakes
      <4>1. phone.left \in 0..MaxPhone /\ phone.left > 0
        BY <3>1, <3>2 DEF PhoneTakes, PhoneState
      <4>2. phone.left - 1 \in 0..MaxPhone
        BY <3>1, <4>1
      <4>. QED BY <3>2, <4>2 DEF PhoneTakes, PhoneState
    <3>3. CASE PhoneEnds
      BY <3>1, <3>3 DEF PhoneEnds, PhoneState
    <3>. QED BY <1>2, <3>1, <3>2, <3>3 DEF PutCard, nfcVars
  <2>3. AliveLoops' = AliveLoops
    BY <2>1 DEF AliveLoops
  <2>. QED BY <1>0, <2>1, <2>2, <2>3, SpareKept DEF TypeInv, Typed, Counted, HistoryTyped
<1>. QED BY <1>1, <1>2, LoopKeepsTypes, StarterKeepsTypes, MapperKeepsTypes DEF NfcNext

(* The programs of the NFC jukebox keep their records and files as they should be: nobody
   starts a loop under a pid that another loop, a file or a start still has, and the attempts
   of the autostart are counted down to 0 and no further. *)
THEOREM TypeCorrect == NfcSpec => []NfcTypeOK
<1>1. TypeInv => NfcTypeOK
  BY TypedIsTypeOK DEF TypeInv
<1>. QED BY <1>1, InitTyped, TypeStep, PTL DEF NfcSpec
-------------------------------------------------------------------------------
(* A jukebox is there, or a start is at work. *)
Kept == AliveLoops # {} \/ BusyStarts # {}

(* What a registration owes: the jukebox that ran when it looked. *)
Owes(rec) == rec.was /\ rec.opt # "0"

(* It looks before it stops; the trap stays set until the jukebox is started again; when the
   trap is spent, and after the run, there is a jukebox or a start. *)
Promise(rec, kept) ==
  /\ rec.at \in {"idle", "validate", "look"} => ~rec.was
  /\ rec.at \in {"stop", "rm"} /\ Owes(rec) => rec.onExit = "armed"
  /\ rec.at \in {"scan", "rewrite", "install", "restart", "exit"} /\ Owes(rec) =>
       rec.onExit = "armed" \/ kept
  /\ rec.at = "done" /\ Owes(rec) => kept

(* From the spawn to the end of a start the loop is there. *)
Spawned == \A p \in Procs : starter[p].at \in {"write", "verify"} => AliveLoops # {}

(* No start has run beside another one or beside a stop, and no signal has ended one for good. *)
Undisturbed == ~mixed /\ cut = {}

RestoreInv == Undisturbed => Spawned /\ \A m \in Mappers : Promise(mapper[m], Kept)

OneMapper == \A m, n \in Mappers : m = n

LEMMA InitRestore == NfcInit => RestoreInv
BY DEF NfcInit, RestoreInv, Spawned, Promise, Owes, NoStart, NoMap

(* A step that stops no loop and ends no start. *)
LEMMA RestoreStays ==
  ASSUME RestoreInv, Undisturbed' => Undisturbed, mapper' = mapper,
         Undisturbed' => (Kept => Kept') /\ Spawned'
  PROVE  RestoreInv'
BY DEF RestoreInv, Promise, Owes

LEMMA LoopRestores == ASSUME TypeInv, JukeInv, RestoreInv, NEW l \in Loops, JukeboxStep(l) PROVE RestoreInv'
<1>1. PICK loop \in LoopState : Only(l, loop) /\ loop.alive
  BY LoopTyped DEF TypeInv
<1>2. jukebox[l].alive /\ UNCHANGED othersOfJukebox
  BY LoopTyped DEF TypeInv
<1>3. DOMAIN loop = LoopFields
  BY DEF LoopState, LoopFields
<1>4. AliveLoops' = AliveLoops
  BY <1>1, <1>2, <1>3, LoopGoesOn DEF JukeInv
<1>5. Kept' = Kept /\ Spawned' = Spawned
  BY <1>2, <1>4 DEF Kept, Spawned, BusyStarts, Active, othersOfJukebox
<1>. QED BY <1>2, <1>5, RestoreStays DEF othersOfJukebox, RestoreInv, Undisturbed, history

(* A start that goes on is at work; one that ends leaves a loop. *)
LEMMA StartRestores ==
  ASSUME TypeInv, JukeInv, RestoreInv, NEW p \in Procs, Active(p), NEW rec,
         starter' = [starter EXCEPT ![p] = rec], UNCHANGED mapper, Undisturbed' => Undisturbed,
         Undisturbed' =>
           /\ rec.at \in {"write", "verify"} => AliveLoops' # {}
           /\ rec.at \in {"idle", "done"} => AliveLoops' # {}
  PROVE  RestoreInv'
<1>1. starter'[p] = rec /\ \A q \in Procs \ {p} : starter'[q] = starter[q]
  BY DEF TypeInv, Typed
<1>2. ASSUME Undisturbed' PROVE Spawned' /\ Kept'
  <2>1. \A q \in Procs \ {p} : starter[q].at \in {"idle", "done"}
    BY <1>2 DEF JukeInv, Alone, Active, Orderly, Undisturbed
  <2>2. Spawned'
    BY <1>1, <1>2, <2>1 DEF Spawned
  <2>3. Kept'
    BY <1>1, <1>2 DEF Kept, BusyStarts, Active
  <2>. QED BY <2>2, <2>3
<1>. QED BY <1>2, RestoreStays

LEMMA StarterRestores ==
  ASSUME TypeInv, JukeInv, RestoreInv, NEW p \in Procs, StarterStep(p) PROVE RestoreInv'
<1>. USE DEF Active, othersOfStarter, StartGoto, history, Undisturbed
<1>0. starter[p] \in StartState /\ starter \in [Procs -> StartState]
  BY DEF TypeInv, Typed
<1>1. ASSUME NEW at, starter' = [starter EXCEPT ![p].at = at]
      PROVE  /\ starter' = [starter EXCEPT ![p] = [starter[p] EXCEPT !.at = at]]
             /\ [starter[p] EXCEPT !.at = at].at = at
  BY <1>0, <1>1 DEF StartState
<1>2. CASE TestPid(p)
  <2>. DEFINE at == IF Running THEN "done" ELSE "spawn"
  <2>1. /\ starter[p].at = "test" /\ starter' = [starter EXCEPT ![p].at = at]
        /\ UNCHANGED <<jukebox, mapper, history>> /\ AliveLoops' = AliveLoops
    BY <1>2 DEF TestPid, AliveLoops
  <2>2. Running => AliveLoops # {}
    BY DEF Running, AliveLoops, TypeInv, Typed
  <2>3. at \in {"write", "verify", "idle", "done"} => AliveLoops' # {}
    BY <2>1, <2>2
  <2>. HIDE DEF at
  <2>. QED BY <1>1, <2>1, <2>3, StartRestores
<1>3. CASE StopOld(p)
  <2>. DEFINE at == IF jukePid = Group THEN "spawn" ELSE "rm"
  <2>1. starter[p].at = "test" /\ starter' = [starter EXCEPT ![p].at = at] /\ UNCHANGED <<mapper, history>>
    BY <1>3 DEF StopOld
  <2>2. at \in {"spawn", "rm"}
    OBVIOUS
  <2>. HIDE DEF at
  <2>. QED BY <1>1, <2>1, <2>2, StartRestores
<1>4. CASE StopOldRm(p)
  <2>1. starter[p].at = "rm" /\ starter' = [starter EXCEPT ![p].at = "spawn"] /\ UNCHANGED <<mapper, history>>
    BY <1>4 DEF StopOldRm
  <2>. QED BY <1>1, <2>1, StartRestores
<1>5. CASE Spawn(p)
  <2>1. /\ NewLoop \in Loops /\ jukebox'[NewLoop].alive
        /\ \E l : starter' = [starter EXCEPT ![p].at = "write", ![p].loop = l]
        /\ starter[p].at = "spawn" /\ UNCHANGED <<mapper, history>>
    BY <1>5, SpawnFits DEF TypeInv, Spawn
  <2>2. PICK l : starter' = [starter EXCEPT ![p].at = "write", ![p].loop = l]
    BY <2>1
  <2>3. AliveLoops' # {}
    BY <2>1 DEF AliveLoops
  <2>. DEFINE rec == [starter[p] EXCEPT !.at = "write", !.loop = l]
  <2>4. starter' = [starter EXCEPT ![p] = rec]
    BY <1>0, <2>2
  <2>. HIDE DEF rec
  <2>. QED BY <2>1, <2>3, <2>4, StartRestores
<1>6. CASE WriteJukePid(p)
  <2>1. /\ starter[p].at = "write" /\ starter' = [starter EXCEPT ![p].at = "verify"]
        /\ UNCHANGED <<jukebox, mapper, history>> /\ AliveLoops' = AliveLoops
    BY <1>6 DEF WriteJukePid, AliveLoops
  <2>2. Undisturbed => AliveLoops' # {}
    BY <2>1 DEF RestoreInv, Spawned
  <2>. QED BY <1>1, <2>1, <2>2, StartRestores
<1>7. CASE StartDone(p)
  <2>1. /\ starter[p].at = "verify" /\ UNCHANGED <<jukebox, mapper, history>> /\ AliveLoops' = AliveLoops
        /\ starter' = [starter EXCEPT ![p].at = "done", ![p].restart = FALSE]
    BY <1>7 DEF StartDone, AliveLoops
  <2>2. Undisturbed => AliveLoops' # {}
    BY <2>1 DEF RestoreInv, Spawned
  <2>. DEFINE rec == [starter[p] EXCEPT !.at = "done", !.restart = FALSE]
  <2>3. starter' = [starter EXCEPT ![p] = rec]
    BY <1>0, <2>1
  <2>. HIDE DEF rec
  <2>. QED BY <2>1, <2>2, <2>3, StartRestores
<1>8. CASE AutoLook(p) \/ AutoPlays(p) \/ AutoFails(p)
  <2>1. UNCHANGED <<jukebox, starter, mapper, history>>
    BY <1>8 DEF AutoLook, AutoPlays, AutoFails, othersOfAuto
  <2>2. Kept' = Kept /\ Spawned' = Spawned
    BY <2>1 DEF Kept, Spawned, AliveLoops, BusyStarts
  <2>. QED BY <2>1, <2>2, RestoreStays DEF RestoreInv
<1>9. CASE StartCut(p)
  <2>1. /\ Active(p) /\ UNCHANGED <<jukebox, mapper, mixed>> /\ AliveLoops' = AliveLoops
        /\ starter' = [starter EXCEPT ![p].at = "done", ![p].restart = FALSE]
        /\ cut' = cut \cup Loss(starter[p].at)
    BY <1>9 DEF StartCut, AliveLoops
  <2>2. ASSUME Undisturbed' PROVE Undisturbed /\ AliveLoops' # {}
    <3>1. starter[p].at \in {"idle", "test", "rm", "spawn", "write", "verify", "done"}
      BY <1>0 DEF StartState
    <3>2. Undisturbed /\ starter[p].at = "verify"
      BY <2>1, <2>2, <3>1 DEF Loss
    <3>. QED BY <2>1, <3>2 DEF RestoreInv, Spawned
  <2>. DEFINE rec == [starter[p] EXCEPT !.at = "done", !.restart = FALSE]
  <2>3. starter' = [starter EXCEPT ![p] = rec] /\ rec.at = "done"
    BY <1>0, <2>1 DEF StartState
  <2>. HIDE DEF rec
  <2>. QED BY <2>1, <2>2, <2>3, StartRestores
<1>. QED BY <1>2, <1>3, <1>4, <1>5, <1>6, <1>7, <1>8, <1>9 DEF StarterStep

(* A start that begins is at work, and ends nothing. *)
LEMMA BeginKeeps ==
  ASSUME TypeInv, NEW p \in Procs, NEW restart \in BOOLEAN, BeginStart(p, restart), UNCHANGED jukebox
  PROVE  Kept' /\ (Spawned => Spawned') /\ (Undisturbed' => Undisturbed /\ ~MixesStarts(p))
<1>. DEFINE rec == [NoStart EXCEPT !.at = "test", !.restart = restart]
<1>1. rec.at = "test"
  BY DEF NoStart
<1>2. starter' = [starter EXCEPT ![p] = rec] /\ (Undisturbed' => Undisturbed /\ ~MixesStarts(p))
  BY DEF BeginStart, Undisturbed
<1>. HIDE DEF rec
<1>3. starter'[p] = rec /\ \A q \in Procs \ {p} : starter'[q] = starter[q]
  BY <1>2 DEF TypeInv, Typed
<1>. QED BY <1>1, <1>2, <1>3 DEF Kept, BusyStarts, Active, Spawned, AliveLoops

(* A step of the only registration. *)
LEMMA MapRestores ==
  ASSUME OneMapper, RestoreInv, NEW m \in Mappers, NEW rec, mapper' = [mapper EXCEPT ![m] = rec],
         mapper \in [Mappers -> MapState],
         Undisturbed' => Undisturbed /\ Spawned' /\ Promise(rec, Kept')
  PROVE  RestoreInv'
<1>1. \A n \in Mappers : mapper'[n] = rec
  BY DEF OneMapper
<1>2. \A n \in Mappers : Promise(mapper'[n], Kept') <=> Promise(rec, Kept')
  BY <1>1
<1>. QED BY <1>2 DEF RestoreInv

LEMMA MapperRestores ==
  ASSUME OneMapper, TypeInv, RestoreInv, NEW m \in Mappers, MapperStep(m) PROVE RestoreInv'
<1>. USE DEF Maps, MapGoto, othersOfMap, history, Undisturbed
<1>0. mapper[m] \in MapState /\ mapper \in [Mappers -> MapState] /\ m \in Procs
  BY DEF TypeInv, Typed, Procs
<1>1. ASSUME NEW at, mapper' = [mapper EXCEPT ![m].at = at]
      PROVE  \E rec : /\ mapper' = [mapper EXCEPT ![m] = rec] /\ rec.at = at
                      /\ rec.was = mapper[m].was /\ rec.opt = mapper[m].opt /\ rec.onExit = mapper[m].onExit
  <2>. DEFINE rec == [mapper[m] EXCEPT !.at = at]
  <2>1. mapper' = [mapper EXCEPT ![m] = rec]
    BY <1>0, <1>1
  <2>2. rec.at = at /\ rec.was = mapper[m].was /\ rec.opt = mapper[m].opt /\ rec.onExit = mapper[m].onExit
    BY <1>0 DEF MapState
  <2>. HIDE DEF rec
  <2>. QED BY <2>1, <2>2
<1>2. Undisturbed => Spawned /\ Promise(mapper[m], Kept)
  BY DEF RestoreInv
<1>3. ASSUME UNCHANGED <<jukebox, starter, history>> PROVE Kept' = Kept /\ Spawned' = Spawned
  BY <1>3 DEF Kept, Spawned, AliveLoops, BusyStarts, Active
<1>4. CASE MapBegins(m)
  <2>1. PICK opt, uid, station :
          mapper' = [mapper EXCEPT ![m].at = "validate", ![m].opt = opt, ![m].uid = uid, ![m].station = station]
    BY <1>4 DEF MapBegins
  <2>. DEFINE rec == [mapper[m] EXCEPT !.at = "validate", !.opt = opt, !.uid = uid, !.station = station]
  <2>2. mapper' = [mapper EXCEPT ![m] = rec] /\ rec.at = "validate" /\ rec.was = mapper[m].was
    BY <1>0, <2>1 DEF MapState
  <2>3. mapper[m].at = "idle" /\ UNCHANGED <<jukebox, starter, history>>
    BY <1>4 DEF MapBegins
  <2>. HIDE DEF rec
  <2>4. Undisturbed => Promise(rec, Kept')
    BY <1>2, <2>2, <2>3 DEF Promise
  <2>. QED BY <1>0, <1>2, <1>3, <2>2, <2>3, <2>4, MapRestores
<1>5. CASE Validate(m)
  <2>1. PICK at \in {"look", "rewrite", "done"} : mapper' = [mapper EXCEPT ![m].at = at]
    BY <1>5 DEF Validate
  <2>2. mapper[m].at = "validate" /\ UNCHANGED <<jukebox, starter, history>>
    BY <1>5 DEF Validate
  <2>3. PICK rec : /\ mapper' = [mapper EXCEPT ![m] = rec] /\ rec.at = at
                   /\ rec.was = mapper[m].was /\ rec.opt = mapper[m].opt /\ rec.onExit = mapper[m].onExit
    BY <1>1, <2>1
  <2>4. Undisturbed => Promise(rec, Kept')
    BY <1>2, <2>2, <2>3 DEF Promise, Owes
  <2>. QED BY <1>0, <1>2, <1>3, <2>2, <2>3, <2>4, MapRestores
<1>6. CASE LookAtJukebox(m)
  <2>. DEFINE rec == [mapper[m] EXCEPT !.at = "stop", !.was = Running,
                                  !.onExit = IF Running /\ mapper[m].opt # "0" THEN "armed" ELSE "off"]
  <2>1. mapper' = [mapper EXCEPT ![m] = rec]
    BY <1>0, <1>6 DEF LookAtJukebox
  <2>2. rec.at = "stop" /\ rec.was = Running /\ rec.opt = mapper[m].opt /\ (rec.was /\ rec.opt # "0" => rec.onExit = "armed")
    BY <1>0 DEF MapState
  <2>3. UNCHANGED <<jukebox, starter, history>>
    BY <1>6 DEF LookAtJukebox
  <2>. HIDE DEF rec
  <2>4. Promise(rec, Kept')
    BY <2>2 DEF Promise, Owes
  <2>. QED BY <1>0, <1>2, <1>3, <2>1, <2>3, <2>4, MapRestores
<1>7. CASE StopJukebox(m)
  <2>. DEFINE at == IF Running THEN "rm" ELSE "scan"
  <2>1. /\ mapper[m].at = "stop" /\ mapper' = [mapper EXCEPT ![m].at = at]
        /\ mixed' = (mixed \/ BusyStarts # {}) /\ UNCHANGED <<starter, cut>> /\ at \in {"rm", "scan"}
    BY <1>7 DEF StopJukebox
  <2>. HIDE DEF at
  <2>2. PICK rec : /\ mapper' = [mapper EXCEPT ![m] = rec] /\ rec.at = at
                   /\ rec.was = mapper[m].was /\ rec.opt = mapper[m].opt /\ rec.onExit = mapper[m].onExit
    BY <1>1, <2>1
  <2>3. ASSUME Undisturbed' PROVE Undisturbed /\ Spawned' /\ Promise(rec, Kept')
    <3>1. Undisturbed /\ \A p \in Procs : ~Active(p)
      BY <2>1, <2>3 DEF BusyStarts
    <3>2. Spawned'
      BY <2>1, <3>1 DEF Spawned, Active
    <3>3. Promise(rec, Kept')
      BY <1>2, <2>1, <2>2, <3>1 DEF Promise, Owes
    <3>. QED BY <3>1, <3>2, <3>3
  <2>. QED BY <1>0, <2>2, <2>3, MapRestores
<1>8. CASE StopJukeboxRm(m)
  <2>1. mapper[m].at = "rm" /\ mapper' = [mapper EXCEPT ![m].at = "scan"] /\ UNCHANGED <<jukebox, starter, history>>
    BY <1>8 DEF StopJukeboxRm
  <2>0. mapper' = [mapper EXCEPT ![m].at = "scan"]
    BY <2>1
  <2>2. PICK rec : /\ mapper' = [mapper EXCEPT ![m] = rec] /\ rec.at = "scan"
                   /\ rec.was = mapper[m].was /\ rec.opt = mapper[m].opt /\ rec.onExit = mapper[m].onExit
    BY <1>1, <2>0
  <2>3. Undisturbed => Promise(rec, Kept')
    BY <1>2, <2>1, <2>2 DEF Promise, Owes
  <2>. QED BY <1>0, <1>2, <1>3, <2>1, <2>2, <2>3, MapRestores
<1>9. CASE MapScans(m)
  <2>1. PICK uid : mapper' = [mapper EXCEPT ![m].uid = uid,
                                            ![m].at = IF uid = NoUid THEN "exit" ELSE "rewrite"]
    BY <1>9 DEF MapScans
  <2>. DEFINE rec == [mapper[m] EXCEPT !.uid = uid, !.at = IF uid = NoUid THEN "exit" ELSE "rewrite"]
  <2>2. mapper[m].at = "scan" /\ UNCHANGED <<jukebox, starter, history>>
    BY <1>9 DEF MapScans
  <2>3. mapper' = [mapper EXCEPT ![m] = rec]
    BY <1>0, <2>1
  <2>4. /\ rec.at \in {"exit", "rewrite"}
        /\ rec.was = mapper[m].was /\ rec.opt = mapper[m].opt /\ rec.onExit = mapper[m].onExit
    BY <1>0 DEF MapState
  <2>. HIDE DEF rec
  <2>5. Undisturbed => Promise(rec, Kept')
    BY <1>2, <1>3, <2>2, <2>4 DEF Promise, Owes
  <2>. QED BY <1>0, <1>2, <1>3, <2>2, <2>3, <2>5, MapRestores
<1>10. CASE RewriteMap(m)
  <2>1. mapper[m].at = "rewrite" /\ UNCHANGED <<jukebox, starter, history>>
    BY <1>10 DEF RewriteMap
  <2>2. PICK rec : /\ mapper' = [mapper EXCEPT ![m] = rec] /\ rec.at \in {"install", "exit"}
                   /\ rec.was = mapper[m].was /\ rec.opt = mapper[m].opt /\ rec.onExit = mapper[m].onExit
    <3>1. CASE mapper' = [mapper EXCEPT ![m].at = "install", ![m].draft = Rewrite(m)]
      <4>. DEFINE rec == [mapper[m] EXCEPT !.at = "install", !.draft = Rewrite(m)]
      <4>1. mapper' = [mapper EXCEPT ![m] = rec]
        BY <1>0, <3>1
      <4>2. rec.at = "install" /\ rec.was = mapper[m].was /\ rec.opt = mapper[m].opt /\ rec.onExit = mapper[m].onExit
        BY <1>0 DEF MapState
      <4>. HIDE DEF rec
      <4>. QED BY <4>1, <4>2
    <3>2. CASE mapper' = [mapper EXCEPT ![m].at = "exit"]
      <4>1. PICK rec : /\ mapper' = [mapper EXCEPT ![m] = rec] /\ rec.at = "exit"
                       /\ rec.was = mapper[m].was /\ rec.opt = mapper[m].opt /\ rec.onExit = mapper[m].onExit
        BY <1>1, <3>2
      <4>. QED BY <4>1
    <3>. QED BY <1>10, <3>1, <3>2 DEF RewriteMap
  <2>3. Undisturbed => Promise(rec, Kept')
    BY <1>2, <1>3, <2>1, <2>2 DEF Promise, Owes
  <2>. QED BY <1>0, <1>2, <1>3, <2>1, <2>2, <2>3, MapRestores
<1>11. CASE InstallMap(m)
  <2>1. mapper[m].at = "install" /\ UNCHANGED <<jukebox, starter, history>>
    BY <1>11 DEF InstallMap
  <2>2. PICK rec : /\ mapper' = [mapper EXCEPT ![m] = rec] /\ rec.at \in {"restart", "exit"}
                   /\ rec.was = mapper[m].was /\ rec.opt = mapper[m].opt /\ rec.onExit = mapper[m].onExit
    <3>1. CASE mapper' = [mapper EXCEPT ![m] = Past(m, "restart", mapper[m].onExit)]
      <4>. DEFINE rec == Past(m, "restart", mapper[m].onExit)
      <4>1. mapper' = [mapper EXCEPT ![m] = rec]
        BY <3>1
      <4>2. /\ rec.at = "restart" /\ rec.was = mapper[m].was /\ rec.opt = mapper[m].opt
            /\ rec.onExit = mapper[m].onExit
        BY PastRecord
      <4>. HIDE DEF rec
      <4>. QED BY <4>1, <4>2
    <3>2. CASE mapper' = [mapper EXCEPT ![m].at = "exit"]
      <4>1. PICK rec : /\ mapper' = [mapper EXCEPT ![m] = rec] /\ rec.at = "exit"
                       /\ rec.was = mapper[m].was /\ rec.opt = mapper[m].opt /\ rec.onExit = mapper[m].onExit
        BY <1>1, <3>2
      <4>. QED BY <4>1
    <3>. QED BY <1>11, <3>1, <3>2 DEF InstallMap
  <2>3. Undisturbed => Promise(rec, Kept')
    BY <1>2, <1>3, <2>1, <2>2 DEF Promise, Owes
  <2>. QED BY <1>0, <1>2, <1>3, <2>1, <2>2, <2>3, MapRestores
<1>12. CASE RestartJukebox(m) \/ CleanUp(m)
  <2>. DEFINE rec == Ended(m)
  <2>1. /\ mapper' = [mapper EXCEPT ![m] = rec] /\ rec.at = "done"
        /\ rec.was = mapper[m].was /\ rec.opt = mapper[m].opt
    <3>1. mapper' = [mapper EXCEPT ![m] = rec]
      BY <1>12 DEF RestartJukebox, CleanUp
    <3>2. rec.at = "done" /\ rec.was = mapper[m].was /\ rec.opt = mapper[m].opt
      BY PastRecord DEF Ended
    <3>. QED BY <3>1, <3>2
  <2>. HIDE DEF rec
  <2>2. UNCHANGED jukebox
    BY <1>12 DEF RestartJukebox, CleanUp
  <2>3. ASSUME BeginStart(m, TRUE) PROVE RestoreInv'
    <3>1. Kept' /\ (Spawned => Spawned') /\ (Undisturbed' => Undisturbed)
      BY <1>0, <2>2, <2>3, BeginKeeps
    <3>2. Promise(rec, Kept')
      BY <2>1, <3>1 DEF Promise
    <3>. QED BY <1>0, <1>2, <2>1, <3>1, <3>2, MapRestores
  <2>4. ASSUME UNCHANGED <<starter, history>>, Undisturbed => (Owes(mapper[m]) => Kept) PROVE RestoreInv'
    <3>1. Kept' = Kept /\ Spawned' = Spawned
      BY <1>3, <2>2, <2>4
    <3>2. Undisturbed => Promise(rec, Kept')
      BY <2>1, <2>4, <3>1 DEF Promise, Owes
    <3>. QED BY <1>0, <1>2, <2>1, <2>4, <3>1, <3>2, MapRestores
  <2>5. CASE RestartJukebox(m)
    BY <2>3, <2>5 DEF RestartJukebox
  <2>6. CASE CleanUp(m)
    <3>1. Undisturbed => (Owes(mapper[m]) => mapper[m].onExit = "armed" \/ Kept)
      BY <1>2, <2>6 DEF CleanUp, Promise
    <3>. QED BY <2>3, <2>4, <2>6, <3>1 DEF CleanUp
  <2>. QED BY <1>12, <2>5, <2>6
<1>13. CASE Signal(m)
  <2>1. /\ mapper[m].onExit = "armed" /\ UNCHANGED jukebox /\ BeginStart(m, TRUE)
        /\ mapper' = [mapper EXCEPT ![m].onExit = "spent"]
    BY <1>13 DEF Signal
  <2>. DEFINE rec == [mapper[m] EXCEPT !.onExit = "spent"]
  <2>2. mapper' = [mapper EXCEPT ![m] = rec]
    BY <1>0, <2>1
  <2>3. rec.at = mapper[m].at /\ rec.was = mapper[m].was /\ rec.opt = mapper[m].opt
    BY <1>0 DEF MapState
  <2>. HIDE DEF rec
  <2>4. Kept' /\ (Spawned => Spawned') /\ (Undisturbed' => Undisturbed /\ ~MixesStarts(m))
    BY <1>0, <2>1, BeginKeeps
  <2>5. Undisturbed' => rec.at \notin {"stop", "rm"}
    BY <2>3, <2>4 DEF MixesStarts
  <2>6. Undisturbed' => Promise(rec, Kept')
    BY <1>2, <2>3, <2>4, <2>5 DEF Promise
  <2>. QED BY <1>0, <1>2, <2>2, <2>4, <2>6, MapRestores
<1>14. CASE TakeTrapsBack(m)
  <2>1. PICK rec : /\ mapper' = [mapper EXCEPT ![m] = rec]
                   /\ \/ rec.at = "start"
                      \/ /\ rec.at = "exit"
                         /\ rec.was = mapper[m].was /\ rec.opt = mapper[m].opt /\ rec.onExit = mapper[m].onExit
    <3>1. PICK at, onExit :
            /\ at = "start" \/ (at = "exit" /\ onExit = mapper[m].onExit)
            /\ mapper' = [mapper EXCEPT ![m] = Past(m, at, onExit)]
      BY <1>14 DEF TakeTrapsBack
    <3>. DEFINE rec == Past(m, at, onExit)
    <3>2. mapper' = [mapper EXCEPT ![m] = rec]
      BY <3>1
    <3>3. rec.at = at /\ rec.was = mapper[m].was /\ rec.opt = mapper[m].opt /\ rec.onExit = onExit
      BY PastRecord
    <3>. HIDE DEF rec
    <3>. QED BY <3>1, <3>2, <3>3
  <2>2. mapper[m].at = "restart" /\ UNCHANGED <<jukebox, starter, history>>
    BY <1>14 DEF TakeTrapsBack
  <2>3. Undisturbed => Promise(rec, Kept')
    BY <1>2, <1>3, <2>1, <2>2 DEF Promise, Owes
  <2>. QED BY <1>0, <1>2, <1>3, <2>1, <2>2, <2>3, MapRestores
<1>15. CASE Killed(m)
  <2>. DEFINE rec == Ended(m)
  <2>1. /\ mapper' = [mapper EXCEPT ![m] = rec] /\ rec.at = "done"
        /\ rec.was = mapper[m].was /\ rec.opt = mapper[m].opt
    <3>1. mapper' = [mapper EXCEPT ![m] = rec]
      BY <1>15 DEF Killed
    <3>2. rec.at = "done" /\ rec.was = mapper[m].was /\ rec.opt = mapper[m].opt
      BY PastRecord DEF Ended
    <3>. QED BY <3>1, <3>2
  <2>. HIDE DEF rec
  <2>2. /\ UNCHANGED <<jukebox, starter, mixed>>
        /\ cut' = IF mapper[m].was /\ ~Active(m) THEN cut \cup {Unstarted} ELSE cut
    BY <1>15 DEF Killed
  <2>3. Kept' = Kept /\ Spawned' = Spawned
    BY <2>2 DEF Kept, Spawned, AliveLoops, BusyStarts, Active
  <2>4. ASSUME Undisturbed' PROVE Undisturbed /\ Promise(rec, Kept')
    <3>1. Undisturbed /\ (mapper[m].was => Active(m))
      BY <2>2, <2>4
    <3>2. Active(m) => Kept
      BY <1>0 DEF Kept, BusyStarts
    <3>. QED BY <2>1, <2>3, <3>1, <3>2 DEF Promise, Owes
  <2>. QED BY <1>0, <1>2, <2>1, <2>3, <2>4, MapRestores
<1>. QED BY <1>4, <1>5, <1>6, <1>7, <1>8, <1>9, <1>10, <1>11, <1>12, <1>13, <1>14, <1>15 DEF MapperStep

LEMMA RestoreStep == OneMapper /\ TypeInv /\ JukeInv /\ RestoreInv /\ [NfcNext]_nfcVars => RestoreInv'
<1>. SUFFICES ASSUME OneMapper, TypeInv, JukeInv, RestoreInv, [NfcNext]_nfcVars PROVE RestoreInv'
  OBVIOUS
<1>. USE DEF history, Undisturbed
<1>1. ASSUME NEW p \in Starters, StartBegins(p) PROVE RestoreInv'
  <2>1. PICK restart \in BOOLEAN : BeginStart(p, restart)
    BY <1>1 DEF StartBegins
  <2>2. p \in Procs /\ UNCHANGED <<jukebox, mapper>>
    BY <1>1 DEF StartBegins, Procs, othersOfStarter
  <2>3. Kept' /\ (Spawned => Spawned') /\ (Undisturbed' => Undisturbed)
    BY <2>1, <2>2, BeginKeeps
  <2>. QED BY <2>2, <2>3 DEF RestoreInv, Promise
<1>2. CASE PhoneTakes \/ PhoneEnds \/ (\E u \in Uids \cup {NoUid} : PutCard(u)) \/ UNCHANGED nfcVars
  <2>1. UNCHANGED <<jukebox, starter, mapper, history>>
    BY <1>2 DEF PhoneTakes, PhoneEnds, PutCard, nfcVars
  <2>2. Kept' = Kept /\ Spawned' = Spawned
    BY <2>1 DEF Kept, Spawned, AliveLoops, BusyStarts, Active
  <2>. QED BY <2>1, <2>2, RestoreStays DEF RestoreInv
<1>. QED BY <1>1, <1>2, LoopRestores, StarterRestores, MapperRestores DEF NfcNext

(* The jukebox that a registration has stopped is there again or being started when the run is
   over, after any step of it has failed and after a signal that its trap catches, with any
   number of starts beside it that do not overlap, until a signal ends a start before its loop
   is in the pid file or the registration where no trap is set for it. For one registration: a
   second one, between its look and its stop, may stop for good what the first has restarted. *)
THEOREM JukeboxComesBack == OneMapper /\ NfcSpec => []JukeboxRestored
<1>1. RestoreInv => JukeboxRestored
  BY DEF RestoreInv, Promise, Owes, Kept, JukeboxRestored, Undisturbed
<1>2. SUFFICES ASSUME OneMapper PROVE NfcSpec => []JukeboxRestored
  BY <1>2
<1>3. TypeInv /\ JukeInv /\ RestoreInv /\ [NfcNext]_nfcVars => (TypeInv /\ JukeInv /\ RestoreInv)'
  BY <1>2, TypeStep, JukeStep, RestoreStep
<1>. QED BY <1>1, <1>3, InitTyped, InitJuke, InitRestore, PTL DEF NfcSpec
================================================================================
