----------------------------- MODULE MCAppliance -----------------------------
(* The programs around the players, one of them per behaviour: `which' names the one that
   runs, and the others stay as they were.  They share no state that a property is about;
   one instance keeps their checks together. *)
EXTENDS Services, AdbdStart, Boot, Network, BluetoothPlayer, RootfsBuild

CONSTANTS pa, pb, vi, no    \* two packages, a virtual name, a name nobody provides

VARIABLE which

all == <<which, svcVars, adbdVars, bootVars, netVars, btVars, buildVars>>

MCNames == {pa, pb, vi, no}
MCGroups == {<<pb>>, <<vi>>, <<no>>, <<no, vi>>, <<vi, pa>>}
MCDeps == {<<>>} \cup {<<g>> : g \in MCGroups} \cup {<<<<vi>>, <<pa>>>>, <<<<no>>, <<pb>>>>}
MCIndexes ==
  {[packages |-> {pa, pb},
    provides |-> [n \in MCNames |-> IF n = vi THEN pr ELSE <<>>],
    deps |-> [n \in MCNames |-> IF n = pa THEN da ELSE IF n = pb THEN db ELSE <<>>]] :
     pr \in {<<>>, <<pb, pa>>}, da \in MCDeps, db \in {<<>>, <<<<pa>>>>, <<<<vi>>>>}}
MCRequests == {<<pa>>, <<vi, pb>>, <<no, pa>>}

(* Network is run by halves, whose product is large: runs of nq-start-network beside
   nq-provision in one boot, and nq-provision with its disk over many boots. *)
OneBoot == ProvStep \/ (\E r \in NetRuns : NetStep(r)) \/ WpaGone
ManyBoots == (ProvStep /\ UNCHANGED netRun) \/ (\E f \in Files : WriteBack(f)) \/ PowerCut

ApplianceInit ==
  /\ which \in {"services", "adbd", "boot", "network", "files", "phones", "build"}
  /\ SvcInit /\ AdbdInit /\ BootInit /\ NetInit /\ BtInit /\ BuildInit

ApplianceNext ==
  /\ UNCHANGED which
  /\ \/ /\ which = "services" /\ SvcNext
        /\ UNCHANGED <<adbdVars, bootVars, netVars, btVars, buildVars>>
     \/ /\ which = "adbd" /\ AdbdNext
        /\ UNCHANGED <<svcVars, bootVars, netVars, btVars, buildVars>>
     \/ /\ which = "boot" /\ BootNext
        /\ UNCHANGED <<svcVars, adbdVars, netVars, btVars, buildVars>>
     \/ /\ \/ which = "network" /\ OneBoot
           \/ which = "files" /\ ManyBoots
        /\ UNCHANGED <<svcVars, adbdVars, bootVars, btVars, buildVars>>
     \/ /\ which = "phones" /\ BtNext
        /\ UNCHANGED <<svcVars, adbdVars, bootVars, netVars, buildVars>>
     \/ /\ which = "build" /\ BuildNext
        /\ UNCHANGED <<svcVars, adbdVars, bootVars, netVars, btVars>>

(* AdbdFairness and BootFairness, of the program that runs; the steps of the others are
   disabled. *)
ApplianceFairness ==
  /\ \A s \in AdbStarts : WF_adbdVars(which = "adbd" /\ AdbStartStep(s))
  /\ WF_bootVars(which = "boot" /\ FallbackStage)
  /\ WF_bootVars(which = "boot" /\ leaving = LastResort /\ Reboots)

ApplianceSpec == ApplianceInit /\ [][ApplianceNext]_all /\ ApplianceFairness

(* The type invariants of the programs. *)
TypesOK ==
  /\ SvcTypeOK /\ AdbdTypeOK /\ BootTypeOK /\ NetTypeOK /\ BtTypeOK /\ BuildTypeOK
===============================================================================
