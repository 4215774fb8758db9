------------------------------- MODULE Network -------------------------------
(***************************************************************************)
(* nq-provision, which installs the files of a device, and                 *)
(* nq-start-network, which brings up Wi-Fi with them and restarts SSH:     *)
(* run by nq-init, by nq-provision and by hand, from the USB shell or from *)
(* a terminal of the SSH server it restarts.  The power may go at any      *)
(* step.  Nothing here calls sync: the root is a plain ext4, which writes  *)
(* a file out when it likes, and what it had not written out is lost.      *)
(***************************************************************************)
EXTENDS Naturals, FiniteSets

CONSTANT LastNetRun    \* bound on the runs of nq-start-network per boot

ASSUME NetworkAssumption == LastNetRun \in Nat

NetRuns == 1..LastNetRun    \* in the order in which they begin

Files == {"wifi", "keys"}    \* of the eight files of nq-provision
Contents == {"none", "part", "new"}

VARIABLES
  conf,      \* /etc/nexusq: each file: none, part of it, or whole (new)
  disk,      \* what the medium holds of each
  loose,     \* files that were put in the place of none and may not be written out yet
  torn,      \* history: loose files that a power cut has caught, until the medium holds another
  prov,      \* nq-provision: where, what to clear and to copy, the temporary file
  netRun,    \* each run: where, and whether an SSH terminal is its terminal
  firmware,  \* /lib/firmware/brcm
  wlan,      \* wlan0 is there
  wpa,       \* wpa_supplicant: none, up, dying
  online,    \* wlan0 has an address
  clockSet,  \* the clock is plausible
  rootKeys,  \* /root/.ssh/authorized_keys
  dropbear   \* the SSH server listens

netVars == <<conf, disk, loose, torn, prov, netRun, firmware, wlan, wpa, online, clockSet, rootKeys, dropbear>>

NoProv == [at |-> "idle", clear |-> {}, copy |-> {}, tmp |-> "none"]
ProvOver == [NoProv EXCEPT !.at = "done"]
NetIdle == [r \in NetRuns |-> [at |-> "idle", ssh |-> FALSE]]

NetInit ==
  /\ conf = [f \in Files |-> "none"] /\ disk = conf /\ loose = {} /\ torn = {}
  /\ prov = NoProv /\ netRun = NetIdle
  /\ firmware = "none" /\ wlan = FALSE /\ wpa = "none" /\ online = FALSE /\ clockSet = FALSE
  /\ rootKeys = "none" /\ dropbear = FALSE

radio == <<firmware, wlan, wpa, online, clockSet>>
medium == <<disk, loose, torn>>
files == <<conf, medium>>
-------------------------------------------------------------------------------
(* nq-provision, one run of it per boot. *)

ProvBegins ==
  /\ prov.at = "idle"
  /\ \E clear, copy \in SUBSET Files :
       prov' = [NoProv EXCEPT !.at = "clear", !.clear = clear, !.copy = copy]
  /\ UNCHANGED <<files, netRun, radio, rootKeys, dropbear>>

Clear ==
  /\ prov.at = "clear"
  /\ IF prov.clear = {} THEN prov' = [prov EXCEPT !.at = "copy"] /\ UNCHANGED conf
     ELSE \E f \in prov.clear :
            conf' = [conf EXCEPT ![f] = "none"] /\ prov' = [prov EXCEPT !.clear = @ \ {f}]
  /\ UNCHANGED <<medium, netRun, radio, rootKeys, dropbear>>

(* Mutant of CopyTmp: the file is copied to its own name. *)
CopyInPlace ==
  /\ prov.at = "copy" /\ prov.tmp \in {"none", "part"}
  /\ \E f \in prov.copy :
       /\ prov' = [prov EXCEPT !.tmp = IF @ = "none" THEN "part" ELSE "new"]
       /\ conf' = [conf EXCEPT ![f] = prov'.tmp]
  /\ UNCHANGED <<medium, netRun, radio, rootKeys, dropbear>>

(* copy_secret: the copy under another name ... *)
CopyTmp ==
  /\ prov.at = "copy" /\ prov.copy # {} /\ prov.tmp \in {"none", "part"}
  /\ prov' = [prov EXCEPT !.tmp = IF @ = "none" THEN "part" ELSE "new"]
  /\ UNCHANGED <<files, netRun, radio, rootKeys, dropbear>>

(* ... and the move. ext4 writes out a file that takes the place of another one before its
   name, and gives a new name to a file that is not written out. *)
Install ==
  /\ prov.at = "copy" /\ prov.tmp = "new"
  /\ \E f \in prov.copy :
       /\ conf' = [conf EXCEPT ![f] = prov.tmp]
       /\ loose' = IF conf[f] = "none" THEN loose \cup {f} ELSE loose
       /\ prov' = [prov EXCEPT !.copy = @ \ {f}, !.tmp = "none"]
  /\ UNCHANGED <<disk, torn, netRun, radio, rootKeys, dropbear>>

(* A source that is missing or empty, a copy or a move that fails: the rest is left undone. *)
ProvDies ==
  /\ prov.at = "copy" /\ prov.copy # {} /\ prov' = ProvOver
  /\ UNCHANGED <<files, netRun, radio, rootKeys, dropbear>>

NetBegins(r, ssh) == netRun' = [netRun EXCEPT ![r] = [at |-> "wifi", ssh |-> ssh]]
NetAt(r, at) == netRun[r].at = at
NetGoto(r, at) == netRun' = [netRun EXCEPT ![r].at = at]
IsNext(r) == NetAt(r, "idle") /\ \A q \in 1..(r - 1) : ~NetAt(q, "idle")
NetBusy == \E r \in NetRuns : netRun[r].at \notin {"idle", "done", "hung up"}

(* All is installed: --start-network, or the end. *)
ProvDone ==
  /\ prov.at = "copy" /\ prov.copy = {} /\ prov' = ProvOver
  /\ \/ \E r \in NetRuns, ssh \in {FALSE, dropbear} : IsNext(r) /\ NetBegins(r, ssh)
     \/ UNCHANGED netRun
  /\ UNCHANGED <<files, radio, rootKeys, dropbear>>
-------------------------------------------------------------------------------
(* nq-start-network: by nq-init when there is a Wi-Fi file, or by hand. *)
StartNetwork(r) ==
  /\ IsNext(r)
  /\ \E ssh \in {FALSE, dropbear} : NetBegins(r, ssh)
  /\ UNCHANGED <<files, prov, radio, rootKeys, dropbear>>

(* nq-prepare-wifi-firmware copies what is missing from the stock system, when that can be
   read, to its own name; a file that is there and not empty is taken for whole. *)
CopyFirmware(r) ==
  /\ NetAt(r, "wifi") /\ ~wlan /\ firmware = "none"
  /\ firmware' = "part" /\ NetGoto(r, "firmware")
  /\ UNCHANGED <<files, prov, wlan, wpa, online, clockSet, rootKeys, dropbear>>

FirmwareCopied(r) ==
  /\ NetAt(r, "firmware")
  /\ firmware' \in {"part", "new"} /\ NetGoto(r, "load")
  /\ UNCHANGED <<files, prov, wlan, wpa, online, clockSet, rootKeys, dropbear>>

(* nq-load-wifi: the modules, and the wait for wlan0. *)
LoadWifi(r) ==
  /\ NetAt(r, "wifi") \/ NetAt(r, "load")
  /\ wlan' \in {wlan, wlan \/ firmware = "new"}
  /\ NetGoto(r, "kill wpa")
  /\ UNCHANGED <<files, prov, firmware, wpa, online, clockSet, rootKeys, dropbear>>

(* The old supplicant gets TERM. *)
KillWpa(r) ==
  /\ NetAt(r, "kill wpa")
  /\ IF conf["wifi"] = "none" THEN UNCHANGED wpa /\ NetGoto(r, "dhcp")
     ELSE wpa' = (IF wpa = "up" THEN "dying" ELSE wpa) /\ NetGoto(r, "wpa")
  /\ UNCHANGED <<files, prov, firmware, wlan, online, clockSet, rootKeys, dropbear>>

(* A supplicant gives up while another one has the interface, and without an interface. *)
StartWpa(r) ==
  /\ NetAt(r, "wpa")
  /\ wpa' = IF wpa = "none" /\ wlan THEN "up" ELSE wpa
  /\ NetGoto(r, "dhcp")
  /\ UNCHANGED <<files, prov, firmware, wlan, online, clockSet, rootKeys, dropbear>>

WpaGone ==
  /\ wpa = "dying" /\ wpa' = "none"
  /\ UNCHANGED <<files, prov, netRun, firmware, wlan, online, clockSet, rootKeys, dropbear>>

(* udhcpc and its script: the address goes and may come back. *)
Dhcp(r) ==
  /\ NetAt(r, "dhcp")
  /\ online' \in {FALSE, wpa = "up"}
  /\ NetGoto(r, "time")
  /\ UNCHANGED <<files, prov, firmware, wlan, wpa, clockSet, rootKeys, dropbear>>

(* nq-sync-time: the Date of the first server that answers, unless the year is plausible. *)
SyncTime(r) ==
  /\ NetAt(r, "time")
  /\ clockSet' \in {clockSet, clockSet \/ online}
  /\ NetGoto(r, "keys")
  /\ UNCHANGED <<files, prov, firmware, wlan, wpa, online, rootKeys, dropbear>>

(* The keys go to the home of root, by a plain cp ... *)
CopyKeys(r) ==
  /\ NetAt(r, "keys")
  /\ IF conf["keys"] = "none" THEN UNCHANGED rootKeys /\ NetGoto(r, "kill")
     ELSE rootKeys' = "part" /\ NetGoto(r, "cp")
  /\ UNCHANGED <<files, prov, radio, dropbear>>

(* ... that may fail. *)
KeysCopied(r) ==
  /\ NetAt(r, "cp")
  /\ rootKeys' \in {"part", "new"} /\ NetGoto(r, "kill")
  /\ UNCHANGED <<files, prov, radio, dropbear>>

(* Mutant of KillDropbear: the server is started first and killed then. *)
KillDropbearLast(r) ==
  /\ NetAt(r, "kill")
  /\ dropbear' = FALSE
  /\ NetGoto(r, "done")
  /\ UNCHANGED <<files, prov, radio, rootKeys>>

(* killall dropbear, the processes of the sessions too: a run on a terminal of one is hung up. *)
KillDropbear(r) ==
  /\ NetAt(r, "kill")
  /\ dropbear' = FALSE
  /\ netRun' = [q \in NetRuns |->
       IF netRun[q].ssh /\ netRun[q].at \notin {"idle", "done"} THEN [netRun[q] EXCEPT !.at = "hung up"]
       ELSE IF q = r THEN [netRun[q] EXCEPT !.at = "dropbear"] ELSE netRun[q]]
  /\ UNCHANGED <<files, prov, radio, rootKeys>>

(* A second later. A server that finds the port taken ends, and the other one stays. *)
StartDropbear(r) ==
  /\ NetAt(r, "dropbear")
  /\ dropbear' = TRUE /\ NetGoto(r, "done")
  /\ UNCHANGED <<files, prov, radio, rootKeys>>

(* ext4 writes a file and its name out. *)
WriteBack(f) ==
  /\ disk[f] # conf[f] \/ f \in loose
  /\ disk' = [disk EXCEPT ![f] = conf[f]]
  /\ loose' = loose \ {f}
  /\ torn' = IF conf[f] = "part" THEN torn ELSE torn \ {f}
  /\ UNCHANGED <<conf, prov, netRun, radio, rootKeys, dropbear>>

(* The power goes. A file is then what the medium held, what it was, or, when it was loose, a
   name without its contents; the plain copies may be cut or gone. *)
PowerCut ==
  /\ conf' \in {after \in [Files -> Contents] : \A f \in Files :
                 after[f] \in {disk[f], conf[f]} \cup (IF f \in loose THEN {"part"} ELSE {})}
  /\ disk' = conf' /\ loose' = {} /\ torn' = torn \cup loose
  /\ rootKeys' \in IF rootKeys = "none" THEN {"none"} ELSE Contents
  /\ firmware' \in IF firmware = "none" THEN {"none"} ELSE Contents
  /\ prov' = NoProv /\ netRun' = NetIdle
  /\ wlan' = FALSE /\ wpa' = "none" /\ online' = FALSE /\ clockSet' = FALSE /\ dropbear' = FALSE

NetStep(r) ==
  \/ StartNetwork(r) \/ CopyFirmware(r) \/ FirmwareCopied(r) \/ LoadWifi(r) \/ KillWpa(r) \/ StartWpa(r)
  \/ Dhcp(r) \/ SyncTime(r) \/ CopyKeys(r) \/ KeysCopied(r) \/ KillDropbear(r) \/ StartDropbear(r)

ProvStep == ProvBegins \/ Clear \/ CopyTmp \/ Install \/ ProvDies \/ ProvDone

NetNext ==
  \/ ProvStep \/ (\E r \in NetRuns : NetStep(r)) \/ WpaGone
  \/ (\E f \in Files : WriteBack(f)) \/ PowerCut

NetSpec == NetInit /\ [][NetNext]_netVars
-------------------------------------------------------------------------------
NetTypeOK ==
  /\ conf \in [Files -> Contents] /\ disk \in [Files -> Contents] /\ rootKeys \in Contents
  /\ loose \subseteq Files /\ torn \subseteq Files
  /\ prov \in [at : {"idle", "clear", "copy", "done"}, clear : SUBSET Files, copy : SUBSET Files, tmp : Contents]
  /\ netRun \in [NetRuns -> [at : {"idle", "wifi", "firmware", "load", "kill wpa", "wpa", "dhcp", "time",
                                   "keys", "cp", "kill", "dropbear", "done", "hung up"}, ssh : BOOLEAN]]
  /\ firmware \in Contents /\ wpa \in {"none", "up", "dying"}
  /\ wlan \in BOOLEAN /\ online \in BOOLEAN /\ clockSet \in BOOLEAN /\ dropbear \in BOOLEAN

(* A file that nq-provision installs is whole or not there, whenever a copy fails, it runs again
   or the power goes: but for a file that was put in the place of none when the power went, as
   nobody waits for the medium. A file that replaces another one is safe. *)
SecretsWhole == \A f \in Files : conf[f] = "part" => f \in torn

(* However runs of nq-start-network overlap, the SSH server listens when they are done: each
   kills the server of the others, and only a run that is hung up in between leaves none. *)
SshComesBack ==
  ~NetBusy /\ (\E r \in NetRuns : NetAt(r, "done")) /\ (\A r \in NetRuns : ~NetAt(r, "hung up"))
    => dropbear
===============================================================================
