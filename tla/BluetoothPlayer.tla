--------------------------- MODULE BluetoothPlayer ---------------------------
(***************************************************************************)
(* nq-bluetooth-player, the command that plays and pauses a phone over     *)
(* AVRCP.  It reads the properties of BlueZ one by one, picks a device and *)
(* calls it; phones come, go and change in between.                        *)
(***************************************************************************)
EXTENDS Naturals, FiniteSets

CONSTANT LastPhone    \* paired phones, in the order of their paths, are 1..LastPhone

ASSUME PhonesAssumption == LastPhone \in Nat

Phones == 1..LastPhone
NoPhone == 0

VARIABLES
  bluez,     \* each phone: has MediaControl1, is connected by it, as a device, has a player, plays
  command,   \* the command: where, whether it toggles, its method, the phone it picked
  moved      \* history: a phone has changed since the command began

btVars == <<bluez, command, moved>>

Gone == [media |-> FALSE, control |-> FALSE, device |-> FALSE, player |-> FALSE, playing |-> FALSE]
NoCommand == [at |-> "idle", toggle |-> FALSE, method |-> "status", phone |-> NoPhone]

BtInit == bluez = [p \in Phones |-> Gone] /\ command = NoCommand /\ moved = FALSE

MediaDevices == {p \in Phones : bluez[p].media}
Controlled == {p \in MediaDevices : bluez[p].control}
Connected == {p \in MediaDevices : bluez[p].device}
Players == {p \in MediaDevices : bluez[p].player}
FirstPhone(S) == IF S = {} THEN NoPhone ELSE CHOOSE p \in S : \A q \in S : p <= q

(* Mutant of ActiveDevice: the first paired phone. *)
FirstPaired == FirstPhone(MediaDevices)

(* active_device: a phone whose media control is connected, else a connected one, else any. *)
ActiveDevice ==
  FirstPhone(IF Controlled # {} THEN Controlled ELSE IF Connected # {} THEN Connected ELSE MediaDevices)

(* The phone whose player toggle_playback asks: the first that has one. *)
FirstPlayer == FirstPhone(Players)
-------------------------------------------------------------------------------
PhoneChanges ==
  /\ \E p \in Phones, media, control, device, player, playing \in BOOLEAN :
       /\ (playing => player) /\ (player => control) /\ (control => media /\ device)
       /\ bluez' = [bluez EXCEPT ![p] = [media |-> media, control |-> control, device |-> device,
                                         player |-> player, playing |-> playing]]
       /\ bluez' # bluez
  /\ moved' = (command.at # "idle")
  /\ UNCHANGED command

(* play, pause and the others name their method; toggle asks for the state first. *)
BtBegins ==
  /\ command.at = "idle" /\ moved' = FALSE
  /\ \/ \E method \in {"Play", "Pause"} : command' = [NoCommand EXCEPT !.at = "pick", !.method = method]
     \/ command' = [NoCommand EXCEPT !.at = "toggle", !.toggle = TRUE]
  /\ UNCHANGED bluez

AskStatus ==
  /\ command.at = "toggle"
  /\ command' = [command EXCEPT !.at = "pick",
       !.method = IF FirstPlayer # NoPhone /\ bluez[FirstPlayer].playing THEN "Pause" ELSE "Play"]
  /\ UNCHANGED <<bluez, moved>>

PickDevice ==
  /\ command.at = "pick"
  /\ command' = IF ActiveDevice = NoPhone THEN NoCommand
                ELSE [command EXCEPT !.at = "call", !.phone = ActiveDevice]
  /\ UNCHANGED <<bluez, moved>>

(* The call reaches a phone whose media control is connected. *)
CallMedia ==
  /\ command.at = "call" /\ command' = NoCommand
  /\ bluez' = IF ~bluez[command.phone].control THEN bluez
              ELSE [bluez EXCEPT ![command.phone].player = TRUE,
                                 ![command.phone].playing = (command.method = "Play")]
  /\ UNCHANGED moved

BtNext == PhoneChanges \/ BtBegins \/ AskStatus \/ PickDevice \/ CallMedia

BtSpec == BtInit /\ [][BtNext]_btVars
-------------------------------------------------------------------------------
BtTypeOK ==
  /\ bluez \in [Phones -> [media : BOOLEAN, control : BOOLEAN, device : BOOLEAN, player : BOOLEAN,
                           playing : BOOLEAN]]
  /\ command \in [at : {"idle", "toggle", "pick", "call"}, toggle : BOOLEAN, method : {"status", "Play", "Pause"},
                  phone : Phones \cup {NoPhone}]
  /\ moved \in BOOLEAN

(* With any number of paired phones and one that is connected, a command calls that one, and
   a toggle turns what it does, unless a phone came, went or changed under the command. *)
CallsThePhoneThere ==
  command.at = "call" /\ ~moved /\ Cardinality({p \in Phones : bluez[p].control}) = 1
    => /\ bluez[command.phone].control
       /\ command.toggle => (command.method = "Pause" <=> bluez[command.phone].playing)
===============================================================================
