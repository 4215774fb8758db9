-------------------------- MODULE AdbTransport_proofs --------------------------
(***************************************************************************)
(* Proofs about AdbTransport for every number of streams and channels,     *)
(* every script of the host, and every size of the terminals.              *)
(***************************************************************************)
EXTENDS AdbTransport, SequenceTheorems, FiniteSetTheorems, WellFoundedInduction, TLAPS

Words == {"ask", "send", "data", "done", "quit", "none", "last", "more", "text"}
Datum == ((Streams \cup {0}) \X Nat) \cup Words
FromHost == [cmd : {"OPEN", "OKAY", "WRTE", "CLSE"}, arg0 : Streams \cup {0}, arg1 : Nat,
             data : Seq(Datum)]
FromDevice == [cmd : {"OKAY", "WRTE", "CLSE"}, arg0 : Nat, arg1 : Streams, data : Seq(Datum)]

Channel == [open : BOOLEAN, canSend : BOOLEAN, local : Nat, remote : Streams \cup {0}]
Terminal == [in : Seq(Datum), out : Seq(Datum), held : Seq(Datum), alive : BOOLEAN]
ServiceState ==
  [local : Nat, remote : Streams \cup {0}, in : Seq(Datum), phase : {"cmd", "data", "reply", "end"},
   replies : Nat, waiting : BOOLEAN, last : {"none", "last", "text"}, closed : BOOLEAN]
HostState ==
  [state : {"new", "opening", "open", "closed", "ended"}, peer : Nat, credit : BOOLEAN, sent : Nat,
   answered : Nat, ahead : BOOLEAN, got : Seq(Datum)]

(* What each variable may hold. *)
TypeInv ==
  /\ link \in BOOLEAN /\ pc \in {"select", "write", "service", "gone"} /\ nextId \in Nat \ {0}
  /\ toDev \in Seq(FromHost) /\ toHost \in Seq(FromDevice)
  /\ chan \in [Slots -> Channel] /\ pty \in [Slots -> Terminal]
  /\ pending \in [slot : Slots \cup {0}, data : Seq(Datum)]
  /\ serv \in ServiceState /\ host \in [Streams -> HostState]
  /\ given \in [Shells -> Seq(Datum)] /\ made \in [Shells -> Seq(Datum)]

(* The places of the program go together. *)
PlaceInv ==
  /\ \A c \in Slots : pty[c].alive => chan[c].open
  /\ \A c \in Slots : chan[c].open => chan[c].remote \in Shells /\ chan[c].local \in 1..(nextId - 1)
  /\ \A c, d \in Slots : chan[c].open /\ chan[d].open /\ chan[c].local = chan[d].local => c = d
  /\ pc = "write" <=> pending.slot # 0
  /\ pending.slot # 0 => chan[pending.slot].open
  /\ pc \in {"select", "write"} => serv = NoService
  /\ pc = "service" => serv.remote \in Streams \ Shells /\ serv.local \in 1..(nextId - 1)
  /\ serv.waiting => serv.replies > 0
-------------------------------------------------------------------------------
(* Sequences as what is in them. *)
In(q) == {q[i] : i \in 1..Len(q)}

LEMMA InAppend ==
  ASSUME NEW S, NEW q \in Seq(S), NEW m \in S
  PROVE  Append(q, m) \in Seq(S) /\ In(Append(q, m)) = In(q) \cup {m}
BY DEF In

LEMMA InTail ==
  ASSUME NEW S, NEW q \in Seq(S), q # <<>>
  PROVE  /\ Head(q) \in S /\ Tail(q) \in Seq(S)
         /\ In(q) = In(Tail(q)) \cup {Head(q)}
<1>1. /\ Head(q) \in S /\ Tail(q) \in Seq(S) /\ Len(q) \in Nat \ {0}
      /\ Len(Tail(q)) = Len(q) - 1 /\ q[1] = Head(q)
      /\ \A i \in 1..Len(Tail(q)) : Tail(q)[i] = q[i + 1]
  BY HeadTailProperties
<1>2. ASSUME NEW i \in 1..Len(q) PROVE q[i] = Head(q) \/ q[i] \in In(Tail(q))
  <2>1. i = 1 \/ (i - 1 \in 1..Len(Tail(q)) /\ Tail(q)[i - 1] = q[(i - 1) + 1])
    BY <1>1
  <2>. QED BY <1>1, <2>1 DEF In
<1>3. ASSUME NEW i \in 1..Len(Tail(q)) PROVE Tail(q)[i] \in In(q)
  BY <1>1 DEF In
<1>4. Head(q) \in In(q)
  BY <1>1 DEF In
<1>. QED BY <1>1, <1>2, <1>3, <1>4 DEF In

LEMMA InType == ASSUME NEW S, NEW q \in Seq(S) PROVE In(q) \subseteq S
BY DEF In

(* At most one element of q is in M. *)
AtMostOne(q, M) == \A i, j \in 1..Len(q) : q[i] \in M /\ q[j] \in M => i = j

LEMMA OneAppend ==
  ASSUME NEW S, NEW q \in Seq(S), NEW m \in S, NEW M, AtMostOne(q, M), m \in M => In(q) \cap M = {}
  PROVE  AtMostOne(Append(q, m), M)
BY DEF AtMostOne, In

LEMMA OneTail ==
  ASSUME NEW S, NEW q \in Seq(S), q # <<>>, NEW M, AtMostOne(q, M)
  PROVE  AtMostOne(Tail(q), M) /\ (Head(q) \in M => In(Tail(q)) \cap M = {})
<1>1. /\ Len(q) \in Nat \ {0} /\ Len(Tail(q)) = Len(q) - 1 /\ q[1] = Head(q)
      /\ \A i \in 1..Len(Tail(q)) : Tail(q)[i] = q[i + 1] /\ i + 1 \in 1..Len(q)
  BY HeadTailProperties
<1>. QED BY <1>1 DEF AtMostOne, In

(* No element of W comes after one of K. *)
Bars(q, K, W) == \A i, j \in 1..Len(q) : i < j /\ q[i] \in K => q[j] \notin W

LEMMA BarsAppend ==
  ASSUME NEW S, NEW q \in Seq(S), NEW m \in S, NEW K, NEW W, Bars(q, K, W),
         m \in W => In(q) \cap K = {}
  PROVE  Bars(Append(q, m), K, W)
BY DEF Bars, In

LEMMA BarsTail ==
  ASSUME NEW S, NEW q \in Seq(S), q # <<>>, NEW K, NEW W, Bars(q, K, W)
  PROVE  Bars(Tail(q), K, W) /\ (Head(q) \in K => In(Tail(q)) \cap W = {})
<1>1. /\ Len(q) \in Nat \ {0} /\ Len(Tail(q)) = Len(q) - 1 /\ q[1] = Head(q)
      /\ \A i \in 1..Len(Tail(q)) : Tail(q)[i] = q[i + 1] /\ i + 1 \in 1..Len(q)
  BY HeadTailProperties
<1>2. \A i, j \in 1..Len(Tail(q)) : i < j => (i + 1) < (j + 1)
  OBVIOUS
<1>. QED BY <1>1, <1>2 DEF Bars, In

LEMMA SendOne ==
  ASSUME NEW S, NEW q \in Seq(S), NEW m \in S
  PROVE  q \o <<m>> = Append(q, m)
OBVIOUS

LEMMA SendThree ==
  ASSUME NEW S, NEW q \in Seq(S), NEW a \in S, NEW b \in S, NEW c \in S
  PROVE  q \o <<a, b, c>> = Append(Append(Append(q, a), b), c)
OBVIOUS
-------------------------------------------------------------------------------
(* The inductive invariant. *)
Runs(c, s) == chan[c].open /\ chan[c].remote = s
NoChannel(s) == \A c \in Slots : ~Runs(c, s)
From(cmd, s) == {m \in FromHost : m.cmd = cmd /\ m.arg0 = s}
To(cmd, s) == {m \in FromDevice : m.cmd = cmd /\ m.arg1 = s}

(* Somewhere the id of the daemon and the stream of the host go together. *)
Paired(id, s) ==
  \/ \E m \in In(toHost) : m.cmd # "CLSE" /\ m.arg0 = id /\ m.arg1 = s
  \/ \E c \in Slots : Runs(c, s) /\ chan[c].local = id
  \/ pc = "service" /\ serv.remote = s /\ serv.local = id
  \/ host[s].peer = id /\ id # 0

(* An id is that of one stream, and a stream has one id. *)
PairInv ==
  \A i, j \in Nat : \A s, t \in Streams :
    Paired(i, s) /\ Paired(j, t) => i \in 1..(nextId - 1) /\ (i = j <=> s = t)

(* The daemon has not heard of a stream. *)
Untouched(s) ==
  /\ \A id \in Nat : ~Paired(id, s)
  /\ \A m \in In(toHost) : m.arg1 # s
  /\ ~host[s].credit /\ host[s].sent = 0 /\ host[s].got = <<>> /\ host[s].peer = 0
  /\ s \in Shells => given[s] = <<>> /\ made[s] = <<>>

(* What the host has sent agrees with the state it keeps of the stream. *)
Meant(m) ==
  /\ m.cmd = "OPEN" => m.arg0 \in Streams /\ host[m.arg0].state = "opening"
  /\ m.cmd \in {"OKAY", "WRTE"} =>
       /\ m.arg0 \in Streams /\ host[m.arg0].state \notin {"new", "opening"}
       /\ host[m.arg0].peer = m.arg1 /\ m.arg1 # 0
  /\ m.cmd = "CLSE" =>
       /\ m.arg1 # 0
       /\ \E t \in Streams : host[t].peer = m.arg1 /\ host[t].state \in {"closed", "ended"}

HostInv ==
  /\ \A s \in Streams :
       /\ host[s].state \in {"new", "opening"} => host[s].peer = 0
       /\ host[s].state = "open" => host[s].peer # 0
       /\ host[s].state = "new" \/ In(toDev) \cap From("OPEN", s) # {} => Untouched(s)
       /\ AtMostOne(toDev, From("OPEN", s))
  /\ \A m \in In(toDev) : Meant(m)

(* A WRTE of the daemon, or the OKAY to it, or can_send: one of them at most. *)
Flow(s) ==
  LET writes == In(toHost) \cap To("WRTE", s)
      okays == In(toDev) \cap From("OKAY", s)
  IN  /\ AtMostOne(toHost, To("WRTE", s)) /\ AtMostOne(toDev, From("OKAY", s))
      /\ writes = {} \/ okays = {}
      /\ \A c \in Slots : Runs(c, s) /\ chan[c].canSend => writes = {} /\ okays = {}
FlowInv == \A s \in Shells : Flow(s)

(* The same for what the host writes. *)
Turn(s) ==
  LET writes == In(toDev) \cap From("WRTE", s)
      okays == In(toHost) \cap To("OKAY", s)
  IN  /\ AtMostOne(toDev, From("WRTE", s)) /\ AtMostOne(toHost, To("OKAY", s))
      /\ writes = {} \/ okays = {}
      /\ host[s].credit => writes = {} /\ okays = {}
TurnInv == \A s \in Shells : Turn(s)

(* What a command has read, what waits in its terminal, and the write under way. *)
Typed(c, s) == (given[s] \o pty[c].in) \o (IF pending.slot = c THEN pending.data ELSE <<>>)
InOrder(q, s) == \A k \in 1..Len(q) : q[k] = <<s, k>>

Input(s) ==
  /\ InOrder(given[s], s)
  /\ \A c \in Slots : Runs(c, s) /\ pty[c].alive =>
       /\ InOrder(Typed(c, s), s)
       /\ host[s].credit \/ In(toHost) \cap To("OKAY", s) # {} => Len(Typed(c, s)) = host[s].sent
       /\ \A m \in In(toDev) \cap From("WRTE", s) :
            /\ Len(Typed(c, s)) + 1 = host[s].sent
            /\ m.data = << <<s, host[s].sent>> >>
InputInv == \A s \in Shells : Input(s)

(* The messages that would end the stream for the host. *)
Closing(s) ==
  {m \in FromDevice : m.cmd = "CLSE" /\ m.arg1 = s /\ (host[s].state = "opening" \/ m.arg0 = host[s].peer)}

(* Nothing comes after the end of a stream. *)
Ended(s) ==
  /\ Bars(toHost, Closing(s), To("WRTE", s))
  /\ host[s].state = "ended" \/ In(toHost) \cap Closing(s) # {} => NoChannel(s)
EndInv == \A s \in Shells : Ended(s)

(* The host hears of the stream before it hears what its command writes. *)
Greeted(s) ==
  host[s].state = "opening" =>
    /\ Bars(toHost, To("WRTE", s), To("OKAY", s))
    /\ ~NoChannel(s) \/ In(toHost) \cap To("WRTE", s) # {} => In(toHost) \cap To("OKAY", s) # {}
GreetInv == \A s \in Shells : Greeted(s)

(* The output of a command on its way to the host, and in its terminal. *)
Flying(s) ==
  IF In(toHost) \cap To("WRTE", s) = {} THEN {<<>>}
  ELSE {m.data : m \in In(toHost) \cap To("WRTE", s)}
Buffered(s) == IF NoChannel(s) THEN {<<>>} ELSE {pty[c].out : c \in {d \in Slots : Runs(d, s)}}

Output(s) ==
  link /\ Busy(s) =>
    \A f \in Flying(s) : \A o \in Buffered(s) :
      \/ (host[s].got \o f) \o o = made[s]
      \/ NoChannel(s) /\ made[s] = <<>> /\ host[s].got \o f = <<Notice>>
OutputInv == \A s \in Shells : Output(s)
-------------------------------------------------------------------------------
(* Typing. *)
LEMMA InitType == Init => TypeInv
BY AdbAssumption DEF Init, TypeInv, Closed, NoPty, NoService, Slots, Channel, Terminal, ServiceState,
      HostState

LEMMA ItemsType ==
  ASSUME TypeInv, NEW s \in Streams, NEW data \in Items(s)
  PROVE  /\ data \in Seq(Datum) /\ Len(data) \in Nat
         /\ s \in Shells => data = << <<s, host[s].sent + 1>> >> /\ Len(data) = 1
<1>. host[s].sent \in Nat
  BY DEF TypeInv, HostState
<1>1. CASE s \in Syncs
  <2>1. s \notin Shells
    BY <1>1, AdbAssumption
  <2>2. PICK k \in 1..Pack : /\ data = SubSeq(Script, host[s].sent + 1, host[s].sent + k)
                             /\ host[s].sent + k <= Len(Script)
    BY <2>1 DEF Items
  <2>3. Len(Script) \in Nat /\ \A i \in 1..Len(Script) : Script[i] \in Datum
    BY AdbAssumption DEF Datum, Words
  <2>4. k \in Nat
    BY <2>2, AdbAssumption
  <2>5. \A i \in (host[s].sent + 1)..(host[s].sent + k) : Script[i] \in Datum
    BY <2>2, <2>3, <2>4
  <2>6. /\ SubSeq(Script, host[s].sent + 1, host[s].sent + k) \in Seq(Datum)
        /\ Len(SubSeq(Script, host[s].sent + 1, host[s].sent + k)) \in Nat
    BY <2>4, <2>5, SubSeqProperties
  <2>. QED BY <2>1, <2>2, <2>6
<1>2. CASE s \notin Syncs
  <2>1. data = << <<s, host[s].sent + 1>> >>
    BY <1>2 DEF Items
  <2>. QED BY <2>1 DEF Datum
<1>. QED BY <1>1, <1>2

LEMMA FreeSlot ==
  ASSUME OpenSlots # Slots
  PROVE  FirstFree \in Slots /\ ~chan[FirstFree].open
<1>. DEFINE T == Slots \ OpenSlots
<1>1. T \subseteq Nat /\ T # {}
  BY DEF Slots, OpenSlots
<1>2. PICK c \in T : \A d \in T : ~(<<d, c>> \in OpToRel(<, Nat))
  <2>. HIDE DEF T
  <2>. QED BY <1>1, NatLessThanWellFounded, WFMin
<1>3. \A d \in T : ~(d < c)
  BY <1>1, <1>2 DEF OpToRel
<1>4. \A d \in T : c <= d
  BY <1>1, <1>3
<1>5. FirstFree \in T
  BY <1>4 DEF FirstFree
<1>. QED BY <1>5 DEF OpenSlots

(* The messages of the daemon. *)
LEMMA Sending ==
  ASSUME TypeInv, NEW m \in FromDevice
  PROVE  /\ toHost \o <<m>> = Append(toHost, m)
         /\ Append(toHost, m) \in Seq(FromDevice)
         /\ In(Append(toHost, m)) = In(toHost) \cup {m}
BY SendOne, InAppend DEF TypeInv

LEMMA HostSending ==
  ASSUME TypeInv, NEW m \in FromHost
  PROVE  /\ Append(toDev, m) \in Seq(FromHost)
         /\ In(Append(toDev, m)) = In(toDev) \cup {m}
BY InAppend DEF TypeInv

LEMMA Reading1 ==
  ASSUME TypeInv, NEW where, NEW cmd, Recv(where, cmd)
  PROVE  /\ Head(toDev) \in FromHost /\ Head(toDev).cmd = cmd
         /\ toDev' \in Seq(FromHost) /\ In(toDev) = In(toDev') \cup {Head(toDev)}
         /\ pc = where
BY InTail DEF TypeInv, Recv

(* The messages the daemon takes from the connection, and what the host meant by them. *)
LEMMA HeadOfHost ==
  ASSUME TypeInv, HostInv, toDev # <<>>
  PROVE  LET m == Head(toDev)
         IN  /\ m \in FromHost /\ m \in In(toDev)
             /\ m.cmd = "OPEN" => m.arg0 \in Streams /\ Untouched(m.arg0)
             /\ m.cmd \in {"OKAY", "WRTE"} => m.arg0 \in Streams /\ Paired(m.arg1, m.arg0)
<1>. DEFINE m == Head(toDev)
<1>1. m \in FromHost /\ m \in In(toDev)
  BY InTail DEF TypeInv
<1>2. m.cmd = "OPEN" => m.arg0 \in Streams /\ m \in From("OPEN", m.arg0)
  BY <1>1 DEF HostInv, Meant, From
<1>3. m.cmd \in {"OKAY", "WRTE"} => m.arg0 \in Streams /\ Paired(m.arg1, m.arg0)
  BY <1>1 DEF HostInv, Meant, Paired
<1>. QED BY <1>1, <1>2, <1>3 DEF HostInv

(* The messages of the daemon. *)
LEMMA Messages ==
  ASSUME NEW id \in Nat, NEW s \in Streams
  PROVE  /\ Msg("OKAY", id, s, <<>>) \in FromDevice /\ Msg("CLSE", id, s, <<>>) \in FromDevice
         /\ \A data \in Seq(Datum) : Msg("WRTE", id, s, data) \in FromDevice
BY DEF Msg, FromDevice

LEMMA ChannelType ==
  ASSUME TypeInv, PlaceInv, NEW c \in Slots, chan[c].open
  PROVE  /\ chan[c].remote \in Shells /\ chan[c].remote \in Streams
         /\ chan[c].local \in Nat \ {0} /\ chan[c].local < nextId
BY DEF TypeInv, PlaceInv, Streams

LEMMA TerminalType ==
  ASSUME TypeInv, NEW c \in Slots
  PROVE  /\ pty[c].in \in Seq(Datum) /\ pty[c].out \in Seq(Datum) /\ pty[c].held \in Seq(Datum)
         /\ pty[c].alive \in BOOLEAN
BY DEF TypeInv, Terminal

LEMMA ServiceType ==
  ASSUME TypeInv, PlaceInv, pc = "service"
  PROVE  /\ serv.local \in Nat \ {0} /\ serv.local < nextId
         /\ serv.remote \in Streams /\ serv.remote \notin Shells
BY DEF TypeInv, PlaceInv

LEMMA CloseType ==
  ASSUME TypeInv, NEW cs, CloseChannels(cs)
  PROVE  chan' \in [Slots -> Channel] /\ pty' \in [Slots -> Terminal]
<1>1. Closed \in Channel /\ NoPty \in Terminal
  BY DEF Closed, NoPty, Channel, Terminal
<1>. QED BY <1>1 DEF TypeInv, CloseChannels

LEMMA DaemonTypeStep ==
  ASSUME TypeInv, PlaceInv, HostInv, Transport
  PROVE  TypeInv'
<1>. USE DEF net, channels, history
<1>1. CASE RecvOpen
  <2>. DEFINE s == Head(toDev).arg0
  <2>1. s \in Streams /\ toDev' \in Seq(FromHost) /\ nextId \in Nat \ {0} /\ nextId' = nextId + 1
    BY <1>1, HeadOfHost, Reading1 DEF RecvOpen, Recv, TypeInv
  <2>. HIDE DEF s
  <2>2. nextId' \in Nat \ {0}
    BY <2>1
  <2>3. Msg("OKAY", LocalId, s, <<>>) \in FromDevice /\ Msg("CLSE", LocalId, s, <<>>) \in FromDevice
        /\ Msg("WRTE", LocalId, s, <<Notice>>) \in FromDevice /\ Msg("CLSE", 0, s, <<>>) \in FromDevice
    <3>1. <<Notice>> \in Seq(Datum)
      BY DEF Notice, Datum
    <3>. QED BY <2>1, <3>1, Messages DEF LocalId
  <2>4. CASE RefuseOpen(s) /\ UNCHANGED <<pc, serv, chan, pty>>
    BY <1>1, <2>1, <2>2, <2>3, <2>4, Sending DEF RecvOpen, RefuseOpen, Send, TypeInv
  <2>5. CASE OpenShell(s) /\ UNCHANGED <<pc, serv>> /\ OpenSlots # Slots
    <3>1. toHost' \in Seq(FromDevice)
      <4>1. toHost \in Seq(FromDevice)
        BY DEF TypeInv
      <4>2. CASE Send(<<Msg("OKAY", LocalId, s, <<>>)>>)
        BY <2>3, <4>2, Sending DEF Send
      <4>3. CASE Send(<<Msg("OKAY", LocalId, s, <<>>), Msg("WRTE", LocalId, s, <<Notice>>),
                        Msg("CLSE", LocalId, s, <<>>)>>)
        BY <2>3, <4>1, <4>3 DEF Send
      <4>. QED BY <2>5, <4>2, <4>3 DEF OpenShell
    <3>2. chan' \in [Slots -> Channel] /\ pty' \in [Slots -> Terminal]
      <4>1. FirstFree \in Slots
        BY <2>5, FreeSlot
      <4>2. [open |-> TRUE, canSend |-> TRUE, local |-> LocalId, remote |-> s] \in Channel
        BY <2>1 DEF Channel, LocalId
      <4>3. [NoPty EXCEPT !.alive = TRUE] \in Terminal
        <5>1. NoPty \in Terminal
          BY DEF Terminal, NoPty
        <5>. QED BY <5>1 DEF Terminal
      <4>4. chan \in [Slots -> Channel] /\ pty \in [Slots -> Terminal]
        BY DEF TypeInv
      <4>5. \/ UNCHANGED <<chan, pty>>
            \/ /\ chan' = [chan EXCEPT ![FirstFree] = [open |-> TRUE, canSend |-> TRUE,
                                                       local |-> LocalId, remote |-> s]]
               /\ pty' = [pty EXCEPT ![FirstFree] = [NoPty EXCEPT !.alive = TRUE]]
        BY <2>5 DEF OpenShell
      <4>. QED BY <4>1, <4>2, <4>3, <4>4, <4>5
    <3>. QED BY <1>1, <2>1, <2>2, <2>5, <3>1, <3>2 DEF RecvOpen, TypeInv
  <2>6. ASSUME NEW phase \in {"cmd", "reply"}, NEW last \in {"none", "text"},
               OpenService(s, phase, last), UNCHANGED <<chan, pty>>
        PROVE  TypeInv'
    <3>1. Service(LocalId, s, phase, last) \in ServiceState
      <4>1. NoService \in ServiceState
        BY DEF NoService, ServiceState
      <4>2. LocalId \in Nat /\ (IF phase = "reply" THEN 1 ELSE 0) \in Nat
        BY <2>1 DEF LocalId
      <4>. QED BY <2>1, <4>1, <4>2 DEF Service, ServiceState
    <3>. QED BY <1>1, <2>1, <2>2, <2>3, <2>6, <3>1, Sending DEF RecvOpen, OpenService, Send, TypeInv
  <2>. QED BY <1>1, <2>4, <2>5, <2>6 DEF RecvOpen, s
<1>2. CASE RecvOkay
  <2>1. chan' \in [Slots -> Channel]
    <3>1. \A c \in Slots, b \in BOOLEAN : [chan[c] EXCEPT !.canSend = b] \in Channel
      <4>1. \A c \in Slots : chan[c] \in Channel
        BY DEF TypeInv
      <4>. QED BY <4>1 DEF Channel
    <3>2. \A c \in Slots : (chan[c].canSend \/ c \in ChannelOf(Head(toDev).arg1)) \in BOOLEAN
      OBVIOUS
    <3>. QED BY <1>2, <3>1, <3>2 DEF RecvOkay
  <2>. QED BY <1>2, <2>1, Reading1 DEF RecvOkay, TypeInv
<1>3. CASE RecvWrite
  <2>. DEFINE m == Head(toDev)
  <2>1. /\ m \in FromHost /\ m.arg0 \in Streams /\ m.arg1 \in Nat /\ m.data \in Seq(Datum)
        /\ toDev' \in Seq(FromHost)
    BY <1>3, HeadOfHost, Reading1 DEF RecvWrite, Recv, FromHost
  <2>2. ASSUME NEW c \in ChannelOf(m.arg1),
               Send(<<Msg("OKAY", chan[c].local, chan[c].remote, <<>>)>>),
               pending' = [slot |-> c, data |-> m.data], pc' = "write"
        PROVE  TypeInv'
    <3>1. c \in Slots /\ chan[c].open
      BY <2>2 DEF ChannelOf, OpenSlots
    <3>2. Msg("OKAY", chan[c].local, chan[c].remote, <<>>) \in FromDevice
      BY <3>1, ChannelType, Messages
    <3>. HIDE DEF m
    <3>. QED BY <1>3, <2>1, <2>2, <3>1, <3>2, Sending DEF RecvWrite, Send, TypeInv
  <2>3. CASE Send(<<Msg("CLSE", m.arg1, m.arg0, <<>>)>>) /\ UNCHANGED <<pc, pending>>
    <3>1. Msg("CLSE", m.arg1, m.arg0, <<>>) \in FromDevice
      BY <2>1, Messages
    <3>. QED BY <1>3, <2>1, <2>3, <3>1, Sending DEF RecvWrite, Send, TypeInv
  <2>. QED BY <1>3, <2>2, <2>3 DEF RecvWrite
<1>4. CASE WriteFull
  <2>1. pty' \in [Slots -> Terminal]
    <3>1. pending.slot \in Slots /\ pending.data \in Seq(Datum)
      BY <1>4 DEF WriteFull, TypeInv, PlaceInv
    <3>2. pty[pending.slot].in \o pending.data \in Seq(Datum)
      BY <3>1, TerminalType
    <3>. QED BY <1>4, <3>1, <3>2 DEF WriteFull, TypeInv, Terminal
  <2>. QED BY <1>4, <2>1 DEF WriteFull, TypeInv
<1>5. CASE RecvClose
  BY <1>5, Reading1, CloseType DEF RecvClose, TypeInv
<1>6. CASE TransportEnds
  BY <1>6, CloseType DEF TransportEnds, TypeInv
<1>7. ASSUME NEW c \in Slots, PtyOutput(c) PROVE TypeInv'
  <2>1. Msg("WRTE", chan[c].local, chan[c].remote, pty[c].out) \in FromDevice
    BY <1>7, ChannelType, TerminalType, Messages DEF PtyOutput
  <2>2. chan' \in [Slots -> Channel] /\ pty' \in [Slots -> Terminal]
    <3>1. [pty[c] EXCEPT !.out = <<>>] \in Terminal /\ [chan[c] EXCEPT !.canSend = FALSE] \in Channel
      <4>1. pty[c] \in Terminal /\ chan[c] \in Channel
        BY DEF TypeInv
      <4>2. [pty[c] EXCEPT !.out = <<>>] \in Terminal
        <5>1. <<>> \in Seq(Datum)
          OBVIOUS
        <5>. QED BY <4>1, <5>1 DEF Terminal
      <4>. QED BY <4>1, <4>2 DEF Channel
    <3>. QED BY <1>7, <3>1 DEF PtyOutput, TypeInv
  <2>. QED BY <1>7, <2>1, <2>2, Sending DEF PtyOutput, Send, TypeInv
<1>8. ASSUME NEW c \in Slots, PtyEnds(c) PROVE TypeInv'
  <2>1. Msg("CLSE", chan[c].local, chan[c].remote, <<>>) \in FromDevice
    BY <1>8, ChannelType, Messages DEF PtyEnds
  <2>. QED BY <1>8, <2>1, Sending, CloseType DEF PtyEnds, Send, TypeInv
<1>9. CASE ServiceWrite
  <2>. DEFINE m == Head(toDev)
  <2>1. /\ m \in FromHost /\ m.arg0 \in Streams /\ m.data \in Seq(Datum)
        /\ toDev' \in Seq(FromHost) /\ pc = "service"
    BY <1>9, HeadOfHost, Reading1 DEF ServiceWrite, Recv, FromHost
  <2>2. /\ Msg("CLSE", serv.local, m.arg0, <<>>) \in FromDevice
        /\ Msg("OKAY", serv.local, serv.remote, <<>>) \in FromDevice
    BY <2>1, ServiceType, Messages
  <2>. HIDE DEF m
  <2>3. serv \in ServiceState
    BY DEF TypeInv
  <2>4. [serv EXCEPT !.in = m.data] \in ServiceState /\ [serv EXCEPT !.phase = "end"] \in ServiceState
    BY <2>1, <2>3 DEF ServiceState
  <2>5. CASE Refuse(m) /\ UNCHANGED serv
    BY <1>9, <2>1, <2>2, <2>5, Sending DEF ServiceWrite, Refuse, Send, TypeInv
  <2>6. CASE Accept(m)
    BY <1>9, <2>1, <2>2, <2>4, <2>6, Sending DEF ServiceWrite, Accept, Send, TypeInv
  <2>7. CASE Send(<<Msg("OKAY", serv.local, serv.remote, <<>>)>>) /\ Abort
    BY <1>9, <2>1, <2>2, <2>4, <2>7, Sending DEF ServiceWrite, Abort, Send, TypeInv
  <2>. QED BY <1>9, <2>5, <2>6, <2>7 DEF ServiceWrite, m
<1>10. CASE ServiceOkay
  <2>1. serv \in ServiceState
    BY DEF TypeInv
  <2>2. serv' \in ServiceState
    <3>1. CASE Reading
      BY <1>10, <2>1, <3>1 DEF ServiceOkay
    <3>2. CASE Waiting /\ ~Reading
      <4>1. serv.replies \in Nat /\ serv.replies > 0
        BY <2>1, <3>2 DEF Waiting, PlaceInv, ServiceState
      <4>2. serv' = [serv EXCEPT !.waiting = FALSE, !.replies = serv.replies - 1]
        BY <1>10, <3>2 DEF ServiceOkay
      <4>3. serv.replies - 1 \in Nat
        BY <4>1
      <4>. QED BY <2>1, <4>2, <4>3 DEF ServiceState
    <3>. QED BY <1>10, <3>1, <3>2 DEF ServiceOkay
  <2>. QED BY <1>10, <2>2, Reading1 DEF ServiceOkay, TypeInv
<1>11. CASE ServiceClose
  <2>1. serv' \in ServiceState
    BY <1>11 DEF ServiceClose, TypeInv, ServiceState
  <2>. QED BY <1>11, <2>1, Reading1 DEF ServiceClose, TypeInv
<1>12. CASE ServiceDrops
  BY <1>12, Reading1 DEF ServiceDrops, TypeInv
<1>13. CASE ServiceSend
  <2>1. serv' \in ServiceState /\ serv.last \in {"none", "last", "text"}
    BY <1>13 DEF ServiceSend, TypeInv, ServiceState
  <2>2. PICK x \in {"none", "last", "text", "more"} :
             toHost' = toHost \o <<Msg("WRTE", serv.local, serv.remote, <<x>>)>>
    BY <1>13, <2>1 DEF ServiceSend, Send
  <2>3. <<x>> \in Seq(Datum)
    BY DEF Datum, Words
  <2>4. Msg("WRTE", serv.local, serv.remote, <<x>>) \in FromDevice
    BY <1>13, <2>3, ServiceType, Messages DEF ServiceSend
  <2>. QED BY <1>13, <2>1, <2>2, <2>4, Sending DEF ServiceSend, TypeInv
<1>14. CASE Replied
  <2>1. serv' \in ServiceState
    BY <1>14 DEF Replied, TypeInv, ServiceState
  <2>. QED BY <1>14, <2>1 DEF Replied, TypeInv
<1>15. CASE SyncItem
  <2>1. serv \in ServiceState /\ Tail(serv.in) \in Seq(Datum)
    BY <1>15 DEF SyncItem, TypeInv, ServiceState
  <2>2. serv' \in ServiceState
    <3>1. ASSUME NEW n \in Nat, Reply(n) PROVE serv' \in ServiceState
      <4>1. serv' = [serv EXCEPT !.in = Tail(serv.in), !.phase = "reply", !.replies = n, !.last = "last"]
        BY <3>1 DEF Reply
      <4>. QED BY <2>1, <4>1 DEF ServiceState
    <3>2. \A phase \in {"end", "data"} :
            [serv EXCEPT !.in = Tail(serv.in), !.phase = phase] \in ServiceState
      BY <2>1 DEF ServiceState
    <3>3. [serv EXCEPT !.in = Tail(serv.in)] \in ServiceState
      BY <2>1 DEF ServiceState
    <3>4. CASE \E n \in 1..Answers : Reply(n)
      BY <3>1, <3>4, AdbAssumption
    <3>. QED BY <1>15, <3>1, <3>2, <3>3, <3>4 DEF SyncItem
  <2>. QED BY <1>15, <2>2 DEF SyncItem, TypeInv
<1>16. CASE ServiceEnds
  <2>1. Msg("CLSE", serv.local, serv.remote, <<>>) \in FromDevice
    BY <1>16, ServiceType, Messages DEF ServiceEnds
  <2>2. NoService \in ServiceState
    BY DEF NoService, ServiceState
  <2>3. toHost' \in Seq(FromDevice)
    <3>1. toHost \in Seq(FromDevice)
      BY DEF TypeInv
    <3>. QED BY <1>16, <2>1, <3>1, Sending DEF ServiceEnds, Send
  <2>. QED BY <1>16, <2>2, <2>3 DEF ServiceEnds, TypeInv
<1>. QED
  BY <1>1, <1>2, <1>3, <1>4, <1>5, <1>6, <1>7, <1>8, <1>9, <1>10, <1>11, <1>12, <1>13, <1>14, <1>15, <1>16
     DEF Transport

HostStep ==
  \/ HostRecv \/ Disconnect
  \/ \E s \in Streams : HostOpen(s) \/ HostWrite(s) \/ HostClose(s)
CommandStep == \E c \in Slots : CommandReads(c) \/ CommandWrites(c) \/ CommandExits(c)

LEMMA ThreeParts == [Next]_vars => Transport \/ HostStep \/ CommandStep \/ UNCHANGED vars
BY DEF Next, HostStep, CommandStep

(* The messages of the host. *)
LEMMA HostMessages ==
  ASSUME NEW s \in Streams, NEW id \in Nat
  PROVE  /\ Msg("OPEN", s, 0, <<>>) \in FromHost /\ Msg("OKAY", s, id, <<>>) \in FromHost
         /\ Msg("CLSE", s, id, <<>>) \in FromHost /\ Msg("CLSE", 0, id, <<>>) \in FromHost
         /\ \A data \in Seq(Datum) : Msg("WRTE", s, id, data) \in FromHost
BY DEF Msg, FromHost

LEMMA HostType ==
  ASSUME TypeInv, NEW s \in Streams
  PROVE  /\ host[s] \in HostState /\ host[s].peer \in Nat /\ host[s].sent \in Nat
         /\ host[s].got \in Seq(Datum) /\ host[s].credit \in BOOLEAN
         /\ host[s].state \in {"new", "opening", "open", "closed", "ended"}
BY DEF TypeInv, HostState

LEMMA HeadOfDaemon ==
  ASSUME TypeInv, toHost # <<>>
  PROVE  LET m == Head(toHost)
         IN  /\ m \in FromDevice /\ m \in In(toHost) /\ m.arg1 \in Streams /\ m.arg0 \in Nat
             /\ m.data \in Seq(Datum) /\ m.cmd \in {"OKAY", "WRTE", "CLSE"}
             /\ Tail(toHost) \in Seq(FromDevice) /\ In(toHost) = In(Tail(toHost)) \cup {m}
<1>1. /\ Head(toHost) \in FromDevice /\ Tail(toHost) \in Seq(FromDevice)
      /\ In(toHost) = In(Tail(toHost)) \cup {Head(toHost)}
  BY InTail DEF TypeInv
<1>. QED BY <1>1 DEF FromDevice

LEMMA HostTypeStep ==
  ASSUME TypeInv, HostStep
  PROVE  TypeInv'
<1>. USE DEF net, channels, history
<1>1. ASSUME NEW s \in Streams, HostOpen(s) PROVE TypeInv'
  <2>1. host' \in [Streams -> HostState]
    <3>1. host \in [Streams -> HostState] /\ host[s] \in HostState
      BY DEF TypeInv
    <3>2. [host[s] EXCEPT !.state = "opening"] \in HostState
      BY <3>1 DEF HostState
    <3>. QED BY <1>1, <3>1, <3>2 DEF HostOpen
  <2>. QED BY <1>1, <2>1, HostMessages, HostSending DEF HostOpen, TypeInv
<1>2. ASSUME NEW s \in Streams, HostWrite(s) PROVE TypeInv'
  <2>1. PICK data \in Items(s), early \in BOOLEAN :
          /\ toDev' = Append(toDev, Msg("WRTE", s, host[s].peer, data))
          /\ host' = [host EXCEPT ![s].credit = FALSE, ![s].sent = host[s].sent + Len(data), ![s].ahead = early]
    BY <1>2, HostType DEF HostWrite, HostState
  <2>2. data \in Seq(Datum) /\ Len(data) \in Nat
    BY ItemsType
  <2>3. Msg("WRTE", s, host[s].peer, data) \in FromHost
    BY <2>2, HostType, HostMessages
  <2>4. host' \in [Streams -> HostState]
    <3>1. host[s].sent + Len(data) \in Nat
      BY <2>2, HostType
    <3>2. host \in [Streams -> HostState] /\ host[s] \in HostState
      BY DEF TypeInv
    <3>3. [host[s] EXCEPT !.credit = FALSE, !.sent = host[s].sent + Len(data), !.ahead = early] \in HostState
      BY <3>1, <3>2 DEF HostState
    <3>. QED BY <2>1, <3>2, <3>3
  <2>. QED BY <1>2, <2>1, <2>3, <2>4, HostSending DEF HostWrite, TypeInv
<1>3. ASSUME NEW s \in Streams, HostClose(s) PROVE TypeInv'
  <2>1. host' \in [Streams -> HostState]
    <3>1. host \in [Streams -> HostState] /\ host[s] \in HostState
      BY DEF TypeInv
    <3>2. [host[s] EXCEPT !.state = "closed"] \in HostState
      BY <3>1 DEF HostState
    <3>. QED BY <1>3, <3>1, <3>2 DEF HostClose
  <2>. QED BY <1>3, <2>1, HostType, HostMessages, HostSending DEF HostClose, TypeInv
<1>4. CASE HostRecv
  <2>. DEFINE m == Head(toHost)
              s == m.arg1
  <2>1. /\ s \in Streams /\ m.arg0 \in Nat /\ m.data \in Seq(Datum)
        /\ Tail(toHost) \in Seq(FromDevice)
    BY <1>4, HeadOfDaemon DEF HostRecv
  <2>. HIDE DEF m
  <2>2. toDev' \in Seq(FromHost)
    <3>1. toDev \in Seq(FromHost)
      BY DEF TypeInv
    <3>2. /\ Append(toDev, Msg("OKAY", s, m.arg0, <<>>)) \in Seq(FromHost)
          /\ Append(toDev, Msg("CLSE", 0, m.arg0, <<>>)) \in Seq(FromHost)
      BY <2>1, HostMessages, HostSending
    <3>. QED BY <1>4, <3>1, <3>2 DEF HostRecv, m
  <2>3. host' \in [Streams -> HostState]
    <3>0. host \in [Streams -> HostState] /\ host[s] \in HostState
      BY <2>1 DEF TypeInv
    <3>2. /\ [host[s] EXCEPT !.state = "open", !.peer = m.arg0, !.credit = TRUE] \in HostState
          /\ [host[s] EXCEPT !.credit = TRUE] \in HostState
          /\ [host[s] EXCEPT !.state = "ended"] \in HostState
      BY <2>1, <3>0 DEF HostState
    <3>4. [host[s] EXCEPT !.answered = @ + 1] \in HostState
      <4>1. host[s].answered + 1 \in Nat
        BY <3>0 DEF HostState
      <4>. QED BY <3>0, <4>1 DEF HostState
    <3>3. [host[s] EXCEPT !.got = @ \o m.data] \in HostState
      <4>1. host[s].got \o m.data \in Seq(Datum)
        BY <2>1, HostType
      <4>. QED BY <3>0, <4>1 DEF HostState
    <3>5. CASE m.cmd = "OKAY"
      BY <1>4, <3>0, <3>2, <3>5 DEF HostRecv, m
    <3>6. CASE m.cmd = "WRTE"
      BY <1>4, <3>0, <3>3, <3>4, <3>6 DEF HostRecv, m
    <3>7. CASE m.cmd = "CLSE"
      BY <1>4, <3>0, <3>2, <3>7 DEF HostRecv, m
    <3>. QED BY <1>4, <3>0, <3>5, <3>6, <3>7 DEF HostRecv, m
  <2>. QED BY <1>4, <2>1, <2>2, <2>3 DEF HostRecv, TypeInv, m
<1>5. CASE Disconnect
  BY <1>5 DEF Disconnect, TypeInv
<1>. QED BY <1>1, <1>2, <1>3, <1>4, <1>5 DEF HostStep

LEMMA CommandTypeStep ==
  ASSUME TypeInv, PlaceInv, CommandStep
  PROVE  TypeInv'
<1>. USE DEF net, history
<1>. PICK c \in Slots : CommandReads(c) \/ CommandWrites(c) \/ CommandExits(c)
  BY DEF CommandStep
<1>1. CASE pty[c].alive
  <2>0. /\ chan[c].remote \in Shells /\ pty \in [Slots -> Terminal] /\ pty[c] \in Terminal
        /\ given \in [Shells -> Seq(Datum)] /\ made \in [Shells -> Seq(Datum)]
    BY <1>1, ChannelType DEF PlaceInv, TypeInv
  <2>1. CASE CommandReads(c)
    <3>1. Head(pty[c].in) \in Datum /\ Tail(pty[c].in) \in Seq(Datum) /\ <<Head(pty[c].in)>> \in Seq(Datum)
      BY <2>1, TerminalType, HeadTailProperties DEF CommandReads
    <3>2. pty' \in [Slots -> Terminal]
      BY <2>0, <2>1, <3>1 DEF CommandReads, Terminal
    <3>3. given' \in [Shells -> Seq(Datum)]
      BY <2>0, <2>1, <3>1 DEF CommandReads
    <3>. QED BY <2>1, <3>2, <3>3 DEF CommandReads, TypeInv
  <2>2. CASE CommandWrites(c)
    <3>1. pty[c].out \o pty[c].held \in Seq(Datum) /\ made[chan[c].remote] \o pty[c].held \in Seq(Datum)
      BY <2>0, TerminalType
    <3>2. pty' \in [Slots -> Terminal]
      <4>1. <<>> \in Seq(Datum)
        OBVIOUS
      <4>. QED BY <2>0, <2>2, <3>1, <4>1 DEF CommandWrites, Terminal
    <3>3. made' \in [Shells -> Seq(Datum)]
      BY <2>0, <2>2, <3>1 DEF CommandWrites
    <3>. QED BY <2>2, <3>2, <3>3 DEF CommandWrites, TypeInv
  <2>3. CASE CommandExits(c)
    <3>1. pty' \in [Slots -> Terminal]
      BY <2>0, <2>3 DEF CommandExits, Terminal
    <3>. QED BY <2>3, <3>1 DEF CommandExits, TypeInv
  <2>. QED BY <2>1, <2>2, <2>3
<1>. QED BY <1>1 DEF CommandReads, CommandWrites, CommandExits

LEMMA TypeStep == TypeInv /\ PlaceInv /\ HostInv /\ [Next]_vars => TypeInv'
<1>. SUFFICES ASSUME TypeInv, PlaceInv, HostInv, [Next]_vars PROVE TypeInv'
  OBVIOUS
<1>1. CASE UNCHANGED vars
  BY <1>1 DEF vars, TypeInv
<1>. QED BY <1>1, ThreeParts, DaemonTypeStep, HostTypeStep, CommandTypeStep
-------------------------------------------------------------------------------
(* The places of the program, and the ids. *)

(* The channels are those that were open before, and none has come back to life. *)
SameChannels ==
  \A c \in Slots : /\ chan'[c].open => /\ chan[c].open /\ chan'[c].local = chan[c].local
                                       /\ chan'[c].remote = chan[c].remote
                   /\ pty'[c].alive => pty[c].alive /\ (chan[c].open => chan'[c].open)

LEMMA InitPlace == Init => PlaceInv
BY DEF Init, PlaceInv, Closed, NoPty, NoService, Slots

LEMMA KeepsChannels ==
  ASSUME TypeInv, PlaceInv, [Next]_vars, ~RecvOpen
  PROVE  SameChannels
<1>0. /\ \A cs : CloseChannels(cs) => SameChannels
      /\ (UNCHANGED <<chan, pty>> => SameChannels)
  BY DEF CloseChannels, SameChannels, Closed, NoPty
<1>1. CASE RecvOkay
  BY <1>1 DEF RecvOkay, SameChannels, TypeInv, Channel
<1>2. CASE WriteFull
  BY <1>2 DEF WriteFull, SameChannels, TypeInv, Terminal
<1>3. ASSUME NEW c \in Slots, PtyOutput(c) PROVE SameChannels
  BY <1>3 DEF PtyOutput, SameChannels, TypeInv, Terminal, Channel
<1>4. ASSUME NEW c \in Slots, CommandReads(c) \/ CommandWrites(c) \/ CommandExits(c) PROVE SameChannels
  BY <1>4 DEF CommandReads, CommandWrites, CommandExits, SameChannels, TypeInv, Terminal
<1>. QED BY <1>0, <1>1, <1>2, <1>3, <1>4 DEF Next, Transport, RecvWrite, RecvClose, TransportEnds, PtyEnds,
       ServiceWrite, ServiceOkay, ServiceClose, ServiceDrops, ServiceSend, Replied, SyncItem, ServiceEnds,
       HostRecv, Disconnect, HostOpen, HostWrite, HostClose, vars, channels

LEMMA ServiceStays ==
  ASSUME TypeInv, PlaceInv, [Next]_vars, ~RecvOpen, ~RecvWrite
  PROVE  /\ pc' \in {"select", "write"} => serv' = NoService
         /\ pc' = "service" => pc = "service" /\ serv'.remote = serv.remote /\ serv'.local = serv.local
         /\ serv'.waiting => serv'.replies > 0
<1>. USE DEF net, channels, history
<1>0. /\ pc \in {"select", "write"} => serv = NoService
      /\ serv.waiting => serv.replies > 0
      /\ serv \in ServiceState
  BY DEF TypeInv, PlaceInv
<1>1. CASE serv' = serv /\ (pc' = pc \/ (pc = "write" /\ pc' = "select") \/ pc' = "gone")
  BY <1>0, <1>1
<1>2. CASE ServiceWrite \/ ServiceClose \/ ServiceSend \/ Replied
  BY <1>0, <1>2 DEF ServiceWrite, Accept, Abort, ServiceClose, ServiceSend, Replied, Recv, ServiceState
<1>3. CASE ServiceOkay
  <2>1. pc = "service" /\ pc' = pc
    BY <1>3 DEF ServiceOkay, Recv
  <2>2. serv'.waiting => serv' = serv
    BY <1>0, <1>3 DEF ServiceOkay, ServiceState
  <2>3. serv'.remote = serv.remote /\ serv'.local = serv.local
    BY <1>0, <1>3 DEF ServiceOkay, ServiceState
  <2>. QED BY <1>0, <2>1, <2>2, <2>3
<1>4. CASE SyncItem
  <2>1. pc = "service" /\ pc' = pc
    BY <1>4 DEF SyncItem
  <2>2. serv'.waiting = serv.waiting /\ serv'.remote = serv.remote /\ serv'.local = serv.local
    BY <1>0, <1>4 DEF SyncItem, Reply, ServiceState
  <2>3. serv'.replies = serv.replies \/ serv'.replies \in 1..Answers \cup {1}
    BY <1>0, <1>4 DEF SyncItem, Reply, ServiceState
  <2>. QED BY <1>0, <2>1, <2>2, <2>3, AdbAssumption DEF ServiceState
<1>5. CASE ServiceEnds
  BY <1>5 DEF ServiceEnds, NoService
<1>. QED
  BY <1>1, <1>2, <1>3, <1>4, <1>5 DEF Next, Transport, RecvOkay, WriteFull, RecvClose, TransportEnds,
     PtyOutput, PtyEnds, ServiceDrops, HostRecv, Disconnect, HostOpen, HostWrite, HostClose, CommandReads,
     CommandWrites, CommandExits, Recv, vars

LEMMA PlaceStep == TypeInv /\ PlaceInv /\ HostInv /\ [Next]_vars => PlaceInv'
<1>. SUFFICES ASSUME TypeInv, PlaceInv, HostInv, [Next]_vars PROVE PlaceInv'
  OBVIOUS
<1>. USE DEF net, channels, history
<1>0. nextId \in Nat /\ serv \in ServiceState
  BY DEF TypeInv
<1>1. CASE RecvOpen
  <2>. DEFINE s == Head(toDev).arg0
  <2>1. s \in Streams /\ nextId' = nextId + 1 /\ pending' = pending /\ pc = "select" /\ pending.slot = 0
    BY <1>1, HeadOfHost DEF RecvOpen, Recv, PlaceInv
  <2>. HIDE DEF s
  <2>2. CASE UNCHANGED <<pc, serv, chan, pty>>
    BY <1>0, <2>1, <2>2 DEF PlaceInv
  <2>3. CASE OpenShell(s) /\ s \in Shells /\ OpenSlots # Slots /\ UNCHANGED <<pc, serv>> /\ ~UNCHANGED <<chan, pty>>
    <3>1. FirstFree \in Slots /\ ~chan[FirstFree].open
      BY <2>3, FreeSlot
    <3>2. /\ \A c \in Slots : c # FirstFree => chan'[c] = chan[c] /\ pty'[c] = pty[c]
          /\ chan'[FirstFree].open /\ chan'[FirstFree].local = nextId /\ chan'[FirstFree].remote = s
      BY <2>3, <3>1 DEF OpenShell, TypeInv, LocalId
    <3>3. \A c \in Slots : chan'[c].open =>
            \/ c = FirstFree
            \/ /\ chan[c].open /\ chan'[c] = chan[c] /\ chan[c].local \in Nat /\ chan[c].local < nextId
               /\ chan[c].local > 0 /\ chan[c].remote \in Shells
      BY <3>2, ChannelType
    <3>4. \A c \in Slots : chan'[c].open => chan'[c].remote \in Shells /\ chan'[c].local \in 1..(nextId' - 1)
      <4>1. nextId' - 1 = nextId
        BY <1>0, <2>1
      <4>2. nextId \in 1..nextId
        BY <1>0 DEF TypeInv
      <4>. QED BY <1>0, <2>3, <3>2, <3>3, <4>1, <4>2
    <3>5. \A c, d \in Slots : chan'[c].open /\ chan'[d].open /\ chan'[c].local = chan'[d].local => c = d
      BY <1>0, <3>2, <3>3 DEF PlaceInv
    <3>6. \A c \in Slots : pty'[c].alive => chan'[c].open
      BY <3>2 DEF PlaceInv
    <3>. QED BY <1>0, <2>1, <2>3, <3>4, <3>5, <3>6 DEF PlaceInv
  <2>4. ASSUME NEW phase \in {"cmd", "reply"}, NEW last \in {"none", "text"},
               OpenService(s, phase, last), UNCHANGED <<chan, pty>>, s \notin Shells
        PROVE  PlaceInv'
    <3>1. serv'.local = nextId /\ serv'.remote = s /\ serv'.waiting = FALSE /\ pc' = "service"
      BY <2>4 DEF OpenService, Service, NoService, LocalId
    <3>2. \A c \in Slots : chan'[c].open => chan'[c].local \in 1..(nextId' - 1)
      BY <1>0, <2>1, <2>4 DEF PlaceInv
    <3>3. nextId \in 1..(nextId' - 1)
      BY <1>0, <2>1 DEF TypeInv
    <3>. QED BY <2>1, <2>4, <3>1, <3>2, <3>3 DEF PlaceInv
  <2>. QED BY <1>1, <2>2, <2>3, <2>4, AdbAssumption DEF RecvOpen, s
<1>2. CASE RecvWrite
  <2>. DEFINE m == Head(toDev)
  <2>1. UNCHANGED <<chan, pty, serv, nextId>> /\ pc = "select"
    BY <1>2 DEF RecvWrite, Recv
  <2>2. ASSUME NEW c \in ChannelOf(m.arg1), pending' = [slot |-> c, data |-> m.data], pc' = "write"
        PROVE  PlaceInv'
    <3>1. c \in Slots /\ chan[c].open /\ pending'.slot = c /\ c # 0
      BY <2>2 DEF ChannelOf, OpenSlots, Slots
    <3>. QED BY <2>1, <2>2, <3>1 DEF PlaceInv
  <2>3. CASE UNCHANGED <<pc, pending>>
    BY <2>1, <2>3 DEF PlaceInv
  <2>. QED BY <1>2, <2>2, <2>3 DEF RecvWrite
<1>3. CASE ~RecvOpen /\ ~RecvWrite
  <2>1. SameChannels
    BY <1>3, KeepsChannels
  <2>2. /\ nextId' = nextId
        /\ \/ pending' = pending /\ (pc' = "write" <=> pc = "write")
              /\ \A c \in Slots : pending.slot = c => chan'[c].open = chan[c].open
           \/ pending'.slot = 0 /\ pc' # "write"
    <3>1. CASE WriteFull
      BY <3>1 DEF WriteFull
    <3>2. CASE RecvClose \/ \E c \in Slots : PtyEnds(c)
      BY <3>2 DEF RecvClose, PtyEnds, Recv, PlaceInv, Slots
    <3>3. CASE TransportEnds
      BY <3>3 DEF TransportEnds, PlaceInv, Slots
    <3>4. CASE RecvOkay
      BY <3>4 DEF RecvOkay, PlaceInv, TypeInv, Channel
    <3>5. ASSUME NEW c \in Slots, PtyOutput(c) 
          PROVE  chan'[c].open = chan[c].open /\ \A d \in Slots \ {c} : chan'[d] = chan[d]
      BY <3>5 DEF PtyOutput, PlaceInv, TypeInv, Channel
    <3>. QED BY <1>3, <3>1, <3>2, <3>3, <3>4, <3>5 DEF Next, Transport, PtyOutput,
           ServiceWrite, ServiceOkay, ServiceClose, ServiceDrops, ServiceSend, Replied, SyncItem, ServiceEnds,
           HostRecv, Disconnect, HostOpen, HostWrite, HostClose, CommandReads, CommandWrites, CommandExits,
           Recv, vars
  <2>3. pending'.slot # 0 => pending'.slot \in Slots
    BY <2>2 DEF TypeInv
  <2>4. /\ pc' \in {"select", "write"} => serv' = NoService
        /\ pc' = "service" => pc = "service" /\ serv'.remote = serv.remote /\ serv'.local = serv.local
        /\ serv'.waiting => serv'.replies > 0
    BY <1>3, ServiceStays
  <2>. QED BY <1>0, <2>1, <2>2, <2>3, <2>4 DEF PlaceInv, SameChannels
<1>. QED BY <1>1, <1>2, <1>3

(* What the daemon reads, and what it sends in answer; an OPEN is a matter of its own. *)
LEMMA DaemonFrame ==
  ASSUME TypeInv, Transport
  PROVE  /\ UNCHANGED <<link, host, given, made>>
         /\ toDev' = toDev \/ (toDev # <<>> /\ toDev' = Tail(toDev) /\ In(toDev) = In(toDev') \cup {Head(toDev)})
<1>1. UNCHANGED <<link, host, given, made>> /\ (toDev' = toDev \/ (toDev # <<>> /\ toDev' = Tail(toDev)))
  BY DEF Transport, RecvOpen, RecvOkay, RecvWrite, WriteFull, RecvClose, TransportEnds, PtyOutput, PtyEnds,
     ServiceWrite, ServiceOkay, ServiceClose, ServiceDrops, ServiceSend, Replied, SyncItem, ServiceEnds,
     Recv, net, history
<1>. QED BY <1>1, InTail DEF TypeInv

Sends(m) ==
  /\ m \in FromDevice /\ toHost' = Append(toHost, m) /\ In(toHost') = In(toHost) \cup {m}
  /\ \/ \E c \in Slots : PtyOutput(c) /\ m = Msg("WRTE", chan[c].local, chan[c].remote, pty[c].out)
     \/ \E c \in Slots : PtyEnds(c) /\ m = Msg("CLSE", chan[c].local, chan[c].remote, <<>>)
     \/ /\ RecvWrite
        /\ \E c \in ChannelOf(Head(toDev).arg1) :
             /\ m = Msg("OKAY", chan[c].local, chan[c].remote, <<>>)
             /\ pending' = [slot |-> c, data |-> Head(toDev).data]
     \/ /\ RecvWrite /\ ChannelOf(Head(toDev).arg1) = {} /\ pending' = pending
        /\ m = Msg("CLSE", Head(toDev).arg1, Head(toDev).arg0, <<>>)
     \/ /\ ServiceWrite /\ pc = "service"
        /\ m = Msg("CLSE", serv.local, Head(toDev).arg0, <<>>)
     \/ pc = "service" /\ UNCHANGED <<chan, pty, pending>> /\ m.arg0 = serv.local /\ m.arg1 = serv.remote

LEMMA DaemonSends ==
  ASSUME TypeInv, PlaceInv, HostInv, Transport, ~RecvOpen, toHost' # toHost
  PROVE  \E m \in FromDevice : Sends(m)
<1>1. CASE RecvWrite
  <2>. DEFINE m == Head(toDev)
  <2>1. m \in FromHost /\ m.arg0 \in Streams /\ m.arg1 \in Nat
    BY <1>1, HeadOfHost DEF RecvWrite, Recv, FromHost
  <2>2. ASSUME NEW c \in ChannelOf(m.arg1),
               Send(<<Msg("OKAY", chan[c].local, chan[c].remote, <<>>)>>),
               pending' = [slot |-> c, data |-> m.data]
        PROVE  Sends(Msg("OKAY", chan[c].local, chan[c].remote, <<>>))
    <3>1. c \in Slots /\ chan[c].open
      BY <2>2 DEF ChannelOf, OpenSlots
    <3>2. Msg("OKAY", chan[c].local, chan[c].remote, <<>>) \in FromDevice
      BY <3>1, ChannelType, Messages
    <3>. QED BY <1>1, <2>2, <3>2, Sending DEF Send, Sends
  <2>3. ASSUME Send(<<Msg("CLSE", m.arg1, m.arg0, <<>>)>>), pending' = pending, ChannelOf(m.arg1) = {}
        PROVE  Sends(Msg("CLSE", m.arg1, m.arg0, <<>>))
    <3>1. Msg("CLSE", m.arg1, m.arg0, <<>>) \in FromDevice
      BY <2>1, Messages
    <3>. QED BY <1>1, <2>3, <3>1, Sending DEF Send, Sends
  <2>. QED BY <1>1, <2>2, <2>3 DEF RecvWrite, Sends
<1>2. ASSUME NEW c \in Slots, PtyOutput(c) PROVE \E m \in FromDevice : Sends(m)
  <2>1. Msg("WRTE", chan[c].local, chan[c].remote, pty[c].out) \in FromDevice
    BY <1>2, ChannelType, TerminalType, Messages DEF PtyOutput
  <2>. QED BY <1>2, <2>1, Sending DEF PtyOutput, Send, Sends
<1>3. ASSUME NEW c \in Slots, PtyEnds(c) PROVE \E m \in FromDevice : Sends(m)
  <2>1. Msg("CLSE", chan[c].local, chan[c].remote, <<>>) \in FromDevice
    BY <1>3, ChannelType, Messages DEF PtyEnds
  <2>. QED BY <1>3, <2>1, Sending DEF PtyEnds, Send, Sends
<1>4. CASE ServiceWrite
  <2>. DEFINE m == Head(toDev)
  <2>1. m \in FromHost /\ m.arg0 \in Streams /\ pc = "service"
    BY <1>4, HeadOfHost DEF ServiceWrite, Recv, FromHost
  <2>2. /\ Msg("CLSE", serv.local, m.arg0, <<>>) \in FromDevice
        /\ Msg("OKAY", serv.local, serv.remote, <<>>) \in FromDevice
        /\ Msg("OKAY", serv.local, serv.remote, <<>>).arg0 = serv.local
        /\ Msg("OKAY", serv.local, serv.remote, <<>>).arg1 = serv.remote
    BY <2>1, ServiceType, Messages DEF Msg
  <2>3. UNCHANGED <<chan, pty, pending>>
    BY <1>4 DEF ServiceWrite, channels
  <2>4. CASE Refuse(m)
    BY <1>4, <2>1, <2>2, <2>4, Sending DEF Refuse, Send, Sends
  <2>5. CASE Send(<<Msg("OKAY", serv.local, serv.remote, <<>>)>>)
    BY <2>1, <2>2, <2>3, <2>5, Sending DEF Send, Sends
  <2>. QED BY <1>4, <2>4, <2>5 DEF ServiceWrite, Accept
<1>5. CASE ServiceSend
  <2>1. PICK x \in {"none", "last", "text", "more"} :
             toHost' = toHost \o <<Msg("WRTE", serv.local, serv.remote, <<x>>)>>
    BY <1>5 DEF ServiceSend, Send, TypeInv, ServiceState
  <2>2. pc = "service" /\ UNCHANGED <<chan, pty, pending>> /\ <<x>> \in Seq(Datum)
    BY <1>5 DEF ServiceSend, channels, Datum, Words
  <2>3. /\ Msg("WRTE", serv.local, serv.remote, <<x>>) \in FromDevice
        /\ Msg("WRTE", serv.local, serv.remote, <<x>>).arg0 = serv.local
        /\ Msg("WRTE", serv.local, serv.remote, <<x>>).arg1 = serv.remote
    BY <2>2, ServiceType, Messages DEF Msg
  <2>. QED BY <2>1, <2>2, <2>3, Sending DEF Sends
<1>6. CASE ServiceEnds
  <2>1. /\ pc = "service" /\ UNCHANGED <<chan, pty, pending>>
        /\ toHost' = toHost \o <<Msg("CLSE", serv.local, serv.remote, <<>>)>>
    BY <1>6 DEF ServiceEnds, Send, channels
  <2>2. /\ Msg("CLSE", serv.local, serv.remote, <<>>) \in FromDevice
        /\ Msg("CLSE", serv.local, serv.remote, <<>>).arg0 = serv.local
        /\ Msg("CLSE", serv.local, serv.remote, <<>>).arg1 = serv.remote
    BY <2>1, ServiceType, Messages DEF Msg
  <2>. QED BY <2>1, <2>2, Sending DEF Sends
<1>. QED
  BY <1>1, <1>2, <1>3, <1>4, <1>5, <1>6 DEF Transport, RecvOkay, WriteFull, RecvClose, TransportEnds,
     ServiceOkay, ServiceClose, ServiceDrops, Replied, SyncItem, Recv, net, history

(* What the host does, field by field. *)
daemonVars == <<pc, nextId, chan, pty, pending, serv, given, made>>

Opens(s) ==
  /\ link /\ host[s].state = "new" /\ host'[s] = [host[s] EXCEPT !.state = "opening"]
  /\ toDev' = Append(toDev, Msg("OPEN", s, 0, <<>>))
  /\ In(toDev') = In(toDev) \cup {Msg("OPEN", s, 0, <<>>)}
Writes(s, data) ==
  /\ link /\ host[s].state = "open" /\ host[s].credit
  /\ toDev' = Append(toDev, Msg("WRTE", s, host[s].peer, data))
  /\ In(toDev') = In(toDev) \cup {Msg("WRTE", s, host[s].peer, data)}
  /\ host'[s].state = "open" /\ host'[s].peer = host[s].peer /\ host'[s].got = host[s].got
  /\ host'[s].credit = FALSE /\ host'[s].sent = host[s].sent + Len(data)
Closes(s) ==
  /\ host[s].state = "open" /\ host'[s] = [host[s] EXCEPT !.state = "closed"]
  /\ toDev' = Append(toDev, Msg("CLSE", s, host[s].peer, <<>>))
  /\ In(toDev') = In(toDev) \cup {Msg("CLSE", s, host[s].peer, <<>>)}

LEMMA HostActs ==
  ASSUME TypeInv, NEW s \in Streams, HostOpen(s) \/ HostWrite(s) \/ HostClose(s)
  PROVE  /\ UNCHANGED daemonVars /\ toHost' = toHost /\ link' = link
         /\ \A t \in Streams \ {s} : host'[t] = host[t]
         /\ Opens(s) \/ Closes(s) \/ \E data \in Items(s) : Writes(s, data)
         /\ HostWrite(s) => \E data \in Items(s) : Writes(s, data)
<1>0. host \in [Streams -> HostState] /\ host[s] \in HostState
  BY DEF TypeInv
<1>. USE DEF daemonVars, channels, history
<1>1. ASSUME HostOpen(s) PROVE Opens(s) /\ \A t \in Streams \ {s} : host'[t] = host[t]
  BY <1>0, <1>1, HostMessages, HostSending DEF HostOpen, Opens
<1>2. ASSUME HostClose(s) PROVE Closes(s) /\ \A t \in Streams \ {s} : host'[t] = host[t]
  BY <1>0, <1>2, HostType, HostMessages, HostSending DEF HostClose, Closes
<1>3. ASSUME HostWrite(s)
      PROVE  (\E data \in Items(s) : Writes(s, data)) /\ \A t \in Streams \ {s} : host'[t] = host[t]
  <2>1. PICK data \in Items(s), early \in BOOLEAN :
          /\ toDev' = Append(toDev, Msg("WRTE", s, host[s].peer, data))
          /\ host' = [host EXCEPT ![s].credit = FALSE, ![s].sent = host[s].sent + Len(data), ![s].ahead = early]
    BY <1>3, HostType DEF HostWrite, HostState
  <2>2. Msg("WRTE", s, host[s].peer, data) \in FromHost
    BY ItemsType, HostType, HostMessages
  <2>3. In(toDev') = In(toDev) \cup {Msg("WRTE", s, host[s].peer, data)}
    BY <2>1, <2>2, HostSending
  <2>4. /\ host'[s].state = host[s].state /\ host'[s].peer = host[s].peer /\ host'[s].got = host[s].got
        /\ host'[s].credit = FALSE /\ host'[s].sent = host[s].sent + Len(data)
        /\ \A t \in Streams \ {s} : host'[t] = host[t]
    BY <1>0, <2>1 DEF HostState
  <2>. QED BY <1>3, <2>1, <2>3, <2>4 DEF HostWrite, Writes
<1>. QED BY <1>1, <1>2, <1>3 DEF HostOpen, HostWrite, HostClose

Known(m, s) == host[s].state = "open" /\ host[s].peer = m.arg0

(* The first OKAY of a stream, another one, a WRTE, a CLSE, and anything else. *)
HearsFirst(m, s) ==
  /\ m.cmd = "OKAY" /\ host[s].state = "opening" /\ toDev' = toDev
  /\ host'[s].state = "open" /\ host'[s].peer = m.arg0 /\ host'[s].credit
  /\ host'[s].sent = host[s].sent /\ host'[s].got = host[s].got
HearsOkay(m, s) ==
  /\ m.cmd = "OKAY" /\ Known(m, s) /\ toDev' = toDev
  /\ host'[s].state = "open" /\ host'[s].peer = m.arg0 /\ host'[s].credit
  /\ host'[s].sent = host[s].sent /\ host'[s].got = host[s].got
HearsWrite(m, s) ==
  /\ m.cmd = "WRTE" /\ Known(m, s)
  /\ toDev' = Append(toDev, Msg("OKAY", s, m.arg0, <<>>))
  /\ In(toDev') = In(toDev) \cup {Msg("OKAY", s, m.arg0, <<>>)}
  /\ host'[s].state = "open" /\ host'[s].peer = host[s].peer /\ host'[s].credit = host[s].credit
  /\ host'[s].sent = host[s].sent /\ (s \in Shells => host'[s].got = host[s].got \o m.data)
HearsClose(m, s) ==
  /\ m.cmd = "CLSE" /\ (host[s].state = "opening" \/ Known(m, s))
  /\ host'[s].state = "ended" /\ host'[s].peer = host[s].peer /\ host'[s].credit = host[s].credit
  /\ host'[s].sent = host[s].sent /\ host'[s].got = host[s].got
  /\ \/ toDev' = toDev
     \/ /\ Known(m, s) /\ toDev' = Append(toDev, Msg("CLSE", 0, m.arg0, <<>>))
        /\ In(toDev') = In(toDev) \cup {Msg("CLSE", 0, m.arg0, <<>>)}
HearsNothing(m, s) ==
  /\ host[s].state = "opening" => m.cmd = "WRTE"
  /\ ~Known(m, s)
  /\ host'[s] = host[s] /\ toDev' = toDev

LEMMA HostHears ==
  ASSUME TypeInv, HostRecv
  PROVE  \E m \in FromDevice : \E s \in Streams :
           /\ m = Head(toHost) /\ s = m.arg1 /\ toHost # <<>> /\ link
           /\ UNCHANGED daemonVars /\ link' = link
           /\ toHost' = Tail(toHost) /\ In(toHost) = In(toHost') \cup {m}
           /\ \A t \in Streams \ {s} : host'[t] = host[t]
           /\ \/ HearsFirst(m, s) \/ HearsOkay(m, s) \/ HearsWrite(m, s) \/ HearsClose(m, s)
              \/ HearsNothing(m, s)
<1>. DEFINE m == Head(toHost)
            s == m.arg1
<1>0. host \in [Streams -> HostState] /\ toHost # <<>>
  BY DEF TypeInv, HostRecv
<1>1. /\ m \in FromDevice /\ s \in Streams /\ m.arg0 \in Nat /\ m.cmd \in {"OKAY", "WRTE", "CLSE"}
      /\ In(toHost) = In(Tail(toHost)) \cup {m}
  BY <1>0, HeadOfDaemon
<1>2. host[s] \in HostState
  BY <1>0, <1>1
<1>3. /\ UNCHANGED daemonVars /\ link /\ link' = link /\ toHost' = Tail(toHost)
  BY DEF HostRecv, daemonVars, channels, history
<1>4. ASSUME m.cmd = "OKAY"
      PROVE  /\ HearsFirst(m, s) \/ HearsOkay(m, s) \/ HearsNothing(m, s)
             /\ \A t \in Streams \ {s} : host'[t] = host[t]
  <2>1. CASE host[s].state = "opening"
    <3>1. /\ host' = [host EXCEPT ![s].state = "open", ![s].peer = m.arg0, ![s].credit = TRUE]
          /\ toDev' = toDev
      BY <1>4, <2>1 DEF HostRecv
    <3>2. /\ host'[s] = [host[s] EXCEPT !.state = "open", !.peer = m.arg0, !.credit = TRUE]
          /\ \A t \in Streams \ {s} : host'[t] = host[t]
      BY <1>0, <1>1, <3>1
    <3>. HIDE DEF m, s
    <3>3. /\ host'[s].state = "open" /\ host'[s].peer = m.arg0 /\ host'[s].credit = TRUE
          /\ host'[s].sent = host[s].sent /\ host'[s].got = host[s].got
      BY <1>2, <3>2 DEF HostState
    <3>. QED BY <1>4, <2>1, <3>1, <3>2, <3>3 DEF HearsFirst
  <2>2. CASE Known(m, s)
    <3>1. host' = [host EXCEPT ![s].credit = TRUE] /\ toDev' = toDev
      BY <1>4, <2>2 DEF HostRecv, Known
    <3>2. /\ host'[s] = [host[s] EXCEPT !.credit = TRUE]
          /\ \A t \in Streams \ {s} : host'[t] = host[t]
      BY <1>0, <1>1, <3>1
    <3>. HIDE DEF m, s
    <3>. QED BY <1>2, <1>4, <2>2, <3>1, <3>2 DEF HearsOkay, Known, HostState
  <2>3. CASE host[s].state # "opening" /\ ~Known(m, s)
    BY <1>4, <2>3 DEF HostRecv, HearsNothing, Known
  <2>. QED BY <2>1, <2>2, <2>3
<1>5. ASSUME m.cmd = "WRTE"
      PROVE  /\ HearsWrite(m, s) \/ HearsNothing(m, s)
             /\ \A t \in Streams \ {s} : host'[t] = host[t]
  <2>1. CASE Known(m, s)
    <3>1. /\ toDev' = Append(toDev, Msg("OKAY", s, m.arg0, <<>>))
          /\ In(toDev') = In(toDev) \cup {Msg("OKAY", s, m.arg0, <<>>)}
      BY <1>1, <1>5, <2>1, HostMessages, HostSending DEF HostRecv, Known
    <3>2. CASE s \in Shells
      <4>1. host' = [host EXCEPT ![s].got = @ \o m.data]
        BY <1>5, <2>1, <3>2 DEF HostRecv, Known
      <4>2. /\ host'[s].state = host[s].state /\ host'[s].peer = host[s].peer
            /\ host'[s].credit = host[s].credit /\ host'[s].sent = host[s].sent
            /\ host'[s].got = host[s].got \o m.data
            /\ \A t \in Streams \ {s} : host'[t] = host[t]
        BY <1>0, <1>1, <1>2, <4>1 DEF HostState
      <4>. QED BY <1>5, <2>1, <3>1, <4>2 DEF HearsWrite, Known
    <3>3. CASE s \notin Shells
      <4>1. host' = host \/ host' = [host EXCEPT ![s].answered = @ + 1]
        BY <1>5, <2>1, <3>3 DEF HostRecv, Known
      <4>2. /\ host'[s] = host[s] \/ host'[s] = [host[s] EXCEPT !.answered = @ + 1]
            /\ \A t \in Streams \ {s} : host'[t] = host[t]
        BY <1>0, <1>1, <4>1
      <4>. HIDE DEF m, s
      <4>3. /\ host'[s].state = host[s].state /\ host'[s].peer = host[s].peer
            /\ host'[s].credit = host[s].credit /\ host'[s].sent = host[s].sent
        BY <1>2, <4>2 DEF HostState
      <4>. QED BY <1>5, <2>1, <3>1, <3>3, <4>2, <4>3 DEF HearsWrite, Known
    <3>. QED BY <3>2, <3>3
  <2>2. CASE ~Known(m, s)
    BY <1>5, <2>2 DEF HostRecv, HearsNothing, Known
  <2>. QED BY <2>1, <2>2
<1>6. ASSUME m.cmd = "CLSE"
      PROVE  /\ HearsClose(m, s) \/ HearsNothing(m, s)
             /\ \A t \in Streams \ {s} : host'[t] = host[t]
  <2>1. CASE host[s].state = "opening" \/ Known(m, s)
    <3>1. /\ Msg("CLSE", 0, m.arg0, <<>>) \in FromHost
          /\ \/ toDev' = toDev
             \/ Known(m, s) /\ toDev' = Append(toDev, Msg("CLSE", 0, m.arg0, <<>>))
      BY <1>1, <1>6, <2>1, HostMessages DEF HostRecv, Known
    <3>2. host' = [host EXCEPT ![s].state = "ended"]
      BY <1>6, <2>1 DEF HostRecv, Known
    <3>3. /\ host'[s].state = "ended" /\ host'[s].peer = host[s].peer /\ host'[s].credit = host[s].credit
          /\ host'[s].sent = host[s].sent /\ host'[s].got = host[s].got
          /\ \A t \in Streams \ {s} : host'[t] = host[t]
      BY <1>0, <1>1, <1>2, <3>2 DEF HostState
    <3>. QED BY <1>6, <2>1, <3>1, <3>3, HostSending DEF HearsClose
  <2>2. CASE host[s].state # "opening" /\ ~Known(m, s)
    BY <1>6, <2>2 DEF HostRecv, HearsNothing, Known
  <2>. QED BY <2>1, <2>2
<1>. QED BY <1>0, <1>1, <1>3, <1>4, <1>5, <1>6

(* What becomes of an OPEN. *)
NewChannel(s) == [open |-> TRUE, canSend |-> TRUE, local |-> nextId, remote |-> s]

OpenRefused(s) ==
  /\ toHost' = Append(toHost, Msg("CLSE", 0, s, <<>>)) /\ In(toHost') = In(toHost) \cup {Msg("CLSE", 0, s, <<>>)}
  /\ UNCHANGED <<pc, serv, chan, pty>>
OpenServed(s) ==
  /\ s \notin Shells
  /\ toHost' = Append(toHost, Msg("OKAY", nextId, s, <<>>))
  /\ In(toHost') = In(toHost) \cup {Msg("OKAY", nextId, s, <<>>)}
  /\ pc' = "service" /\ serv'.local = nextId /\ serv'.remote = s
  /\ UNCHANGED <<chan, pty>>
OpenRuns(s) ==
  /\ s \in Shells
  /\ toHost' = Append(toHost, Msg("OKAY", nextId, s, <<>>))
  /\ In(toHost') = In(toHost) \cup {Msg("OKAY", nextId, s, <<>>)}
  /\ UNCHANGED <<pc, serv>>
  /\ \E c \in Slots :
       /\ ~chan[c].open /\ chan'[c] = NewChannel(s)
       /\ pty'[c] = [in |-> <<>>, out |-> <<>>, held |-> <<>>, alive |-> TRUE]
       /\ \A d \in Slots \ {c} : chan'[d] = chan[d] /\ pty'[d] = pty[d]
OpenFails(s) ==
  /\ s \in Shells
  /\ toHost' = Append(Append(Append(toHost, Msg("OKAY", nextId, s, <<>>)),
                             Msg("WRTE", nextId, s, <<Notice>>)), Msg("CLSE", nextId, s, <<>>))
  /\ In(toHost') = In(toHost) \cup {Msg("OKAY", nextId, s, <<>>), Msg("WRTE", nextId, s, <<Notice>>),
                                   Msg("CLSE", nextId, s, <<>>)}
  /\ UNCHANGED <<pc, serv, chan, pty>>

LEMMA NoticeType == <<Notice>> \in Seq(Datum)
BY DEF Notice, Datum

LEMMA OpenMessages ==
  ASSUME TypeInv, NEW s \in Streams
  PROVE  /\ Msg("OKAY", nextId, s, <<>>) \in FromDevice /\ Msg("CLSE", nextId, s, <<>>) \in FromDevice
         /\ Msg("WRTE", nextId, s, <<Notice>>) \in FromDevice /\ Msg("CLSE", 0, s, <<>>) \in FromDevice
BY Messages, NoticeType DEF TypeInv

LEMMA OpenCases ==
  ASSUME TypeInv, PlaceInv, HostInv, RecvOpen
  PROVE  LET s == Head(toDev).arg0
         IN  /\ s \in Streams /\ Untouched(s) /\ s = Head(toDev).arg0 /\ pc = "select"
             /\ nextId' = nextId + 1 /\ UNCHANGED <<link, pending, host, given, made>>
             /\ OpenRefused(s) \/ OpenServed(s) \/ OpenRuns(s) \/ OpenFails(s)
<1>. DEFINE s == Head(toDev).arg0
<1>1. /\ s \in Streams /\ Untouched(s) /\ pc = "select" /\ nextId' = nextId + 1
      /\ UNCHANGED <<link, pending, host, given, made>>
  BY HeadOfHost DEF RecvOpen, Recv, history
<1>. HIDE DEF s
<1>2. /\ Msg("OKAY", nextId, s, <<>>) \in FromDevice /\ Msg("CLSE", nextId, s, <<>>) \in FromDevice
      /\ Msg("WRTE", nextId, s, <<Notice>>) \in FromDevice /\ Msg("CLSE", 0, s, <<>>) \in FromDevice
  BY <1>1, OpenMessages
<1>3. ASSUME RefuseOpen(s), UNCHANGED <<pc, serv, chan, pty>> PROVE OpenRefused(s)
  BY <1>2, <1>3, Sending DEF RefuseOpen, Send, OpenRefused
<1>4. ASSUME OpenShell(s), UNCHANGED <<pc, serv>>, s \in Shells, OpenSlots # Slots
      PROVE  OpenRuns(s) \/ OpenFails(s)
  <2>1. CASE /\ chan' = [chan EXCEPT ![FirstFree] = [open |-> TRUE, canSend |-> TRUE,
                                                      local |-> LocalId, remote |-> s]]
             /\ pty' = [pty EXCEPT ![FirstFree] = [NoPty EXCEPT !.alive = TRUE]]
             /\ Send(<<Msg("OKAY", LocalId, s, <<>>)>>)
    <3>1. FirstFree \in Slots /\ ~chan[FirstFree].open
      BY <1>4, FreeSlot
    <3>2. chan \in [Slots -> Channel] /\ pty \in [Slots -> Terminal]
      BY DEF TypeInv
    <3>3. /\ chan'[FirstFree] = NewChannel(s)
          /\ pty'[FirstFree] = [in |-> <<>>, out |-> <<>>, held |-> <<>>, alive |-> TRUE]
          /\ \A d \in Slots \ {FirstFree} : chan'[d] = chan[d] /\ pty'[d] = pty[d]
      BY <2>1, <3>1, <3>2 DEF NewChannel, NoPty, LocalId
    <3>. QED BY <1>2, <1>4, <2>1, <3>1, <3>3, Sending DEF Send, OpenRuns, LocalId
  <2>2. CASE /\ Send(<<Msg("OKAY", LocalId, s, <<>>), Msg("WRTE", LocalId, s, <<Notice>>),
                       Msg("CLSE", LocalId, s, <<>>)>>)
             /\ UNCHANGED <<chan, pty>>
    <3>. DEFINE a == Msg("OKAY", nextId, s, <<>>)
                b == Msg("WRTE", nextId, s, <<Notice>>)
                d == Msg("CLSE", nextId, s, <<>>)
                q1 == Append(toHost, a)
                q2 == Append(q1, b)
    <3>1. toHost \in Seq(FromDevice) /\ a \in FromDevice /\ b \in FromDevice /\ d \in FromDevice
      BY <1>2 DEF TypeInv
    <3>2. toHost' = toHost \o <<a, b, d>>
      BY <2>2 DEF Send, LocalId
    <3>. HIDE DEF a, b, d
    <3>3. toHost' = Append(q2, d)
      BY <3>1, <3>2, SendThree
    <3>4. q1 \in Seq(FromDevice) /\ In(q1) = In(toHost) \cup {a}
      BY <3>1, InAppend
    <3>5. q2 \in Seq(FromDevice) /\ In(q2) = In(toHost) \cup {a, b}
      <4>. HIDE DEF q1
      <4>. QED BY <3>1, <3>4, InAppend
    <3>6. In(toHost') = In(toHost) \cup {a, b, d}
      <4>. HIDE DEF q2
      <4>. QED BY <3>1, <3>3, <3>5, InAppend
    <3>. QED BY <1>4, <2>2, <3>3, <3>6 DEF OpenFails, a, b, d
  <2>. QED BY <1>4, <2>1, <2>2 DEF OpenShell
<1>5. ASSUME NEW phase, NEW last, OpenService(s, phase, last), UNCHANGED <<chan, pty>>, s \notin Shells
      PROVE  OpenServed(s)
  BY <1>2, <1>5, Sending DEF OpenService, Service, NoService, Send, OpenServed, LocalId
<1>6. OpenRefused(s) \/ OpenServed(s) \/ OpenRuns(s) \/ OpenFails(s)
  BY <1>3, <1>4, <1>5, AdbAssumption DEF RecvOpen, s
<1>. QED BY <1>1, <1>6 DEF s

LEMMA InitPair == Init => PairInv
BY DEF Init, PairInv, Paired, Runs, In, Closed

LEMMA OpenPairs ==
  ASSUME TypeInv, PlaceInv, HostInv, RecvOpen, NEW id \in Nat, NEW t \in Streams, Paired(id, t)'
  PROVE  Paired(id, t) \/ (id = nextId /\ t = Head(toDev).arg0)
<1>. DEFINE s == Head(toDev).arg0
<1>0. /\ pc = "select" /\ UNCHANGED host
      /\ OpenRefused(s) \/ OpenServed(s) \/ OpenRuns(s) \/ OpenFails(s)
  BY OpenCases
<1>. HIDE DEF s
<1>. SUFFICES Paired(id, t) \/ (id = nextId /\ t = s)
  BY DEF s
<1>1. CASE \E m \in In(toHost') : m.cmd # "CLSE" /\ m.arg0 = id /\ m.arg1 = t
  BY <1>0, <1>1 DEF Paired, OpenRefused, OpenServed, OpenRuns, OpenFails, Msg
<1>2. ASSUME NEW c \in Slots, Runs(c, t)', chan'[c].local = id
      PROVE  Paired(id, t) \/ (id = nextId /\ t = s)
  BY <1>0, <1>2 DEF Paired, Runs, OpenRefused, OpenServed, OpenRuns, OpenFails, NewChannel
<1>3. CASE pc' = "service" /\ serv'.remote = t /\ serv'.local = id
  BY <1>0, <1>3 DEF OpenRefused, OpenServed, OpenRuns, OpenFails
<1>4. CASE host'[t].peer = id /\ id # 0
  BY <1>0, <1>4 DEF Paired
<1>. QED BY <1>1, <1>2, <1>3, <1>4 DEF Paired

LEMMA PairsStay ==
  ASSUME TypeInv, PlaceInv, HostInv, [Next]_vars, ~RecvOpen, NEW id \in Nat, NEW t \in Streams, Paired(id, t)'
  PROVE  Paired(id, t)
<1>1. CASE \E m \in In(toHost') : m.cmd # "CLSE" /\ m.arg0 = id /\ m.arg1 = t
  <2>. PICK m \in In(toHost') : m.cmd # "CLSE" /\ m.arg0 = id /\ m.arg1 = t
    BY <1>1
  <2>1. CASE m \in In(toHost)
    BY <2>1 DEF Paired
  <2>2. CASE Transport /\ m \notin In(toHost)
    <3>1. Sends(m)
      BY <2>2, DaemonSends DEF Sends
    <3>2. \A c \in ChannelOf(Head(toDev).arg1) : c \in Slots /\ chan[c].open
      BY DEF ChannelOf, OpenSlots
    <3>3. CASE \E c \in Slots : chan[c].open /\ m.arg0 = chan[c].local /\ m.arg1 = chan[c].remote
      BY <3>3 DEF Paired, Runs
    <3>4. CASE pc = "service" /\ m.arg0 = serv.local /\ m.arg1 = serv.remote
      BY <3>4 DEF Paired
    <3>5. ASSUME NEW c \in Slots, m = Msg("WRTE", chan[c].local, chan[c].remote, pty[c].out)
          PROVE  m.arg0 = chan[c].local /\ m.arg1 = chan[c].remote
      BY <3>5 DEF Msg
    <3>6. ASSUME NEW c \in Slots, m = Msg("OKAY", chan[c].local, chan[c].remote, <<>>)
          PROVE  m.arg0 = chan[c].local /\ m.arg1 = chan[c].remote
      BY <3>6 DEF Msg
    <3>7. \A i, j, d : m # Msg("CLSE", i, j, d)
      BY DEF Msg
    <3>. QED BY <3>1, <3>2, <3>3, <3>4, <3>5, <3>6, <3>7 DEF Sends, PtyOutput
  <2>3. CASE HostStep \/ CommandStep \/ UNCHANGED vars
    <3>1. toHost' = toHost \/ (toHost # <<>> /\ toHost' = Tail(toHost))
      BY <2>3 DEF HostStep, HostRecv, Disconnect, HostOpen, HostWrite, HostClose, CommandStep,
         CommandReads, CommandWrites, CommandExits, net, vars
    <3>. QED BY <2>1, <3>1, HeadOfDaemon
  <2>. QED BY <2>1, <2>2, <2>3, ThreeParts
<1>2. ASSUME NEW c \in Slots, Runs(c, t)', chan'[c].local = id
      PROVE  Paired(id, t)
  BY <1>2, KeepsChannels DEF Paired, Runs, SameChannels
<1>3. CASE pc' = "service" /\ serv'.remote = t /\ serv'.local = id
  <2>1. CASE RecvWrite
    BY <1>3, <2>1 DEF RecvWrite, Recv, Paired
  <2>. QED BY <1>3, <2>1, ServiceStays DEF Paired
<1>4. CASE host'[t].peer = id /\ id # 0
  <2>1. CASE HostRecv
    <3>1. PICK m \in FromDevice, s \in Streams :
            /\ m \in In(toHost) /\ s = m.arg1
            /\ \A u \in Streams \ {s} : host'[u] = host[u]
            /\ \/ HearsFirst(m, s) \/ HearsOkay(m, s) \/ HearsWrite(m, s) \/ HearsClose(m, s)
               \/ HearsNothing(m, s)
      BY <2>1, HostHears
    <3>2. \/ host'[t].peer = host[t].peer
          \/ m.cmd = "OKAY" /\ m.arg1 = t /\ host'[t].peer = m.arg0
      BY <3>1 DEF HearsFirst, HearsOkay, HearsWrite, HearsClose, HearsNothing, Known
    <3>. QED BY <1>4, <3>1, <3>2 DEF Paired
  <2>2. ASSUME NEW s \in Streams, HostOpen(s) \/ HostWrite(s) \/ HostClose(s)
        PROVE  host'[t].peer = host[t].peer
    BY <2>2, HostActs, HostType DEF Opens, Writes, Closes, HostState
  <2>3. CASE Transport \/ CommandStep \/ UNCHANGED vars
    <3>1. host' = host
      BY <2>3, DaemonFrame DEF CommandStep, CommandReads, CommandWrites, CommandExits, vars
    <3>. QED BY <1>4, <3>1 DEF Paired
  <2>4. CASE Disconnect
    BY <1>4, <2>4 DEF Disconnect, Paired
  <2>. QED BY <1>4, <2>1, <2>2, <2>3, <2>4, ThreeParts DEF HostStep, Paired
<1>. QED BY <1>1, <1>2, <1>3, <1>4 DEF Paired

LEMMA PairStep == TypeInv /\ PlaceInv /\ HostInv /\ PairInv /\ [Next]_vars => PairInv'
<1>. SUFFICES ASSUME TypeInv, PlaceInv, HostInv, PairInv, [Next]_vars PROVE PairInv'
  OBVIOUS
<1>0. nextId \in Nat \ {0}
  BY DEF TypeInv
<1>1. CASE RecvOpen
  <2>. DEFINE s == Head(toDev).arg0
  <2>1. s \in Streams /\ nextId' = nextId + 1 /\ \A id \in Nat : ~Paired(id, s)
    BY <1>1, OpenCases DEF Untouched
  <2>2. \A id \in Nat, t \in Streams : Paired(id, t)' => Paired(id, t) \/ (id = nextId /\ t = s)
    BY <1>1, OpenPairs
  <2>. HIDE DEF s
  <2>3. /\ \A i \in Nat : i \in 1..(nextId - 1) => i \in 1..(nextId' - 1) /\ i # nextId
        /\ nextId \in 1..(nextId' - 1)
    BY <1>0, <2>1
  <2>4. ASSUME NEW i \in Nat, NEW j \in Nat, NEW t \in Streams, NEW u \in Streams,
               Paired(i, t)', Paired(j, u)'
        PROVE  i \in 1..(nextId' - 1) /\ (i = j <=> t = u)
    <3>1. Paired(i, t) \/ (i = nextId /\ t = s)
      BY <2>2, <2>4
    <3>2. Paired(j, u) \/ (j = nextId /\ u = s)
      BY <2>2, <2>4
    <3>3. CASE Paired(i, t) /\ Paired(j, u)
      BY <2>3, <3>3 DEF PairInv
    <3>4. Paired(i, t) => t # s /\ i # nextId /\ i \in 1..(nextId' - 1)
      BY <2>1, <2>3 DEF PairInv
    <3>5. Paired(j, u) => u # s /\ j # nextId
      BY <2>1, <2>3 DEF PairInv
    <3>. QED BY <2>3, <3>1, <3>2, <3>3, <3>4, <3>5
  <2>. QED BY <2>4 DEF PairInv
<1>2. CASE ~RecvOpen
  <2>1. nextId' = nextId
    BY <1>2 DEF Next, Transport, RecvOkay, RecvWrite, WriteFull, RecvClose, TransportEnds, PtyOutput, PtyEnds,
       ServiceWrite, ServiceOkay, ServiceClose, ServiceDrops, ServiceSend, Replied, SyncItem, ServiceEnds,
       HostRecv, Disconnect, HostOpen, HostWrite, HostClose, CommandReads, CommandWrites, CommandExits, vars
  <2>. QED BY <1>2, <2>1, PairsStay DEF PairInv
<1>. QED BY <1>1, <1>2

LEMMA InitHost == Init => HostInv
<1>. SUFFICES ASSUME Init PROVE HostInv
  OBVIOUS
<1>1. In(toDev) = {} /\ In(toHost) = {}
  BY DEF Init, In
<1>. QED BY <1>1 DEF Init, HostInv, Untouched, Paired, Runs, Closed, AtMostOne

(* Nothing happens to a stream the daemon has not heard of. *)
LEMMA UntouchedStays ==
  ASSUME TypeInv, PlaceInv, HostInv, PairInv, [Next]_vars,
         NEW s \in Streams, Untouched(s), host[s].state \in {"new", "opening"},
         RecvOpen => Head(toDev).arg0 # s
  PROVE  Untouched(s)'
<1>1. \A id \in Nat : ~Paired(id, s)'
  BY OpenPairs, PairsStay DEF Untouched
<1>2. \A m \in In(toHost') : m.arg1 # s
  <2>1. CASE RecvOpen
    BY <2>1, OpenCases DEF OpenRefused, OpenServed, OpenRuns, OpenFails, Untouched, Msg
  <2>2. CASE Transport /\ ~RecvOpen /\ toHost' # toHost
    <3>1. PICK m \in FromDevice : Sends(m)
      BY <2>2, DaemonSends
    <3>2. \A c \in Slots : chan[c].open => chan[c].remote # s
      BY ChannelType DEF Untouched, Paired, Runs
    <3>3. pc = "service" => serv.remote # s
      BY ServiceType DEF Untouched, Paired
    <3>4. \A c \in ChannelOf(Head(toDev).arg1) : c \in Slots /\ chan[c].open
      BY DEF ChannelOf, OpenSlots
    <3>5. RecvWrite \/ ServiceWrite => Head(toDev).arg0 # s
      BY HeadOfHost DEF RecvWrite, ServiceWrite, Recv, HostInv, Meant
    <3>6. \A cmd, i, t, d : Msg(cmd, i, t, d).arg1 = t
      BY DEF Msg
    <3>7. m.arg1 # s
      <4>1. CASE \E c \in Slots : PtyOutput(c) /\ m = Msg("WRTE", chan[c].local, chan[c].remote, pty[c].out)
        BY <3>2, <3>6, <4>1 DEF PtyOutput
      <4>2. CASE \E c \in Slots : PtyEnds(c) /\ m = Msg("CLSE", chan[c].local, chan[c].remote, <<>>)
        BY <3>2, <3>6, <4>2 DEF PtyEnds
      <4>. QED BY <3>1, <3>2, <3>3, <3>4, <3>5, <3>6, <4>1, <4>2 DEF Sends
    <3>. QED BY <3>1, <3>7 DEF Sends, Untouched
  <2>3. CASE HostStep \/ CommandStep \/ UNCHANGED vars
    <3>1. toHost' = toHost \/ (toHost # <<>> /\ toHost' = Tail(toHost))
      BY <2>3 DEF HostStep, HostRecv, Disconnect, HostOpen, HostWrite, HostClose, CommandStep,
         CommandReads, CommandWrites, CommandExits, net, vars
    <3>. QED BY <3>1, HeadOfDaemon DEF Untouched
  <2>. QED BY <2>1, <2>2, <2>3, ThreeParts DEF Untouched
<1>3. host'[s].credit = FALSE /\ host'[s].sent = 0 /\ host'[s].got = <<>> /\ host'[s].peer = 0
  <2>0. host[s] \in HostState /\ ~host[s].credit /\ host[s].sent = 0 /\ host[s].got = <<>> /\ host[s].peer = 0
    BY HostType DEF Untouched
  <2>1. CASE HostRecv
    <3>1. PICK m \in FromDevice, t \in Streams :
            m \in In(toHost) /\ t = m.arg1 /\ \A u \in Streams \ {t} : host'[u] = host[u]
      BY <2>1, HostHears
    <3>. QED BY <2>0, <3>1 DEF Untouched, HostState
  <2>2. ASSUME NEW t \in Streams, HostOpen(t) \/ HostWrite(t) \/ HostClose(t) 
        PROVE  /\ host'[s].credit = FALSE /\ host'[s].sent = 0
               /\ host'[s].got = <<>> /\ host'[s].peer = 0
    <3>1. CASE t = s
      BY <2>0, <2>2, <3>1, HostActs DEF Opens, Writes, Closes, HostState
    <3>2. CASE t # s
      BY <2>0, <2>2, <3>2, HostActs DEF HostState
    <3>. QED BY <3>1, <3>2
  <2>3. CASE Transport \/ CommandStep \/ UNCHANGED vars \/ Disconnect
    <3>1. host' = host
      BY <2>3, DaemonFrame DEF CommandStep, CommandReads, CommandWrites, CommandExits, vars, Disconnect
    <3>. QED BY <2>0, <3>1 DEF HostState
  <2>. QED BY <2>1, <2>2, <2>3, ThreeParts DEF HostStep
<1>4. s \in Shells => given'[s] = <<>> /\ made'[s] = <<>>
  <2>1. CASE CommandStep
    <3>1. \A c \in Slots : pty[c].alive => chan[c].remote # s /\ chan[c].remote \in Shells
      BY ChannelType DEF Untouched, Paired, Runs, PlaceInv
    <3>. QED BY <2>1, <3>1 DEF CommandStep, CommandReads, CommandWrites, CommandExits, Untouched, TypeInv,
           history
  <2>2. CASE Transport \/ HostStep \/ UNCHANGED vars
    <3>1. UNCHANGED <<given, made>>
      BY <2>2, DaemonFrame DEF HostStep, HostRecv, Disconnect, HostOpen, HostWrite, HostClose, history, vars
    <3>. QED BY <3>1 DEF Untouched
  <2>. QED BY <2>1, <2>2, ThreeParts
<1>. QED BY <1>1, <1>2, <1>3, <1>4 DEF Untouched

LEMMA MeansTheSame ==
  ASSUME NEW m, Meant(m), UNCHANGED host
  PROVE  Meant(m)'
BY DEF Meant

(* A stream whose OPEN is on its way is not spoken of yet. *)
LEMMA OpenIsFirst ==
  ASSUME TypeInv, HostInv, NEW m \in In(toDev), m.cmd = "OPEN"
  PROVE  m.arg0 \in Streams /\ Untouched(m.arg0)
<1>1. m \in FromHost
  BY InType DEF TypeInv
<1>2. m.arg0 \in Streams /\ m \in From("OPEN", m.arg0)
  BY <1>1 DEF HostInv, Meant, From
<1>. QED BY <1>2 DEF HostInv

LEMMA NotOpen == ASSUME TypeInv, UNCHANGED daemonVars PROVE ~RecvOpen
BY DEF TypeInv, daemonVars, RecvOpen

LEMMA HostInvStep == TypeInv /\ PlaceInv /\ PairInv /\ HostInv /\ [Next]_vars => HostInv'
<1>. SUFFICES ASSUME TypeInv, PlaceInv, PairInv, HostInv, [Next]_vars PROVE HostInv'
  OBVIOUS
<1>0. toDev \in Seq(FromHost)
  BY DEF TypeInv
<1>1. CASE UNCHANGED host /\ (toDev' = toDev \/ (toDev # <<>> /\ toDev' = Tail(toDev)))
  <2>1. /\ In(toDev') \subseteq In(toDev)
        /\ \A s \in Streams : AtMostOne(toDev', From("OPEN", s))
    <3>1. \A s \in Streams : AtMostOne(toDev, From("OPEN", s))
      BY DEF HostInv
    <3>2. CASE toDev # <<>> /\ toDev' = Tail(toDev)
      BY <1>0, <3>1, <3>2, InTail, OneTail
    <3>. QED BY <1>1, <3>1, <3>2
  <2>2. ASSUME NEW s \in Streams, host'[s].state = "new" \/ In(toDev') \cap From("OPEN", s) # {}
        PROVE  Untouched(s)'
    <3>1. host[s].state = "new" \/ In(toDev) \cap From("OPEN", s) # {}
      BY <1>1, <2>1, <2>2
    <3>2. Untouched(s) /\ host[s].state \in {"new", "opening"}
      BY <3>1 DEF HostInv, Meant, From
    <3>3. RecvOpen => Head(toDev).arg0 # s
      <4>1. SUFFICES ASSUME RecvOpen, Head(toDev).arg0 = s PROVE FALSE
        OBVIOUS
      <4>2. /\ toDev # <<>> /\ toDev' = Tail(toDev) /\ Head(toDev) \in In(toDev) /\ Head(toDev) \in FromHost
            /\ Head(toDev).cmd = "OPEN"
        BY <4>1, HeadOfHost DEF RecvOpen, Recv
      <4>3. host[s].state = "opening" /\ Head(toDev) \in From("OPEN", s)
        BY <4>1, <4>2 DEF HostInv, Meant, From
      <4>4. In(toDev') \cap From("OPEN", s) = {}
        BY <1>0, <4>2, <4>3, OneTail DEF HostInv
      <4>. QED BY <1>1, <2>2, <4>3, <4>4
    <3>. QED BY <3>2, <3>3, UntouchedStays
  <2>. QED BY <1>1, <2>1, <2>2, MeansTheSame DEF HostInv
<1>2. ASSUME NEW s \in Streams, HostOpen(s) \/ HostWrite(s) \/ HostClose(s) PROVE HostInv'
  <2>1. /\ ~RecvOpen /\ toHost' = toHost
        /\ \A t \in Streams \ {s} : host'[t] = host[t]
        /\ Opens(s) \/ Closes(s) \/ \E data \in Items(s) : Writes(s, data)
    <3>1. /\ UNCHANGED daemonVars /\ toHost' = toHost
          /\ \A t \in Streams \ {s} : host'[t] = host[t]
          /\ Opens(s) \/ Closes(s) \/ \E data \in Items(s) : Writes(s, data)
      BY <1>2, HostActs
    <3>. QED BY <3>1, NotOpen
  <2>2. host[s] \in HostState /\ host[s].peer \in Nat
    BY HostType
  <2>3. ASSUME NEW m \in In(toDev) PROVE Meant(m)'
    <3>1. m.cmd = "OPEN" \/ m.cmd \in {"OKAY", "WRTE"} \/ m.cmd = "CLSE"
      BY <1>0, InType DEF FromHost
    <3>2. CASE m.cmd \in {"OPEN", "OKAY", "WRTE"}
      BY <2>1, <2>2, <3>2 DEF HostInv, Meant, Opens, Closes, Writes, HostState
    <3>3. CASE m.cmd = "CLSE"
      <4>1. PICK t \in Streams : host[t].peer = m.arg1 /\ host[t].state \in {"closed", "ended"}
        BY <3>3 DEF HostInv, Meant
      <4>2. t # s
        BY <2>1, <4>1 DEF Opens, Closes, Writes
      <4>. QED BY <2>1, <3>3, <4>1, <4>2 DEF HostInv, Meant
    <3>. QED BY <3>1, <3>2, <3>3
  <2>4. ASSUME NEW m, toDev' = Append(toDev, m), m \in FromHost, m.cmd # "OPEN", Meant(m)',
               In(toDev') = In(toDev) \cup {m}, host[s].state = "open", host'[s].peer = host[s].peer,
               host'[s].state \in {"open", "closed"}
        PROVE  HostInv'
    <3>1. \A t \in Streams : AtMostOne(toDev', From("OPEN", t))
      BY <1>0, <2>4, OneAppend DEF HostInv, From
    <3>2. ASSUME NEW t \in Streams, host'[t].state = "new" \/ In(toDev') \cap From("OPEN", t) # {}
          PROVE  Untouched(t)'
      <4>1. host[t].state = "new" \/ In(toDev) \cap From("OPEN", t) # {}
        BY <2>1, <2>4, <3>2 DEF From
      <4>2. Untouched(t) /\ host[t].state \in {"new", "opening"}
        BY <4>1 DEF HostInv, Meant, From
      <4>. QED BY <2>1, <4>2, UntouchedStays
    <3>3. \A t \in Streams : /\ host'[t].state \in {"new", "opening"} => host'[t].peer = 0
                             /\ host'[t].state = "open" => host'[t].peer # 0
      BY <2>1, <2>4 DEF HostInv
    <3>. QED BY <2>3, <2>4, <3>1, <3>2, <3>3 DEF HostInv
  <2>5. CASE Closes(s)
    <3>1. /\ Msg("CLSE", s, host[s].peer, <<>>) \in FromHost /\ host[s].peer # 0
          /\ host'[s].peer = host[s].peer /\ host'[s].state = "closed" /\ host[s].state = "open"
      BY <2>2, <2>5, HostMessages DEF Closes, HostInv, HostState
    <3>2. Meant(Msg("CLSE", s, host[s].peer, <<>>))'
      BY <3>1 DEF Meant, Msg
    <3>3. Msg("CLSE", s, host[s].peer, <<>>).cmd # "OPEN"
      BY DEF Msg
    <3>. QED BY <2>4, <2>5, <3>1, <3>2, <3>3 DEF Closes
  <2>6. ASSUME NEW data \in Items(s), Writes(s, data) PROVE HostInv'
    <3>1. /\ Msg("WRTE", s, host[s].peer, data) \in FromHost /\ host[s].peer # 0
          /\ host'[s].peer = host[s].peer /\ host'[s].state = "open" /\ host[s].state = "open"
      BY <2>2, <2>6, ItemsType, HostMessages DEF Writes, HostInv
    <3>2. Meant(Msg("WRTE", s, host[s].peer, data))'
      BY <3>1 DEF Meant, Msg
    <3>3. Msg("WRTE", s, host[s].peer, data).cmd # "OPEN"
      BY DEF Msg
    <3>. QED BY <2>4, <2>6, <3>1, <3>2, <3>3 DEF Writes
  <2>7. CASE Opens(s)
    <3>. DEFINE o == Msg("OPEN", s, 0, <<>>)
    <3>1. /\ o \in FromHost /\ o.cmd = "OPEN" /\ o.arg0 = s
          /\ toDev' = Append(toDev, o) /\ In(toDev') = In(toDev) \cup {o}
      BY <2>7, HostMessages DEF Opens, Msg
    <3>2. host'[s].state = "opening" /\ host'[s].peer = host[s].peer /\ host[s].state = "new" /\ host[s].peer = 0
      BY <2>2, <2>7 DEF Opens, HostState, HostInv
    <3>3. In(toDev) \cap From("OPEN", s) = {}
      BY <3>2 DEF HostInv, Meant, From
    <3>. HIDE DEF o
    <3>4. \A t \in Streams : AtMostOne(toDev', From("OPEN", t))
      BY <1>0, <3>1, <3>3, OneAppend DEF HostInv, From
    <3>5. Meant(o)'
      BY <3>1, <3>2 DEF Meant
    <3>6. ASSUME NEW t \in Streams, host'[t].state = "new" \/ In(toDev') \cap From("OPEN", t) # {}
          PROVE  Untouched(t)'
      <4>1. t = s \/ host[t].state = "new" \/ In(toDev) \cap From("OPEN", t) # {}
        BY <2>1, <3>1, <3>6 DEF From
      <4>2. Untouched(t) /\ host[t].state \in {"new", "opening"}
        BY <3>2, <4>1 DEF HostInv, Meant, From
      <4>. QED BY <2>1, <4>2, UntouchedStays
    <3>7. \A t \in Streams : /\ host'[t].state \in {"new", "opening"} => host'[t].peer = 0
                             /\ host'[t].state = "open" => host'[t].peer # 0
      BY <2>1, <3>2 DEF HostInv
    <3>. QED BY <2>3, <3>1, <3>4, <3>5, <3>6, <3>7 DEF HostInv
  <2>. QED BY <2>1, <2>5, <2>6, <2>7
<1>3. CASE HostRecv
  <2>. PICK m \in FromDevice, s \in Streams :
         /\ m \in In(toHost) /\ s = m.arg1
         /\ \A t \in Streams \ {s} : host'[t] = host[t]
         /\ \/ HearsFirst(m, s) \/ HearsOkay(m, s) \/ HearsWrite(m, s) \/ HearsClose(m, s)
            \/ HearsNothing(m, s)
    BY <1>3, HostHears
  <2>0. m.arg0 \in Nat /\ ~RecvOpen /\ nextId \in Nat
    <3>1. UNCHANGED daemonVars
      BY <1>3, HostHears
    <3>. QED BY <3>1, NotOpen DEF FromDevice, TypeInv
  <2>1. ~Untouched(s) /\ host[s].state # "new" /\ In(toDev) \cap From("OPEN", s) = {}
    BY DEF Untouched, HostInv
  <2>2. m.cmd # "CLSE" => m.arg0 # 0
    <3>1. m.cmd # "CLSE" => Paired(m.arg0, s)
      BY DEF Paired
    <3>. QED BY <2>0, <3>1 DEF PairInv
  <2>3. /\ host'[s].state \notin {"new", "opening"} \/ host'[s] = host[s]
        /\ host'[s].state = "open" => host'[s].peer # 0
        /\ host[s].state # "opening" => host'[s].peer = host[s].peer
    BY <2>2 DEF HearsFirst, HearsOkay, HearsWrite, HearsClose, HearsNothing, Known, HostInv
  <2>4. ASSUME NEW n \in In(toDev) PROVE Meant(n)'
    <3>1. n.cmd = "OPEN" \/ n.cmd \in {"OKAY", "WRTE"} \/ n.cmd = "CLSE"
      BY <1>0, InType DEF FromHost
    <3>2. CASE n.cmd = "OPEN"
      <4>1. n.arg0 # s
        BY <2>1, <3>2, OpenIsFirst
      <4>. QED BY <3>2, <4>1 DEF HostInv, Meant
    <3>3. CASE n.cmd \in {"OKAY", "WRTE"}
      BY <2>3, <3>3 DEF HostInv, Meant
    <3>4. CASE n.cmd = "CLSE"
      <4>1. PICK t \in Streams : host[t].peer = n.arg1 /\ host[t].state \in {"closed", "ended"} /\ n.arg1 # 0
        BY <3>4 DEF HostInv, Meant
      <4>2. host'[t] = host[t]
        BY <4>1 DEF HearsFirst, HearsOkay, HearsWrite, HearsClose, HearsNothing, Known
      <4>. QED BY <3>4, <4>1, <4>2 DEF Meant
    <3>. QED BY <3>1, <3>2, <3>3, <3>4
  <2>5. \/ toDev' = toDev
        \/ \E n \in FromHost : /\ toDev' = Append(toDev, n) /\ In(toDev') = In(toDev) \cup {n}
                               /\ n.cmd # "OPEN" /\ Meant(n)'
    <3>1. CASE HearsWrite(m, s)
      <4>1. Msg("OKAY", s, m.arg0, <<>>) \in FromHost
        BY <2>0, HostMessages
      <4>2. Meant(Msg("OKAY", s, m.arg0, <<>>))' /\ Msg("OKAY", s, m.arg0, <<>>).cmd # "OPEN"
        BY <2>2, <3>1 DEF Meant, Msg, HearsWrite, Known
      <4>. QED BY <3>1, <4>1, <4>2 DEF HearsWrite
    <3>2. CASE HearsClose(m, s) /\ toDev' # toDev
      <4>1. Msg("CLSE", 0, m.arg0, <<>>) \in FromHost
        BY <2>0, HostMessages
      <4>2. m.arg0 # 0 /\ host'[s].peer = m.arg0 /\ host'[s].state = "ended"
        BY <3>2 DEF HearsClose, Known, HostInv
      <4>3. Meant(Msg("CLSE", 0, m.arg0, <<>>))' /\ Msg("CLSE", 0, m.arg0, <<>>).cmd # "OPEN"
        BY <4>2 DEF Meant, Msg
      <4>. QED BY <3>2, <4>1, <4>3 DEF HearsClose
    <3>. QED BY <3>1, <3>2 DEF HearsFirst, HearsOkay, HearsNothing
  <2>6. \A n \in In(toDev') : Meant(n)'
    BY <2>4, <2>5
  <2>7. ASSUME NEW t \in Streams PROVE AtMostOne(toDev', From("OPEN", t))
    <3>1. AtMostOne(toDev, From("OPEN", t))
      BY DEF HostInv
    <3>2. ASSUME NEW n \in FromHost, toDev' = Append(toDev, n), n.cmd # "OPEN"
          PROVE  AtMostOne(toDev', From("OPEN", t))
      <4>1. n \notin From("OPEN", t)
        BY <3>2 DEF From
      <4>. QED BY <1>0, <3>1, <3>2, <4>1, OneAppend
    <3>. QED BY <2>5, <3>1, <3>2
  <2>8. ASSUME NEW t \in Streams, host'[t].state = "new" \/ In(toDev') \cap From("OPEN", t) # {}
        PROVE  Untouched(t)'
    <3>1. host[t].state = "new" \/ In(toDev) \cap From("OPEN", t) # {}
      BY <2>1, <2>3, <2>5, <2>8 DEF From
    <3>2. Untouched(t)
      BY <3>1 DEF HostInv
    <3>3. host[t].state \in {"new", "opening"}
      BY <3>1 DEF HostInv, Meant, From
    <3>. QED BY <2>0, <3>2, <3>3, UntouchedStays
  <2>9. \A t \in Streams : /\ host'[t].state \in {"new", "opening"} => host'[t].peer = 0
                           /\ host'[t].state = "open" => host'[t].peer # 0
    BY <2>3 DEF HostInv
  <2>. QED BY <2>6, <2>7, <2>8, <2>9 DEF HostInv
<1>4. CASE Transport
  BY <1>1, <1>4, DaemonFrame
<1>5. CASE CommandStep \/ Disconnect \/ UNCHANGED vars
  BY <1>1, <1>5 DEF CommandStep, CommandReads, CommandWrites, CommandExits, Disconnect, net, vars
<1>. QED BY <1>2, <1>3, <1>4, <1>5, ThreeParts DEF HostStep
-------------------------------------------------------------------------------
(* Flow control. *)
Base == TypeInv /\ PlaceInv /\ PairInv /\ HostInv

LEMMA BaseStep == Base /\ [Next]_vars => Base'
BY TypeStep, PlaceStep, PairStep, HostInvStep DEF Base

(* Neither side has sent anything of a stream the daemon has not heard of. *)
LEMMA UntouchedWire ==
  ASSUME Base, NEW s \in Streams, Untouched(s)
  PROVE  /\ \A cmd : In(toHost) \cap To(cmd, s) = {}
         /\ In(toDev) \cap From("OKAY", s) = {} /\ In(toDev) \cap From("WRTE", s) = {}
         /\ NoChannel(s)
<1>1. \A cmd : In(toHost) \cap To(cmd, s) = {}
  BY DEF Untouched, To
<1>2. \A m \in In(toDev) : m.cmd \in {"OKAY", "WRTE"} => m.arg0 # s
  BY DEF Base, HostInv, Meant, Untouched
<1>3. NoChannel(s)
  BY ChannelType DEF Base, Untouched, Paired, NoChannel, Runs
<1>. QED BY <1>1, <1>2, <1>3 DEF From

LEMMA OneChannel ==
  ASSUME Base, NEW c \in Slots, NEW d \in Slots, NEW s \in Streams, Runs(c, s), Runs(d, s)
  PROVE  c = d
<1>1. Paired(chan[c].local, s) /\ Paired(chan[d].local, s)
  BY DEF Paired
<1>2. chan[c].local = chan[d].local
  BY <1>1, ChannelType DEF Base, PairInv, Runs
<1>. QED BY <1>2 DEF Base, PlaceInv, Runs

(* A message of the host about a channel is from the stream of that channel. *)
LEMMA FromItsStream ==
  ASSUME Base, toDev # <<>>, Head(toDev).cmd \in {"OKAY", "WRTE"}
  PROVE  /\ Head(toDev).arg0 \in Streams
         /\ \A c \in ChannelOf(Head(toDev).arg1) : c \in Slots /\ Runs(c, Head(toDev).arg0)
         /\ \A c \in Slots : Runs(c, Head(toDev).arg0) => c \in ChannelOf(Head(toDev).arg1)
<1>. DEFINE m == Head(toDev)
<1>1. m \in FromHost /\ m.arg1 \in Nat /\ m.arg0 \in Streams /\ Paired(m.arg1, m.arg0)
  BY HeadOfHost DEF Base, FromHost
<1>2. ASSUME NEW c \in Slots, chan[c].open, NEW s \in Streams, chan[c].remote = s
      PROVE  chan[c].local = m.arg1 <=> s = m.arg0
  <2>1. Paired(chan[c].local, s) /\ chan[c].local \in Nat
    BY <1>2, ChannelType DEF Base, Paired, Runs
  <2>. QED BY <1>1, <2>1 DEF Base, PairInv
<1>. QED BY <1>1, <1>2, ChannelType DEF Base, ChannelOf, OpenSlots, Runs

LEMMA KeepsCredit ==
  ASSUME TypeInv, [Next]_vars, ~RecvOpen, ~RecvOkay, NEW c \in Slots, chan'[c].canSend
  PROVE  chan[c].canSend
<1>1. CASE \E cs : CloseChannels(cs)
  BY <1>1 DEF CloseChannels, Closed
<1>2. CASE UNCHANGED chan
  BY <1>2
<1>3. ASSUME NEW d \in Slots, PtyOutput(d) PROVE chan[c].canSend
  BY <1>3 DEF PtyOutput, TypeInv, Channel
<1>. QED BY <1>1, <1>2, <1>3 DEF Next, Transport, RecvWrite, RecvClose, TransportEnds, PtyEnds, WriteFull,
       ServiceWrite, ServiceOkay, ServiceClose, ServiceDrops, ServiceSend, Replied, SyncItem, ServiceEnds,
       HostRecv, Disconnect, HostOpen, HostWrite, HostClose, CommandReads, CommandWrites, CommandExits,
       vars, channels

LEMMA InitFlow == Init => FlowInv /\ TurnInv
<1>1. Init => In(toDev) = {} /\ In(toHost) = {} /\ (\A M : AtMostOne(toDev, M) /\ AtMostOne(toHost, M))
  BY DEF Init, In, AtMostOne
<1>. QED BY <1>1 DEF Init, FlowInv, TurnInv, Flow, Turn, Runs, Closed, Streams

(* A queue that has lost its head, or got a message that is not in M. *)
NoMore(q, r, M) == In(r) \cap M \subseteq In(q) /\ (AtMostOne(q, M) => AtMostOne(r, M))

LEMMA TailNoMore ==
  ASSUME NEW S, NEW q \in Seq(S), q # <<>>, NEW M
  PROVE  NoMore(q, Tail(q), M)
BY InTail, OneTail DEF NoMore

LEMMA AppendNoMore ==
  ASSUME NEW S, NEW q \in Seq(S), NEW m \in S, NEW M, m \notin M
  PROVE  NoMore(q, Append(q, m), M)
<1>1. In(Append(q, m)) = In(q) \cup {m}
  BY InAppend
<1>. QED BY <1>1, OneAppend DEF NoMore

LEMMA SameNoMore == ASSUME NEW q, NEW M PROVE NoMore(q, q, M)
BY DEF NoMore

LEMMA ThreeNoMore ==
  ASSUME NEW S, NEW q \in Seq(S), NEW M, NEW a \in S \ M, NEW b \in S \ M, NEW c \in S \ M
  PROVE  NoMore(q, Append(Append(Append(q, a), b), c), M)
<1>1. Append(q, a) \in Seq(S) /\ NoMore(q, Append(q, a), M)
  BY InAppend, AppendNoMore
<1>2. ASSUME NEW r \in Seq(S), NoMore(q, r, M), NEW x \in S \ M
      PROVE  Append(r, x) \in Seq(S) /\ NoMore(q, Append(r, x), M)
  <2>1. Append(r, x) \in Seq(S) /\ NoMore(r, Append(r, x), M)
    BY InAppend, AppendNoMore
  <2>. QED BY <1>2, <2>1 DEF NoMore
<1>3. Append(Append(q, a), b) \in Seq(S) /\ NoMore(q, Append(Append(q, a), b), M)
  BY <1>1, <1>2
<1>. QED BY <1>2, <1>3

(* What is sent to the host about a shell, other than by its channel. *)
LEMMA DeviceQuiet ==
  ASSUME Base, [Next]_vars, NEW s \in Shells, NEW cmd \in {"OKAY", "WRTE"},
         RecvOpen => Head(toDev).arg0 # s,
         cmd = "WRTE" => \A c \in Slots : PtyOutput(c) => ~Runs(c, s),
         cmd = "OKAY" => (RecvWrite => Head(toDev).arg0 # s)
  PROVE  NoMore(toHost, toHost', To(cmd, s))
<1>. DEFINE M == To(cmd, s)
<1>0. toHost \in Seq(FromDevice) /\ s \in Streams
  BY DEF Base, TypeInv, Streams
<1>1. CASE RecvOpen
  <2>. DEFINE t == Head(toDev).arg0
  <2>1. /\ t \in Streams /\ t # s
        /\ OpenRefused(t) \/ OpenServed(t) \/ OpenRuns(t) \/ OpenFails(t)
    BY <1>1, OpenCases DEF Base
  <2>. HIDE DEF t
  <2>2. /\ Msg("OKAY", nextId, t, <<>>) \in FromDevice \ M /\ Msg("CLSE", nextId, t, <<>>) \in FromDevice \ M
        /\ Msg("WRTE", nextId, t, <<Notice>>) \in FromDevice \ M /\ Msg("CLSE", 0, t, <<>>) \in FromDevice \ M
    <3>1. \A c, i, d : Msg(c, i, t, d).arg1 # s
      BY <2>1 DEF Msg
    <3>. QED BY <2>1, <3>1, OpenMessages DEF Base, To
  <2>. HIDE DEF M
  <2>3. CASE OpenFails(t)
    <3>1. /\ toHost' = Append(Append(Append(toHost, Msg("OKAY", nextId, t, <<>>)),
                             Msg("WRTE", nextId, t, <<Notice>>)), Msg("CLSE", nextId, t, <<>>))
          /\ In(toHost') = In(toHost) \cup {Msg("OKAY", nextId, t, <<>>), Msg("WRTE", nextId, t, <<Notice>>),
                                   Msg("CLSE", nextId, t, <<>>)}
      BY <2>3 DEF OpenFails
    <3>2. NoMore(toHost, toHost', M)
      <4>. DEFINE a == Msg("OKAY", nextId, t, <<>>)
                  b == Msg("WRTE", nextId, t, <<Notice>>)
                  d == Msg("CLSE", nextId, t, <<>>)
      <4>1. a \in FromDevice \ M /\ b \in FromDevice \ M /\ d \in FromDevice \ M
            /\ toHost' = Append(Append(Append(toHost, a), b), d)
        BY <2>2, <3>1
      <4>. HIDE DEF a, b, d
      <4>. QED BY <1>0, <4>1, ThreeNoMore
    <3>. QED BY <3>2 DEF M
  <2>4. CASE ~OpenFails(t)
    BY <1>0, <2>1, <2>2, <2>4, AppendNoMore DEF OpenRefused, OpenServed, OpenRuns, M
  <2>. QED BY <2>3, <2>4
<1>2. CASE Transport /\ ~RecvOpen
  <2>1. CASE toHost' = toHost
    BY <2>1, SameNoMore
  <2>2. CASE toHost' # toHost
    <3>1. PICK m \in FromDevice : Sends(m)
      BY <1>2, <2>2, DaemonSends DEF Base
    <3>2. m \notin M
      <4>1. \A k, i, t, d : Msg(k, i, t, d).cmd = k /\ Msg(k, i, t, d).arg1 = t
        BY DEF Msg
      <4>2. CASE \E c \in Slots : PtyOutput(c) /\ m = Msg("WRTE", chan[c].local, chan[c].remote, pty[c].out)
        <5>1. PICK c \in Slots : PtyOutput(c) /\ m = Msg("WRTE", chan[c].local, chan[c].remote, pty[c].out)
          BY <4>2
        <5>2. m.cmd = "WRTE" /\ m.arg1 = chan[c].remote /\ chan[c].open
          BY <4>1, <5>1 DEF PtyOutput
        <5>. QED BY <5>1, <5>2 DEF To, Runs
      <4>3. CASE RecvWrite /\ \E c \in ChannelOf(Head(toDev).arg1) :
                                m = Msg("OKAY", chan[c].local, chan[c].remote, <<>>)
        <5>1. toDev # <<>> /\ Head(toDev).cmd = "WRTE"
          BY <4>3 DEF RecvWrite, Recv
        <5>. QED BY <4>1, <4>3, <5>1, FromItsStream DEF To, Runs
      <4>4. CASE m.cmd = "CLSE"
        BY <4>4 DEF To
      <4>5. CASE pc = "service" /\ m.arg1 = serv.remote
        BY <4>5, ServiceType DEF To, Base
      <4>. QED BY <3>1, <4>1, <4>2, <4>3, <4>4, <4>5 DEF Sends
    <3>. QED BY <1>0, <3>1, <3>2, AppendNoMore DEF Sends
  <2>. QED BY <2>1, <2>2
<1>3. CASE HostStep \/ CommandStep \/ UNCHANGED vars
  <2>1. toHost' = toHost \/ (toHost # <<>> /\ toHost' = Tail(toHost))
    BY <1>3 DEF HostStep, HostRecv, Disconnect, HostOpen, HostWrite, HostClose, CommandStep,
       CommandReads, CommandWrites, CommandExits, net, vars
  <2>. QED BY <1>0, <2>1, SameNoMore, TailNoMore
<1>. QED BY <1>1, <1>2, <1>3, ThreeParts

(* What the host sends of a shell, other than what it writes and acknowledges. *)
LEMMA HostQuiet ==
  ASSUME Base, [Next]_vars, NEW s \in Shells, NEW cmd \in {"OKAY", "WRTE"},
         cmd = "WRTE" => ~HostWrite(s),
         cmd = "OKAY" => (HostRecv => Head(toHost).cmd # "WRTE" \/ Head(toHost).arg1 # s)
  PROVE  NoMore(toDev, toDev', From(cmd, s))
<1>0. toDev \in Seq(FromHost) /\ s \in Streams
  BY DEF Base, TypeInv, Streams
<1>1. CASE Transport
  BY <1>0, <1>1, DaemonFrame, SameNoMore, TailNoMore DEF Base
<1>2. ASSUME NEW m \in FromHost, toDev' = Append(toDev, m), m.cmd # cmd \/ m.arg0 # s
      PROVE  NoMore(toDev, toDev', From(cmd, s))
  <2>1. m \notin From(cmd, s)
    BY <1>2 DEF From
  <2>. QED BY <1>0, <1>2, <2>1, AppendNoMore
<1>3. ASSUME NEW t \in Streams, HostOpen(t) \/ HostWrite(t) \/ HostClose(t)
      PROVE  NoMore(toDev, toDev', From(cmd, s))
  <2>1. CASE HostOpen(t)
    <3>1. toDev' = Append(toDev, Msg("OPEN", t, 0, <<>>)) /\ Msg("OPEN", t, 0, <<>>) \in FromHost
      BY <2>1, HostMessages DEF HostOpen
    <3>. QED BY <1>2, <3>1 DEF Msg
  <2>2. CASE HostClose(t)
    <3>1. /\ toDev' = Append(toDev, Msg("CLSE", t, host[t].peer, <<>>))
          /\ Msg("CLSE", t, host[t].peer, <<>>) \in FromHost
      BY <2>2, HostType, HostMessages DEF HostClose, Base
    <3>. QED BY <1>2, <3>1 DEF Msg
  <2>3. CASE HostWrite(t)
    <3>1. PICK data \in Items(t) : toDev' = Append(toDev, Msg("WRTE", t, host[t].peer, data))
      BY <2>3 DEF HostWrite
    <3>2. Msg("WRTE", t, host[t].peer, data) \in FromHost
      BY ItemsType, HostType, HostMessages DEF Base
    <3>3. cmd = "OKAY" \/ t # s
      BY <2>3
    <3>. QED BY <1>2, <3>1, <3>2, <3>3 DEF Msg
  <2>. QED BY <1>3, <2>1, <2>2, <2>3
<1>4. CASE HostRecv
  <2>. PICK m \in FromDevice, t \in Streams :
         /\ m = Head(toHost) /\ t = m.arg1
         /\ \/ HearsFirst(m, t) \/ HearsOkay(m, t) \/ HearsWrite(m, t) \/ HearsClose(m, t)
            \/ HearsNothing(m, t)
    BY <1>4, HostHears DEF Base
  <2>1. m.arg0 \in Nat
    BY DEF FromDevice
  <2>2. Msg("OKAY", t, m.arg0, <<>>) \in FromHost /\ Msg("CLSE", 0, m.arg0, <<>>) \in FromHost
    BY <2>1, HostMessages
  <2>3. CASE toDev' = toDev
    BY <2>3, SameNoMore
  <2>4. CASE HearsWrite(m, t)
    <3>1. cmd # "OKAY" \/ t # s
      BY <1>4, <2>4 DEF HearsWrite
    <3>. QED BY <1>2, <2>2, <2>4, <3>1 DEF HearsWrite, Msg
  <2>5. CASE toDev' = Append(toDev, Msg("CLSE", 0, m.arg0, <<>>))
    BY <1>2, <2>2, <2>5 DEF Msg
  <2>. QED BY <2>3, <2>4, <2>5 DEF HearsFirst, HearsOkay, HearsClose, HearsNothing
<1>5. CASE CommandStep \/ Disconnect \/ UNCHANGED vars
  BY <1>5, SameNoMore DEF CommandStep, CommandReads, CommandWrites, CommandExits, Disconnect, net, vars
<1>. QED BY <1>1, <1>3, <1>4, <1>5, ThreeParts DEF HostStep

LEMMA OneOfThree ==
  ASSUME NEW S, NEW q \in Seq(S), NEW a \in S, NEW b \in S, NEW c \in S, NEW M, In(q) \cap M = {},
         a \in M => b \notin M /\ c \notin M, b \in M => c \notin M
  PROVE  AtMostOne(Append(Append(Append(q, a), b), c), M)
<1>1. AtMostOne(q, M)
  BY DEF In, AtMostOne
<1>2. ASSUME NEW r \in Seq(S), AtMostOne(r, M), NEW x \in S, x \in M => In(r) \cap M = {}
      PROVE  Append(r, x) \in Seq(S) /\ In(Append(r, x)) = In(r) \cup {x} /\ AtMostOne(Append(r, x), M)
  BY <1>2, InAppend, OneAppend
<1>3. /\ Append(q, a) \in Seq(S) /\ In(Append(q, a)) = In(q) \cup {a}
      /\ AtMostOne(Append(q, a), M)
  BY <1>1, <1>2
<1>4. /\ Append(Append(q, a), b) \in Seq(S) /\ In(Append(Append(q, a), b)) = In(Append(q, a)) \cup {b}
      /\ AtMostOne(Append(Append(q, a), b), M)
  <2>1. b \in M => In(Append(q, a)) \cap M = {}
    BY <1>3
  <2>. QED BY <1>2, <1>3, <2>1
<1>5. c \in M => In(Append(Append(q, a), b)) \cap M = {}
  BY <1>3, <1>4
<1>. QED BY <1>2, <1>4, <1>5

LEMMA FlowOpen ==
  ASSUME Base, FlowInv, RecvOpen, NEW s \in Shells, s = Head(toDev).arg0
  PROVE  Flow(s)'
<1>0. /\ s \in Streams /\ Untouched(s) /\ toDev # <<>> /\ toDev' = Tail(toDev)
      /\ OpenRefused(s) \/ OpenRuns(s) \/ OpenFails(s)
  BY OpenCases DEF Base, OpenServed, RecvOpen, Recv
<1>1. /\ In(toHost) \cap To("WRTE", s) = {} /\ In(toDev) \cap From("OKAY", s) = {} /\ NoChannel(s)
      /\ AtMostOne(toHost, To("WRTE", s)) /\ AtMostOne(toDev, From("OKAY", s))
      /\ toHost \in Seq(FromDevice) /\ toDev \in Seq(FromHost)
  BY <1>0, UntouchedWire DEF FlowInv, Flow, Base, TypeInv
<1>2. /\ Msg("OKAY", nextId, s, <<>>) \in FromDevice \ To("WRTE", s)
      /\ Msg("CLSE", nextId, s, <<>>) \in FromDevice \ To("WRTE", s)
      /\ Msg("CLSE", 0, s, <<>>) \in FromDevice \ To("WRTE", s)
      /\ Msg("WRTE", nextId, s, <<Notice>>) \in FromDevice
  <2>1. \A i, d : Msg("OKAY", i, s, d).cmd # "WRTE" /\ Msg("CLSE", i, s, d).cmd # "WRTE"
    BY DEF Msg
  <2>. QED BY <1>0, <2>1, OpenMessages DEF Base, To
<1>3. NoMore(toDev, toDev', From("OKAY", s))
  BY <1>0, <1>1, TailNoMore
<1>4. In(toDev') \cap From("OKAY", s) = {} /\ AtMostOne(toDev', From("OKAY", s))
  BY <1>1, <1>3 DEF NoMore
<1>5. AtMostOne(toHost', To("WRTE", s))
  <2>1. CASE OpenFails(s)
    <3>. DEFINE a == Msg("OKAY", nextId, s, <<>>)
                b == Msg("WRTE", nextId, s, <<Notice>>)
                d == Msg("CLSE", nextId, s, <<>>)
    <3>1. /\ a \in FromDevice /\ b \in FromDevice /\ d \in FromDevice
          /\ d \notin To("WRTE", s) /\ a \notin To("WRTE", s)
          /\ toHost' = Append(Append(Append(toHost, a), b), d)
      BY <1>2, <2>1 DEF OpenFails
    <3>. HIDE DEF a, b, d
    <3>. QED BY <1>1, <3>1, OneOfThree
  <2>2. ASSUME NEW m \in FromDevice, toHost' = Append(toHost, m) PROVE AtMostOne(toHost', To("WRTE", s))
    BY <1>1, <2>2, OneAppend
  <2>3. CASE OpenRefused(s)
    BY <1>2, <2>2, <2>3 DEF OpenRefused
  <2>4. CASE OpenRuns(s)
    BY <1>2, <2>2, <2>4 DEF OpenRuns
  <2>. QED BY <1>0, <2>1, <2>3, <2>4
<1>6. CASE OpenFails(s)
  <2>1. chan' = chan
    BY <1>6 DEF OpenFails
  <2>2. \A c \in Slots : ~Runs(c, s)'
    BY <1>1, <2>1 DEF NoChannel, Runs
  <2>. QED BY <1>4, <1>5, <2>2 DEF Flow
<1>7. CASE OpenRefused(s) \/ OpenRuns(s)
  <2>1. In(toHost') \cap To("WRTE", s) = {}
    BY <1>1, <1>2, <1>7 DEF OpenRefused, OpenRuns
  <2>. QED BY <1>4, <1>5, <2>1 DEF Flow
<1>. QED BY <1>0, <1>6, <1>7

LEMMA FlowStep == Base /\ FlowInv /\ [Next]_vars => FlowInv'
<1>. SUFFICES ASSUME Base, FlowInv, [Next]_vars, NEW s \in Shells PROVE Flow(s)'
  BY DEF FlowInv
<1>. DEFINE W == To("WRTE", s)
            K == From("OKAY", s)
<1>0. /\ s \in Streams /\ TypeInv /\ PlaceInv /\ Flow(s)
      /\ toHost \in Seq(FromDevice) /\ toDev \in Seq(FromHost)
  BY DEF FlowInv, Base, TypeInv, Streams
<1>1. CASE RecvOpen /\ Head(toDev).arg0 = s
  BY <1>1, FlowOpen
<1>2. CASE RecvOkay
  <2>. DEFINE m == Head(toDev)
  <2>1. /\ toDev # <<>> /\ toDev' = Tail(toDev) /\ toHost' = toHost /\ m.cmd = "OKAY" /\ m \in FromHost
        /\ \A c \in Slots : /\ chan'[c].remote = chan[c].remote /\ chan'[c].open = chan[c].open
                            /\ chan'[c].canSend => chan[c].canSend \/ c \in ChannelOf(m.arg1)
    BY <1>0, <1>2, HeadOfHost DEF RecvOkay, Recv, TypeInv, Channel, Base
  <2>2. NoMore(toDev, toDev', K) /\ (m \in K => In(toDev') \cap K = {}) /\ In(toDev) = In(toDev') \cup {m}
    BY <1>0, <2>1, TailNoMore, OneTail, InTail DEF Flow
  <2>3. CASE m.arg0 = s
    <3>1. m \in K /\ m \in In(toDev)
      BY <2>1, <2>2, <2>3 DEF From
    <3>2. In(toHost') \cap W = {} /\ In(toDev') \cap K = {}
      BY <1>0, <2>1, <2>2, <3>1 DEF Flow
    <3>. QED BY <1>0, <2>1, <2>2, <3>2 DEF Flow, NoMore
  <2>4. CASE m.arg0 # s
    <3>1. \A c \in Slots : Runs(c, s)' /\ chan'[c].canSend => Runs(c, s) /\ chan[c].canSend
      BY <2>1, <2>4, FromItsStream DEF Runs
    <3>. QED BY <1>0, <2>1, <2>2, <3>1 DEF Flow, NoMore
  <2>. QED BY <2>3, <2>4
<1>3. ASSUME NEW c \in Slots, PtyOutput(c), Runs(c, s) PROVE Flow(s)'
  <2>. DEFINE m == Msg("WRTE", chan[c].local, chan[c].remote, pty[c].out)
  <2>1. m \in FromDevice /\ toHost' = Append(toHost, m) /\ toDev' = toDev /\ chan[c].canSend
    <3>1. m \in FromDevice
      BY <1>0, <1>3, ChannelType, TerminalType, Messages DEF PtyOutput
    <3>. QED BY <1>0, <1>3, <3>1, Sending DEF PtyOutput, Send
  <2>2. In(toHost) \cap W = {} /\ In(toDev) \cap K = {}
    BY <1>0, <1>3, <2>1 DEF Flow
  <2>3. AtMostOne(toHost', W)
    BY <1>0, <2>1, <2>2, OneAppend DEF Flow
  <2>4. \A d \in Slots : Runs(d, s)' => ~chan'[d].canSend
    <3>1. \A d \in Slots : Runs(d, s)' => Runs(d, s)
      BY <1>0, <1>3 DEF PtyOutput, Runs, TypeInv, Channel
    <3>2. ~chan'[c].canSend
      BY <1>0, <1>3 DEF PtyOutput, TypeInv, Channel
    <3>. QED BY <1>0, <1>3, <3>1, <3>2, OneChannel
  <2>. QED BY <1>0, <2>1, <2>2, <2>3, <2>4 DEF Flow
<1>4. CASE HostRecv /\ Head(toHost).cmd = "WRTE" /\ Head(toHost).arg1 = s
  <2>. DEFINE m == Head(toHost)
  <2>1. /\ m \in FromDevice /\ toHost # <<>> /\ chan' = chan /\ m.arg0 \in Nat
        /\ toHost' = Tail(toHost) /\ In(toHost) = In(toHost') \cup {m}
        /\ HearsWrite(m, s) \/ toDev' = toDev
    <3>1. PICK n \in FromDevice, t \in Streams :
           /\ n = m /\ t = n.arg1 /\ toHost # <<>>
           /\ UNCHANGED daemonVars
           /\ toHost' = Tail(toHost) /\ In(toHost) = In(toHost') \cup {n}
           /\ \/ HearsFirst(n, t) \/ HearsOkay(n, t) \/ HearsWrite(n, t) \/ HearsClose(n, t)
              \/ HearsNothing(n, t)
      BY <1>0, <1>4, HostHears
    <3>2. HearsWrite(n, s) \/ toDev' = toDev
      BY <1>4, <3>1 DEF HearsFirst, HearsOkay, HearsClose, HearsNothing
    <3>. QED BY <3>1, <3>2 DEF daemonVars, FromDevice
  <2>2. m \in W /\ m \in In(toHost)
    BY <1>4, <2>1 DEF To
  <2>3. In(toHost') \cap W = {} /\ AtMostOne(toHost', W) /\ In(toDev) \cap K = {}
    BY <1>0, <2>1, <2>2, OneTail DEF Flow
  <2>4. AtMostOne(toDev', K)
    <3>1. Msg("OKAY", s, m.arg0, <<>>) \in FromHost
      BY <1>0, <2>1, HostMessages
    <3>2. AtMostOne(toDev, K)
      BY <1>0 DEF Flow
    <3>3. CASE HearsWrite(m, s)
      <4>1. toDev' = Append(toDev, Msg("OKAY", s, m.arg0, <<>>))
        BY <3>3 DEF HearsWrite
      <4>. QED BY <1>0, <2>3, <3>1, <3>2, <4>1, OneAppend
    <3>. QED BY <2>1, <3>2, <3>3
  <2>5. \A c \in Slots : Runs(c, s)' => ~chan'[c].canSend
    BY <1>0, <2>1, <2>2 DEF Flow, Runs
  <2>. QED BY <2>3, <2>4, <2>5 DEF Flow
<1>5. CASE /\ RecvOpen => Head(toDev).arg0 # s
           /\ ~RecvOkay /\ \A c \in Slots : PtyOutput(c) => ~Runs(c, s)
           /\ HostRecv => Head(toHost).cmd # "WRTE" \/ Head(toHost).arg1 # s
  <2>1. NoMore(toHost, toHost', W) /\ NoMore(toDev, toDev', K)
    BY <1>5, DeviceQuiet, HostQuiet
  <2>2. ASSUME NEW c \in Slots, Runs(c, s)', chan'[c].canSend
        PROVE  Runs(c, s) /\ chan[c].canSend
    <3>1. CASE RecvOpen
      <4>1. \A d \in Slots : chan'[d] = chan[d] \/ chan'[d] = NewChannel(Head(toDev).arg0)
        BY <1>0, <3>1, OpenCases DEF Base, OpenRefused, OpenServed, OpenRuns, OpenFails
      <4>. QED BY <1>5, <2>2, <3>1, <4>1 DEF Runs, NewChannel
    <3>2. CASE ~RecvOpen
      BY <1>0, <1>5, <2>2, <3>2, KeepsChannels, KeepsCredit DEF SameChannels, Runs
    <3>. QED BY <3>1, <3>2
  <2>. QED BY <1>0, <2>1, <2>2 DEF Flow, NoMore
<1>. QED BY <1>1, <1>2, <1>3, <1>4, <1>5

LEMMA TurnOpen ==
  ASSUME Base, TurnInv, RecvOpen, NEW s \in Shells, s = Head(toDev).arg0
  PROVE  Turn(s)'
<1>0. /\ s \in Streams /\ Untouched(s) /\ toDev # <<>> /\ toDev' = Tail(toDev) /\ host' = host
      /\ OpenRefused(s) \/ OpenRuns(s) \/ OpenFails(s)
  BY OpenCases DEF Base, OpenServed, RecvOpen, Recv
<1>1. /\ In(toHost) \cap To("OKAY", s) = {} /\ In(toDev) \cap From("WRTE", s) = {} /\ ~host[s].credit
      /\ AtMostOne(toHost, To("OKAY", s)) /\ AtMostOne(toDev, From("WRTE", s))
      /\ toHost \in Seq(FromDevice) /\ toDev \in Seq(FromHost)
  BY <1>0, UntouchedWire DEF TurnInv, Turn, Base, TypeInv, Untouched
<1>2. /\ Msg("CLSE", nextId, s, <<>>) \in FromDevice \ To("OKAY", s)
      /\ Msg("CLSE", 0, s, <<>>) \in FromDevice \ To("OKAY", s)
      /\ Msg("WRTE", nextId, s, <<Notice>>) \in FromDevice \ To("OKAY", s)
      /\ Msg("OKAY", nextId, s, <<>>) \in FromDevice
  <2>1. \A i, d : Msg("WRTE", i, s, d).cmd # "OKAY" /\ Msg("CLSE", i, s, d).cmd # "OKAY"
    BY DEF Msg
  <2>. QED BY <1>0, <2>1, OpenMessages DEF Base, To
<1>3. NoMore(toDev, toDev', From("WRTE", s))
  BY <1>0, <1>1, TailNoMore
<1>4. In(toDev') \cap From("WRTE", s) = {} /\ AtMostOne(toDev', From("WRTE", s))
  BY <1>1, <1>3 DEF NoMore
<1>5. AtMostOne(toHost', To("OKAY", s))
  <2>1. CASE OpenFails(s)
    <3>. DEFINE a == Msg("OKAY", nextId, s, <<>>)
                b == Msg("WRTE", nextId, s, <<Notice>>)
                d == Msg("CLSE", nextId, s, <<>>)
    <3>1. /\ a \in FromDevice /\ b \in FromDevice /\ d \in FromDevice
          /\ d \notin To("OKAY", s) /\ b \notin To("OKAY", s)
          /\ toHost' = Append(Append(Append(toHost, a), b), d)
      BY <1>2, <2>1 DEF OpenFails
    <3>. HIDE DEF a, b, d
    <3>. QED BY <1>1, <3>1, OneOfThree
  <2>2. ASSUME NEW m \in FromDevice, toHost' = Append(toHost, m) PROVE AtMostOne(toHost', To("OKAY", s))
    BY <1>1, <2>2, OneAppend
  <2>3. CASE OpenRefused(s)
    BY <1>2, <2>2, <2>3 DEF OpenRefused
  <2>4. CASE OpenRuns(s)
    BY <1>2, <2>2, <2>4 DEF OpenRuns
  <2>. QED BY <1>0, <2>1, <2>3, <2>4
<1>. QED BY <1>0, <1>1, <1>4, <1>5 DEF Turn

LEMMA TurnStep == Base /\ TurnInv /\ [Next]_vars => TurnInv'
<1>. SUFFICES ASSUME Base, TurnInv, [Next]_vars, NEW s \in Shells PROVE Turn(s)'
  BY DEF TurnInv
<1>. DEFINE W == From("WRTE", s)
            K == To("OKAY", s)
<1>0. /\ s \in Streams /\ TypeInv /\ PlaceInv /\ HostInv /\ Turn(s) /\ host[s] \in HostState
      /\ toHost \in Seq(FromDevice) /\ toDev \in Seq(FromHost)
  BY HostType DEF TurnInv, Base, TypeInv, Streams
<1>1. CASE RecvOpen /\ Head(toDev).arg0 = s
  BY <1>1, TurnOpen
<1>2. CASE HostRecv /\ Head(toHost).cmd = "OKAY" /\ Head(toHost).arg1 = s
  <2>. DEFINE m == Head(toHost)
  <2>1. /\ toHost # <<>> /\ toHost' = Tail(toHost) /\ In(toHost) = In(toHost') \cup {m} /\ m \in FromDevice
        /\ toDev' = toDev
    <3>1. PICK n \in FromDevice, t \in Streams :
           /\ n = m /\ t = n.arg1 /\ toHost # <<>>
           /\ toHost' = Tail(toHost) /\ In(toHost) = In(toHost') \cup {n}
           /\ \/ HearsFirst(n, t) \/ HearsOkay(n, t) \/ HearsWrite(n, t) \/ HearsClose(n, t)
              \/ HearsNothing(n, t)
      BY <1>0, <1>2, HostHears
    <3>. QED BY <1>2, <3>1 DEF HearsFirst, HearsOkay, HearsWrite, HearsClose, HearsNothing
  <2>2. m \in K /\ m \in In(toHost)
    BY <1>2, <2>1 DEF To
  <2>3. In(toHost') \cap K = {} /\ AtMostOne(toHost', K) /\ In(toDev) \cap W = {}
    BY <1>0, <2>1, <2>2, OneTail DEF Turn
  <2>. QED BY <1>0, <2>1, <2>3 DEF Turn
<1>3. CASE HostWrite(s)
  <2>1. PICK data \in Items(s) : Writes(s, data) /\ toHost' = toHost
    BY <1>0, <1>3, HostActs
  <2>2. Msg("WRTE", s, host[s].peer, data) \in FromHost
    BY <1>0, ItemsType, HostType, HostMessages
  <2>3. In(toHost') \cap K = {} /\ AtMostOne(toHost', K) /\ In(toDev) \cap W = {} /\ ~host'[s].credit
    BY <1>0, <2>1 DEF Turn, Writes
  <2>4. AtMostOne(toDev', W)
    BY <1>0, <2>1, <2>2, <2>3, OneAppend DEF Turn, Writes
  <2>. QED BY <2>3, <2>4 DEF Turn
<1>4. CASE RecvWrite /\ Head(toDev).arg0 = s
  <2>. DEFINE m == Head(toDev)
  <2>1. /\ toDev # <<>> /\ toDev' = Tail(toDev) /\ m \in In(toDev) /\ m \in W /\ host' = host
        /\ In(toDev) = In(toDev') \cup {m}
    BY <1>0, <1>4, HeadOfHost, InTail DEF RecvWrite, Recv, From
  <2>2. /\ In(toDev') \cap W = {} /\ AtMostOne(toDev', W) /\ In(toHost) \cap K = {} /\ ~host[s].credit
        /\ AtMostOne(toHost, K)
    BY <1>0, <2>1, OneTail DEF Turn
  <2>3. AtMostOne(toHost', K)
    <3>1. CASE toHost' = toHost
      BY <2>2, <3>1
    <3>2. CASE toHost' # toHost
      <4>1. PICK n \in FromDevice : toHost' = Append(toHost, n)
        BY <1>0, <1>4, <3>2, DaemonSends DEF Transport, RecvWrite, RecvOpen, Recv, Sends
      <4>. QED BY <1>0, <2>2, <4>1, OneAppend
    <3>. QED BY <3>1, <3>2
  <2>. QED BY <2>1, <2>2, <2>3 DEF Turn
<1>5. CASE /\ RecvOpen => Head(toDev).arg0 # s
           /\ HostRecv => Head(toHost).cmd # "OKAY" \/ Head(toHost).arg1 # s
           /\ ~HostWrite(s) /\ (RecvWrite => Head(toDev).arg0 # s)
  <2>1. NoMore(toHost, toHost', K) /\ NoMore(toDev, toDev', W)
    BY <1>5, DeviceQuiet, HostQuiet
  <2>2. host'[s].credit => host[s].credit
    <3>1. CASE HostRecv
      <4>1. PICK n \in FromDevice, t \in Streams :
              /\ n = Head(toHost) /\ t = n.arg1 /\ \A u \in Streams \ {t} : host'[u] = host[u]
              /\ \/ HearsFirst(n, t) \/ HearsOkay(n, t) \/ HearsWrite(n, t) \/ HearsClose(n, t)
                 \/ HearsNothing(n, t)
        BY <1>0, <3>1, HostHears
      <4>. QED BY <1>0, <1>5, <3>1, <4>1
             DEF HearsFirst, HearsOkay, HearsWrite, HearsClose, HearsNothing
    <3>2. ASSUME NEW t \in Streams, HostOpen(t) \/ HostWrite(t) \/ HostClose(t)
          PROVE  host'[s].credit => host[s].credit
      <4>1. CASE t = s
        <5>1. host[s] \in HostState
          BY <1>0, HostType
        <5>2. Opens(s) \/ Closes(s) \/ \E data \in Items(s) : Writes(s, data)
          BY <1>0, <3>2, <4>1, HostActs
        <5>. QED BY <5>1, <5>2 DEF Opens, Closes, Writes, HostState
      <4>2. CASE t # s
        BY <1>0, <3>2, <4>2, HostActs
      <4>. QED BY <4>1, <4>2
    <3>3. CASE Transport \/ CommandStep \/ UNCHANGED vars \/ Disconnect
      BY <1>0, <3>3, DaemonFrame DEF CommandStep, CommandReads, CommandWrites, CommandExits, vars, Disconnect
    <3>. QED BY <3>1, <3>2, <3>3, ThreeParts DEF HostStep
  <2>. QED BY <1>0, <2>1, <2>2 DEF Turn, NoMore
<1>. QED BY <1>1, <1>2, <1>3, <1>4, <1>5

-------------------------------------------------------------------------------
(* What the host types reaches the command in order. *)
LEMMA HostStays ==
  ASSUME Base, [Next]_vars, NEW s \in Streams, ~HostOpen(s), ~HostWrite(s), ~HostClose(s),
         HostRecv => Head(toHost).arg1 # s
  PROVE  host'[s] = host[s]
<1>1. CASE HostRecv
  BY <1>1, HostHears DEF Base
<1>2. ASSUME NEW t \in Streams, HostOpen(t) \/ HostWrite(t) \/ HostClose(t) PROVE host'[s] = host[s]
  <2>1. t # s
    BY <1>2
  <2>. QED BY <1>2, <2>1, HostActs DEF Base
<1>3. CASE Transport \/ CommandStep \/ UNCHANGED vars \/ Disconnect
  BY <1>3, DaemonFrame DEF CommandStep, CommandReads, CommandWrites, CommandExits, vars, Disconnect, Base
<1>. QED BY <1>1, <1>2, <1>3, ThreeParts DEF HostStep

LEMMA SentStays ==
  ASSUME Base, [Next]_vars, NEW s \in Streams, ~HostWrite(s)
  PROVE  /\ host'[s].sent = host[s].sent
         /\ host'[s].credit => host[s].credit
              \/ (HostRecv /\ toHost # <<>> /\ Head(toHost) \in FromDevice
                    /\ Head(toHost).cmd = "OKAY" /\ Head(toHost).arg1 = s)
<1>0. host[s] \in HostState
  BY HostType DEF Base
<1>1. CASE HostOpen(s) \/ HostClose(s)
  <2>1. UNCHANGED daemonVars /\ (Opens(s) \/ Closes(s))
    <3>1. HostOpen(s) => Opens(s)
      BY HostActs, <1>0 DEF HostOpen, Closes, Writes, Base
    <3>2. HostClose(s) => ~Opens(s)
      BY <1>0 DEF HostClose, Opens
    <3>3. ASSUME HostClose(s), NEW data \in Items(s), Writes(s, data) PROVE FALSE
      BY <1>0, <3>3 DEF HostClose, Writes, Base, TypeInv
    <3>. QED BY <1>1, <3>1, <3>2, <3>3, HostActs DEF Base
  <2>. QED BY <1>0, <2>1 DEF Opens, Closes, HostState
<1>2. CASE HostRecv /\ Head(toHost).arg1 = s
  <2>1. PICK m \in FromDevice, t \in Streams :
          /\ m = Head(toHost) /\ t = m.arg1 /\ toHost # <<>>
          /\ \/ HearsFirst(m, t) \/ HearsOkay(m, t) \/ HearsWrite(m, t) \/ HearsClose(m, t)
             \/ HearsNothing(m, t)
    BY <1>2, HostHears DEF Base
  <2>. QED BY <1>2, <2>1 DEF HearsFirst, HearsOkay, HearsWrite, HearsClose, HearsNothing
<1>. QED BY <1>1, <1>2, HostStays

LEMMA OrderedPart ==
  ASSUME NEW S, NEW a \in Seq(S), NEW b \in Seq(S), NEW s, InOrder(a \o b, s)
  PROVE  InOrder(a, s)
BY DEF InOrder

LEMMA OneMore ==
  ASSUME NEW S, NEW a \in Seq(S), NEW s, InOrder(a, s), NEW n, n = Len(a) + 1
  PROVE  InOrder(a \o << <<s, n>> >>, s) /\ Len(a \o << <<s, n>> >>) = n
<1>1. a \o << <<s, n>> >> = Append(a, <<s, n>>)
  OBVIOUS
<1>. QED BY <1>1 DEF InOrder

LEMMA HeadMoves ==
  ASSUME NEW S, NEW a \in Seq(S), NEW b \in Seq(S), b # <<>>
  PROVE  Append(a, Head(b)) \o Tail(b) = a \o b
<1>1. Append(a, Head(b)) = a \o <<Head(b)>>
  BY HeadTailProperties
<1>2. b = <<Head(b)>> \o Tail(b)
  BY HeadTailProperties
<1>3. <<Head(b)>> \in Seq(S) /\ Tail(b) \in Seq(S)
  BY HeadTailProperties
<1>. QED BY <1>1, <1>2, <1>3, ConcatAssociative

LEMMA DataAssociates == \A a, b, d \in Seq(Datum) : (a \o b) \o d = a \o (b \o d)
BY ConcatAssociative

LEMMA TypedType ==
  ASSUME TypeInv, NEW c \in Slots, NEW s \in Shells
  PROVE  /\ given[s] \in Seq(Datum) /\ pty[c].in \in Seq(Datum) /\ pending.data \in Seq(Datum)
         /\ given[s] \o pty[c].in \in Seq(Datum) /\ Typed(c, s) \in Seq(Datum)
<1>1. /\ given[s] \in Seq(Datum) /\ pty[c].in \in Seq(Datum) /\ pending.data \in Seq(Datum)
      /\ <<>> \in Seq(Datum)
  BY DEF TypeInv, Terminal
<1>. QED BY <1>1 DEF Typed

(* The chunks of a terminal move, and the terminal keeps them. *)
LEMMA TypedStays ==
  ASSUME Base, [Next]_vars, ~RecvOpen, ~RecvWrite, NEW s \in Shells, NEW c \in Slots,
         Runs(c, s)', pty'[c].alive
  PROVE  Runs(c, s) /\ pty[c].alive /\ Typed(c, s)' = Typed(c, s)
<1>0. /\ Runs(c, s) /\ pty[c].alive /\ TypeInv /\ PlaceInv
      /\ given \in [Shells -> Seq(Datum)] /\ pty \in [Slots -> Terminal] /\ c # 0
  BY KeepsChannels DEF SameChannels, Runs, Base, TypeInv, Slots
<1>1. CASE UNCHANGED <<given, pending>> /\ pty'[c].in = pty[c].in
  BY <1>0, <1>1 DEF Typed
<1>2. ASSUME UNCHANGED <<given, pending>>, NEW cs, CloseChannels(cs)
      PROVE  Typed(c, s)' = Typed(c, s)
  <2>1. pty'[c] = pty[c]
    BY <1>2 DEF CloseChannels, NoPty
  <2>. QED BY <1>1, <1>2, <2>1
<1>3. CASE WriteFull
  <2>1. CASE pending.slot = c
    <3>1. pty' = [pty EXCEPT ![c].in = @ \o pending.data] /\ pending' = [slot |-> 0, data |-> <<>>]
          /\ given' = given
      BY <1>0, <1>3, <2>1 DEF WriteFull, history
    <3>2. pty'[c].in = pty[c].in \o pending.data
      BY <1>0, <3>1 DEF Terminal
    <3>3. /\ Typed(c, s) = (given[s] \o pty[c].in) \o pending.data
          /\ Typed(c, s)' = (given[s] \o (pty[c].in \o pending.data)) \o <<>>
      BY <1>0, <2>1, <3>1, <3>2 DEF Typed
    <3>4. /\ given[s] \in Seq(Datum) /\ pty[c].in \in Seq(Datum) /\ pending.data \in Seq(Datum)
      BY <1>0, TypedType
    <3>5. (given[s] \o (pty[c].in \o pending.data)) \o <<>> = given[s] \o (pty[c].in \o pending.data)
      BY <3>4
    <3>6. (given[s] \o pty[c].in) \o pending.data = given[s] \o (pty[c].in \o pending.data)
      <4>1. \A a, b, d \in Seq(Datum) : (a \o b) \o d = a \o (b \o d)
        BY ConcatAssociative
      <4>. QED BY <3>4, <4>1
    <3>. QED BY <1>0, <3>3, <3>5, <3>6
  <2>2. CASE pending.slot # c
    <3>1. pty'[c] = pty[c] /\ given' = given /\ pending'.slot # c
      BY <1>0, <1>3, <2>2 DEF WriteFull, history
    <3>2. /\ Typed(c, s) = (given[s] \o pty[c].in) \o <<>>
          /\ Typed(c, s)' = (given'[s] \o pty'[c].in) \o <<>>
      BY <2>2, <3>1 DEF Typed
    <3>. QED BY <1>0, <3>1, <3>2
  <2>. QED BY <2>1, <2>2
<1>4. ASSUME NEW d \in Slots, CommandReads(d) PROVE Typed(c, s)' = Typed(c, s)
  <2>1. CASE d = c
    <3>1. /\ pty[c].in # <<>> /\ pty'[c].in = Tail(pty[c].in) /\ pending' = pending
          /\ given'[s] = Append(given[s], Head(pty[c].in))
      BY <1>0, <1>4, <2>1 DEF CommandReads, Runs, Terminal
    <3>2. given[s] \in Seq(Datum) /\ pty[c].in \in Seq(Datum)
      BY <1>0, TypedType
    <3>3. Append(given[s], Head(pty[c].in)) \o Tail(pty[c].in) = given[s] \o pty[c].in
      BY <3>1, <3>2, HeadMoves
    <3>. QED BY <3>1, <3>3 DEF Typed
  <2>2. CASE d # c
    <3>1. chan[d].open /\ chan[d].remote # s /\ s \in Streams
      <4>1. chan[d].open /\ s \in Streams
        BY <1>0, <1>4 DEF CommandReads, PlaceInv, Streams
      <4>. QED BY <1>0, <2>2, <4>1, OneChannel DEF Runs
    <3>2. given'[s] = given[s] /\ pty'[c] = pty[c] /\ pending' = pending
      BY <1>0, <1>4, <2>2, <3>1 DEF CommandReads
    <3>. QED BY <3>2 DEF Typed
  <2>. QED BY <2>1, <2>2
<1>5. ASSUME NEW d \in Slots, CommandWrites(d) \/ CommandExits(d) \/ PtyOutput(d)
      PROVE  UNCHANGED <<given, pending>> /\ pty'[c].in = pty[c].in
  <2>1. UNCHANGED <<given, pending>>
    BY <1>5 DEF CommandWrites, CommandExits, PtyOutput, history
  <2>2. pty[c] \in Terminal /\ pty[d] \in Terminal
    BY <1>0
  <2>3. CASE CommandWrites(d)
    BY <1>0, <2>2, <2>3 DEF CommandWrites, Terminal
  <2>4. CASE CommandExits(d)
    <3>1. pty' = [pty EXCEPT ![d].alive = FALSE]
      BY <2>4 DEF CommandExits
    <3>2. pty'[c].in = pty[c].in
      BY <1>0, <2>2, <3>1 DEF Terminal
    <3>. QED BY <2>1, <3>2
  <2>5. CASE PtyOutput(d)
    <3>1. pty' = [pty EXCEPT ![d].out = <<>>]
      BY <2>5 DEF PtyOutput
    <3>2. pty'[c].in = pty[c].in
      BY <1>0, <2>2, <3>1 DEF Terminal
    <3>. QED BY <2>1, <3>2
  <2>. QED BY <1>5, <2>1, <2>3, <2>4, <2>5
<1>. QED BY <1>0, <1>1, <1>2, <1>3, <1>4, <1>5 DEF Next, Transport, RecvClose, RecvOkay,
       TransportEnds, PtyEnds,
       ServiceWrite, ServiceOkay, ServiceClose, ServiceDrops, ServiceSend, Replied, SyncItem, ServiceEnds,
       HostRecv, Disconnect, HostOpen, HostWrite, HostClose, vars, channels, history

LEMMA GivenStays ==
  ASSUME Base, [Next]_vars, NEW s \in Shells, Input(s)
  PROVE  InOrder(given'[s], s)
<1>1. ASSUME NEW d \in Slots, CommandReads(d) PROVE InOrder(given'[s], s)
  <2>0. TypeInv /\ PlaceInv /\ chan[d].open /\ pty[d].alive /\ given \in [Shells -> Seq(Datum)]
    BY <1>1 DEF CommandReads, Base, PlaceInv, TypeInv
  <2>1. CASE chan[d].remote = s
    <3>1. /\ pty[d].in # <<>> /\ given'[s] = Append(given[s], Head(pty[d].in))
          /\ InOrder(Typed(d, s), s)
      BY <1>1, <2>0, <2>1 DEF CommandReads, Runs, Input
    <3>2. given[s] \in Seq(Datum) /\ pty[d].in \in Seq(Datum) /\ given[s] \o pty[d].in \in Seq(Datum)
          /\ pending.data \in Seq(Datum) /\ <<>> \in Seq(Datum)
      BY <2>0, TypedType
    <3>3. InOrder(given[s] \o pty[d].in, s)
      BY <3>1, <3>2, OrderedPart DEF Typed
    <3>4. Append(given[s], Head(pty[d].in)) \o Tail(pty[d].in) = given[s] \o pty[d].in
      BY <3>1, <3>2, HeadMoves
    <3>5. Append(given[s], Head(pty[d].in)) \in Seq(Datum) /\ Tail(pty[d].in) \in Seq(Datum)
      BY <3>1, <3>2, HeadTailProperties
    <3>. QED BY <3>1, <3>3, <3>4, <3>5, OrderedPart
  <2>2. CASE chan[d].remote # s
    BY <1>1, <2>0, <2>2 DEF CommandReads, Input
  <2>. QED BY <2>1, <2>2
<1>2. CASE given' = given
  BY <1>2 DEF Input
<1>3. CASE Transport \/ HostStep \/ UNCHANGED vars
  BY <1>2, <1>3, DaemonFrame DEF HostStep, HostRecv, Disconnect, HostOpen, HostWrite, HostClose, history, vars,
     Base
<1>. QED BY <1>1, <1>2, <1>3, ThreeParts DEF CommandStep, CommandWrites, CommandExits, history

LEMMA InitInput == Init => InputInv
BY DEF Init, InputInv, Input, InOrder, Runs, Closed

LEMMA InputOpen ==
  ASSUME Base, RecvOpen, NEW s \in Shells, Input(s)
  PROVE  Input(s)'
<1>. DEFINE t == Head(toDev).arg0
<1>0. /\ t \in Streams /\ Untouched(t) /\ pc = "select" /\ pending.slot = 0
      /\ UNCHANGED <<pending, host, given>> /\ toDev' = Tail(toDev) /\ toDev # <<>>
      /\ OpenRefused(t) \/ OpenServed(t) \/ OpenRuns(t) \/ OpenFails(t)
      /\ s \in Streams /\ given \in [Shells -> Seq(Datum)] /\ toDev \in Seq(FromHost)
  <2>1. /\ t \in Streams /\ Untouched(t) /\ pc = "select" /\ UNCHANGED <<pending, host, given>>
        /\ OpenRefused(t) \/ OpenServed(t) \/ OpenRuns(t) \/ OpenFails(t)
    BY OpenCases DEF Base
  <2>. QED BY <2>1 DEF Base, PlaceInv, TypeInv, Streams, RecvOpen, Recv
<1>1. In(toDev') \subseteq In(toDev)
  BY <1>0, InTail
<1>. HIDE DEF t
<1>2. CASE s = t
  <2>1. /\ given[s] = <<>> /\ host[s].sent = 0 /\ In(toDev) \cap From("WRTE", s) = {} /\ NoChannel(s)
    BY <1>0, <1>2, UntouchedWire DEF Untouched
  <2>2. ASSUME NEW c \in Slots, Runs(c, s)' PROVE Typed(c, s)' = <<>>
    <3>1. pty'[c].in = <<>>
      <4>1. chan'[c] # chan[c]
        BY <2>1, <2>2 DEF NoChannel, Runs
      <4>2. OpenRuns(t)
        BY <1>0, <4>1 DEF OpenRefused, OpenServed, OpenFails
      <4>. QED BY <4>1, <4>2 DEF OpenRuns
    <3>2. pending'.slot # c
      BY <1>0 DEF Slots
    <3>3. Typed(c, s)' = (<<>> \o <<>>) \o <<>>
      BY <1>0, <2>1, <3>1, <3>2 DEF Typed
    <3>. QED BY <3>3
  <2>3. InOrder(given'[s], s) /\ InOrder(<<>>, s) /\ Len(<<>>) = 0
    BY <1>0, <2>1 DEF InOrder
  <2>4. host'[s].sent = 0 /\ In(toDev') \cap From("WRTE", s) = {}
    BY <1>0, <1>1, <2>1
  <2>. QED BY <2>2, <2>3, <2>4 DEF Input
<1>3. CASE s # t
  <2>1. ASSUME NEW c \in Slots, Runs(c, s)'
        PROVE  Runs(c, s) /\ pty'[c] = pty[c] /\ Typed(c, s)' = Typed(c, s)
    <3>1. Runs(c, s) /\ pty'[c] = pty[c]
      BY <1>0, <1>3, <2>1 DEF Runs, OpenRefused, OpenServed, OpenRuns, OpenFails, NewChannel
    <3>. QED BY <1>0, <3>1 DEF Typed
  <2>2. NoMore(toHost, toHost', To("OKAY", s))
    BY <1>3, DeviceQuiet DEF t, Next, Transport, RecvWrite, RecvOpen, Recv
  <2>. QED BY <1>0, <1>1, <2>1, <2>2 DEF Input, NoMore
<1>. QED BY <1>2, <1>3

(* A WRTE of the host goes to the terminal of its own stream, or nowhere. *)
LEMMA InputWrite ==
  ASSUME Base, TurnInv, RecvWrite, NEW s \in Shells, Input(s)
  PROVE  Input(s)'
<1>. DEFINE m == Head(toDev)
<1>0. /\ s \in Streams /\ toDev \in Seq(FromHost) /\ toDev # <<>> /\ toDev' = Tail(toDev) /\ m.cmd = "WRTE"
      /\ m \in FromHost /\ UNCHANGED <<chan, pty, host, given>> /\ pc = "select" /\ pending.slot = 0
      /\ In(toDev) = In(toDev') \cup {m} /\ Turn(s)
  BY InTail DEF RecvWrite, Recv, Base, TypeInv, Streams, history, PlaceInv, TurnInv
<1>1. CASE m.arg0 = s
  <2>1. m \in In(toDev) \cap From("WRTE", s)
    BY <1>0, <1>1 DEF From
  <2>2. In(toDev') \cap From("WRTE", s) = {}
    BY <1>0, <2>1, OneTail DEF Turn
  <2>3. ASSUME NEW c \in Slots, Runs(c, s)', pty'[c].alive
        PROVE  InOrder(Typed(c, s)', s) /\ Len(Typed(c, s)') = host'[s].sent
    <3>1. Runs(c, s) /\ pty[c].alive
      BY <1>0, <2>3 DEF Runs
    <3>2. Len(Typed(c, s)) + 1 = host[s].sent /\ m.data = << <<s, host[s].sent>> >> /\ InOrder(Typed(c, s), s)
      BY <2>1, <3>1 DEF Input
    <3>3. pending' = [slot |-> c, data |-> m.data]
      <4>1. c \in ChannelOf(m.arg1)
        BY <1>0, <1>1, <3>1, FromItsStream
      <4>2. PICK d \in ChannelOf(m.arg1) : pending' = [slot |-> d, data |-> m.data]
        BY <4>1 DEF RecvWrite
      <4>3. d \in Slots /\ Runs(d, s)
        BY <1>0, <1>1, FromItsStream
      <4>. QED BY <1>0, <3>1, <4>2, <4>3, OneChannel
    <3>4. given[s] \o pty[c].in \in Seq(Datum) /\ c # 0
      BY TypedType DEF Base, Slots
    <3>5. /\ Typed(c, s) = (given[s] \o pty[c].in) \o <<>>
          /\ Typed(c, s)' = (given[s] \o pty[c].in) \o << <<s, host[s].sent>> >>
      BY <1>0, <3>2, <3>3, <3>4 DEF Typed
    <3>6. (given[s] \o pty[c].in) \o <<>> = given[s] \o pty[c].in
      BY <3>4
    <3>. DEFINE a == given[s] \o pty[c].in
    <3>7. a \in Seq(Datum) /\ InOrder(a, s) /\ host[s].sent = Len(a) + 1
      BY <3>2, <3>4, <3>5, <3>6
    <3>8. Typed(c, s)' = a \o << <<s, host[s].sent>> >> /\ host'[s].sent = host[s].sent
      BY <1>0, <3>5
    <3>. HIDE DEF a
    <3>. QED BY <3>7, <3>8, OneMore
  <2>. QED BY <1>0, <2>2, <2>3 DEF Input
<1>2. CASE m.arg0 # s
  <2>1. ASSUME NEW c \in Slots, Runs(c, s)'
        PROVE  Runs(c, s) /\ Typed(c, s)' = Typed(c, s)
    <3>1. Runs(c, s)
      BY <1>0, <2>1 DEF Runs
    <3>2. pending'.slot # c
      <4>1. c \notin ChannelOf(m.arg1)
        BY <1>0, <1>2, <3>1, FromItsStream DEF Runs
      <4>2. pending' = pending \/ \E d \in ChannelOf(m.arg1) : pending' = [slot |-> d, data |-> m.data]
        BY DEF RecvWrite
      <4>. QED BY <1>0, <4>1, <4>2 DEF Slots
    <3>3. pending.slot # c
      BY <1>0 DEF Slots
    <3>. QED BY <1>0, <3>1, <3>2, <3>3 DEF Typed
  <2>2. NoMore(toHost, toHost', To("OKAY", s))
    BY <1>2, DeviceQuiet DEF Next, Transport, RecvWrite, RecvOpen, Recv
  <2>. QED BY <1>0, <2>1, <2>2 DEF Input, NoMore
<1>. QED BY <1>1, <1>2

LEMMA InputStep == Base /\ TurnInv /\ InputInv /\ [Next]_vars => InputInv'
<1>. SUFFICES ASSUME Base, TurnInv, InputInv, [Next]_vars, NEW s \in Shells PROVE Input(s)'
  BY DEF InputInv
<1>0. s \in Streams /\ Turn(s) /\ Input(s) /\ TypeInv /\ host[s] \in HostState
  BY HostType DEF InputInv, TurnInv, Streams, Base
<1>1. CASE ~RecvOpen /\ ~RecvWrite
  <2>1. InOrder(given'[s], s)
    BY <1>0, GivenStays
  <2>2. \A c \in Slots : Runs(c, s)' /\ pty'[c].alive =>
          Runs(c, s) /\ pty[c].alive /\ Typed(c, s)' = Typed(c, s)
    BY <1>1, TypedStays
  <2>3. NoMore(toHost, toHost', To("OKAY", s))
    BY <1>1, DeviceQuiet
  <2>4. CASE HostWrite(s)
    <3>1. PICK data \in Items(s) :
            /\ data = << <<s, host[s].sent + 1>> >> /\ Len(data) = 1
            /\ Writes(s, data) /\ toHost' = toHost
      BY <1>0, <2>4, HostActs, ItemsType
    <3>2. /\ In(toDev) \cap From("WRTE", s) = {} /\ In(toHost) \cap To("OKAY", s) = {}
          /\ host[s].credit /\ ~host'[s].credit /\ host'[s].sent = host[s].sent + 1
      BY <1>0, <3>1 DEF Turn, Writes
    <3>3. \A m \in In(toDev') \cap From("WRTE", s) : m.data = << <<s, host'[s].sent>> >>
      BY <3>1, <3>2 DEF Writes, Msg
    <3>. QED BY <1>0, <2>1, <2>2, <3>1, <3>2, <3>3 DEF Input
  <2>5. CASE ~HostWrite(s)
    <3>1. NoMore(toDev, toDev', From("WRTE", s))
      BY <2>5, HostQuiet
    <3>2. /\ host'[s].sent = host[s].sent
          /\ host'[s].credit => host[s].credit \/ In(toHost) \cap To("OKAY", s) # {}
      BY <1>0, <2>5, SentStays, HeadOfDaemon DEF To
    <3>3. In(toDev') \cap From("WRTE", s) \subseteq In(toDev) \cap From("WRTE", s)
      BY <3>1 DEF NoMore
    <3>. QED BY <1>0, <2>1, <2>2, <2>3, <3>2, <3>3 DEF Input, NoMore
  <2>. QED BY <2>4, <2>5
<1>2. CASE RecvOpen
  BY <1>0, <1>2, InputOpen
<1>3. CASE RecvWrite
  BY <1>0, <1>3, InputWrite
<1>. QED BY <1>1, <1>2, <1>3

-------------------------------------------------------------------------------
(* The end of a stream. *)

(* What may become of the host's side of a stream. *)
LEMMA HostMoves ==
  ASSUME Base, [Next]_vars, NEW s \in Streams
  PROVE  \/ host'[s].state = host[s].state /\ host'[s].peer = host[s].peer
         \/ /\ host[s].state = "new" /\ host'[s].state = "opening" /\ host'[s].peer = host[s].peer
            /\ HostOpen(s) /\ toHost' = toHost
         \/ host[s].state = "opening" /\ host'[s].state = "open"
         \/ host[s].state = "open" /\ host'[s].state = "closed" /\ host'[s].peer = host[s].peer
         \/ /\ host[s].state \in {"opening", "open"} /\ host'[s].state = "ended"
            /\ host'[s].peer = host[s].peer /\ host'[s].got = host[s].got
            /\ HostRecv /\ link /\ toHost # <<>> /\ Head(toHost) \in Closing(s)
<1>0. host[s] \in HostState
  BY HostType DEF Base
<1>1. CASE HostRecv /\ Head(toHost).arg1 = s
  <2>1. PICK m \in FromDevice, t \in Streams :
          /\ m = Head(toHost) /\ t = m.arg1 /\ toHost # <<>> /\ link
          /\ \/ HearsFirst(m, t) \/ HearsOkay(m, t) \/ HearsWrite(m, t) \/ HearsClose(m, t)
             \/ HearsNothing(m, t)
    BY <1>1, HostHears DEF Base
  <2>2. CASE HearsClose(m, s)
    BY <1>1, <2>1, <2>2 DEF HearsClose, Known, Closing
  <2>3. CASE ~HearsClose(m, s)
    BY <1>1, <2>1, <2>3 DEF HearsFirst, HearsOkay, HearsWrite, HearsNothing, Known
  <2>. QED BY <2>2, <2>3
<1>2. CASE HostOpen(s)
  <2>1. host'[s] = [host[s] EXCEPT !.state = "opening"]
    BY <1>2 DEF HostOpen, Base, TypeInv
  <2>. QED BY <1>0, <1>2, <2>1 DEF HostOpen, HostState
<1>3. CASE HostWrite(s)
  BY <1>3, HostActs DEF Writes, Base
<1>4. CASE HostClose(s)
  <2>1. host'[s] = [host[s] EXCEPT !.state = "closed"]
    BY <1>4 DEF HostClose, Base, TypeInv
  <2>. QED BY <1>0, <1>4, <2>1 DEF HostClose, HostState
<1>. QED BY <1>1, <1>2, <1>3, <1>4, HostStays

LEMMA ClosingShrinks ==
  ASSUME Base, [Next]_vars, NEW s \in Streams
  PROVE  /\ In(toHost) \cap Closing(s)' \subseteq Closing(s)
         /\ host'[s].state = "ended" =>
              host[s].state = "ended"
              \/ (toHost # <<>> /\ toHost' = Tail(toHost) /\ Head(toHost) \in Closing(s))
<1>1. CASE HostOpen(s)
  <2>1. \A m \in In(toHost) : m.arg1 # s
    BY <1>1 DEF HostOpen, Base, HostInv, Untouched
  <2>. QED BY <1>1, <2>1, HostMoves DEF Closing, HostOpen
<1>2. CASE ~HostOpen(s)
  <2>1. host[s].state = "opening" \/ (host'[s].state # "opening" /\ host'[s].peer = host[s].peer)
        \/ (host'[s].state = host[s].state /\ host'[s].peer = host[s].peer)
    BY <1>2, HostMoves
  <2>. QED BY <2>1, HostMoves DEF Closing, HostRecv
<1>. QED BY <1>1, <1>2

LEMMA BarsLess ==
  ASSUME NEW q, NEW K, NEW L, NEW W, Bars(q, K, W), In(q) \cap L \subseteq K
  PROVE  Bars(q, L, W)
BY DEF Bars, In

(* What the daemon says of a shell that is open. *)
Word(m, s) ==
  \/ m.arg1 # s
  \/ m.cmd = "WRTE" /\ \E c \in Slots : PtyOutput(c) /\ Runs(c, s) /\ m.data = pty[c].out
  \/ m.cmd = "OKAY" /\ host[s].state # "opening"
  \/ m.cmd = "CLSE" /\ NoChannel(s)'
  \/ m.cmd = "CLSE" /\ m \notin Closing(s)

LEMMA ChannelsGo ==
  ASSUME Base, [Next]_vars, ~RecvOpen, NEW s
  PROVE  NoChannel(s) => NoChannel(s)'
BY KeepsChannels DEF Base, SameChannels, NoChannel, Runs

LEMMA DeviceWords ==
  ASSUME Base, Transport, ~RecvOpen, toHost' # toHost, NEW s \in Shells
  PROVE  \E m \in FromDevice : /\ toHost' = Append(toHost, m) /\ In(toHost') = In(toHost) \cup {m}
                               /\ Word(m, s)
<1>0. s \in Streams /\ TypeInv /\ PlaceInv /\ [Next]_vars
  BY DEF Streams, Base, Next
<1>1. PICK m \in FromDevice : Sends(m)
  BY DaemonSends DEF Base
<1>2. \A k, i, t, d : /\ Msg(k, i, t, d).cmd = k /\ Msg(k, i, t, d).arg1 = t
                      /\ Msg(k, i, t, d).arg0 = i /\ Msg(k, i, t, d).data = d
  BY DEF Msg
<1>3. ASSUME NEW c \in Slots, PtyOutput(c), m = Msg("WRTE", chan[c].local, chan[c].remote, pty[c].out)
      PROVE  Word(m, s)
  <2>1. m.cmd = "WRTE" /\ m.arg1 = chan[c].remote /\ m.data = pty[c].out /\ chan[c].open
    BY <1>2, <1>3 DEF PtyOutput
  <2>2. CASE chan[c].remote = s
    BY <1>3, <2>1, <2>2 DEF Word, Runs
  <2>3. CASE chan[c].remote # s
    BY <2>1, <2>3 DEF Word
  <2>. QED BY <2>2, <2>3
<1>4. ASSUME NEW c \in Slots, PtyEnds(c), m = Msg("CLSE", chan[c].local, chan[c].remote, <<>>)
      PROVE  Word(m, s)
  <2>1. CASE chan[c].remote = s
    <3>1. Runs(c, s) /\ ~chan'[c].open
      BY <1>4, <2>1 DEF PtyEnds, Runs, CloseChannels, Closed
    <3>2. NoChannel(s)'
      BY <1>0, <3>1, OneChannel, KeepsChannels DEF NoChannel, Runs, SameChannels
    <3>. QED BY <1>2, <1>4, <3>2 DEF Word
  <2>. QED BY <1>2, <1>4, <2>1 DEF Word
<1>5. ASSUME RecvWrite PROVE Word(m, s)
  <2>. DEFINE n == Head(toDev)
  <2>1. /\ toDev # <<>> /\ n.cmd = "WRTE" /\ n \in In(toDev) /\ n.arg0 \in Streams
        /\ host[n.arg0].state # "opening" /\ chan' = chan
    BY <1>5, HeadOfHost DEF RecvWrite, Recv, Base, HostInv, Meant
  <2>2. ASSUME NEW c \in ChannelOf(n.arg1), m = Msg("OKAY", chan[c].local, chan[c].remote, <<>>)
        PROVE  Word(m, s)
    BY <1>2, <2>1, <2>2, FromItsStream DEF Word, Runs
  <2>3. ASSUME ChannelOf(n.arg1) = {}, m = Msg("CLSE", n.arg1, n.arg0, <<>>) PROVE Word(m, s)
    <3>1. n.arg0 = s => NoChannel(s)'
      BY <2>1, <2>3, FromItsStream DEF NoChannel, Runs
    <3>. QED BY <1>2, <2>3, <3>1 DEF Word
  <2>. QED BY <1>1, <1>3, <1>4, <1>5, <2>2, <2>3 DEF Sends, RecvWrite, PtyOutput, PtyEnds, Recv, ServiceWrite
<1>6. ASSUME pc = "service" PROVE Word(m, s)
  <2>0. serv.remote \in Streams /\ serv.remote # s /\ serv.local \in Nat /\ Paired(serv.local, serv.remote)
    BY <1>0, <1>6, ServiceType DEF Paired
  <2>1. CASE m.arg1 = serv.remote
    <3>1. m.arg1 # s
      BY <2>0, <2>1
    <3>. QED BY <3>1 DEF Word
  <2>2. ASSUME ServiceWrite, m = Msg("CLSE", serv.local, Head(toDev).arg0, <<>>) PROVE Word(m, s)
    <3>. DEFINE n == Head(toDev)
    <3>1. /\ toDev # <<>> /\ n.cmd = "WRTE" /\ n \in In(toDev) /\ n.arg0 \in Streams
          /\ host[n.arg0].state # "opening" /\ host[n.arg0].peer # 0
      BY <2>2, HeadOfHost DEF ServiceWrite, Recv, Base, HostInv, Meant
    <3>2. n.arg0 = s => host[s].peer # serv.local
      <4>1. n.arg0 = s => Paired(host[s].peer, s) /\ host[s].peer \in Nat
        BY <1>0, <3>1, HostType DEF Paired
      <4>. QED BY <1>0, <2>0, <4>1 DEF Base, PairInv
    <3>. QED BY <1>2, <2>2, <3>1, <3>2 DEF Word, Closing
  <2>. QED BY <1>1, <1>6, <2>1, <2>2 DEF Sends, PtyOutput, PtyEnds, RecvWrite, Recv
<1>7. Word(m, s)
  BY <1>1, <1>3, <1>4, <1>5, <1>6 DEF Sends
<1>. QED BY <1>1, <1>7 DEF Sends

(* The OPEN of another stream. *)
LEMMA OpenElsewhere ==
  ASSUME Base, RecvOpen, NEW s \in Shells, Head(toDev).arg0 # s
  PROVE  /\ \A m : m.arg1 = s => (m \in In(toHost') <=> m \in In(toHost))
         /\ \A K, W : Bars(toHost, K, W) /\ (\A m \in W : m.arg1 = s) => Bars(toHost', K, W)
         /\ \A c \in Slots : /\ Runs(c, s)' <=> Runs(c, s)
                             /\ Runs(c, s) => pty'[c] = pty[c] /\ chan'[c] = chan[c]
         /\ UNCHANGED <<link, host, given, made>>
<1>. DEFINE t == Head(toDev).arg0
<1>0. /\ t \in Streams /\ t # s /\ toHost \in Seq(FromDevice) /\ UNCHANGED <<link, host, given, made>>
      /\ OpenRefused(t) \/ OpenServed(t) \/ OpenRuns(t) \/ OpenFails(t)
  BY OpenCases DEF Base, TypeInv
<1>. HIDE DEF t
<1>1. \A k, i, d : Msg(k, i, t, d).arg1 # s
  BY <1>0 DEF Msg
<1>2. /\ Msg("OKAY", nextId, t, <<>>) \in FromDevice /\ Msg("CLSE", nextId, t, <<>>) \in FromDevice
      /\ Msg("WRTE", nextId, t, <<Notice>>) \in FromDevice /\ Msg("CLSE", 0, t, <<>>) \in FromDevice
  BY <1>0, OpenMessages DEF Base
<1>3. \A m : m.arg1 = s => (m \in In(toHost') <=> m \in In(toHost))
  BY <1>0, <1>1 DEF OpenRefused, OpenServed, OpenRuns, OpenFails
<1>4. ASSUME NEW K, NEW W, Bars(toHost, K, W), \A m \in W : m.arg1 = s PROVE Bars(toHost', K, W)
  <2>1. ASSUME NEW q \in Seq(FromDevice), Bars(q, K, W), NEW m \in FromDevice, m.arg1 # s
        PROVE  Append(q, m) \in Seq(FromDevice) /\ Bars(Append(q, m), K, W)
    <3>1. m \notin W
      BY <1>4, <2>1
    <3>. QED BY <2>1, <3>1, InAppend, BarsAppend
  <2>2. CASE OpenFails(t)
    <3>. DEFINE a == Msg("OKAY", nextId, t, <<>>)
                b == Msg("WRTE", nextId, t, <<Notice>>)
                d == Msg("CLSE", nextId, t, <<>>)
    <3>1. /\ a \in FromDevice /\ b \in FromDevice /\ d \in FromDevice
          /\ a.arg1 # s /\ b.arg1 # s /\ d.arg1 # s
          /\ toHost' = Append(Append(Append(toHost, a), b), d)
      BY <1>1, <1>2, <2>2 DEF OpenFails
    <3>. HIDE DEF a, b, d
    <3>2. Append(toHost, a) \in Seq(FromDevice) /\ Bars(Append(toHost, a), K, W)
      BY <1>0, <1>4, <2>1, <3>1
    <3>3. Append(Append(toHost, a), b) \in Seq(FromDevice) /\ Bars(Append(Append(toHost, a), b), K, W)
      BY <2>1, <3>1, <3>2
    <3>. QED BY <2>1, <3>1, <3>3
  <2>3. CASE ~OpenFails(t)
    BY <1>0, <1>1, <1>2, <1>4, <2>1, <2>3 DEF OpenRefused, OpenServed, OpenRuns
  <2>. QED BY <2>2, <2>3
<1>5. \A c \in Slots : /\ Runs(c, s)' <=> Runs(c, s)
                       /\ Runs(c, s) => pty'[c] = pty[c] /\ chan'[c] = chan[c]
  BY <1>0 DEF OpenRefused, OpenServed, OpenRuns, OpenFails, NewChannel, Runs
<1>. QED BY <1>0, <1>3, <1>4, <1>5

(* What becomes of the OPEN of a shell: refused, served by a channel, or failed. *)
LEMMA OpenHere ==
  ASSUME Base, RecvOpen, NEW s \in Shells, s = Head(toDev).arg0
  PROVE  /\ s \in Streams /\ host[s].state = "opening" /\ host[s].got = <<>> /\ host[s].peer = 0
         /\ made[s] = <<>> /\ NoChannel(s) /\ UNCHANGED <<link, host, given, made>>
         /\ \A m \in In(toHost) : m.arg1 # s
         /\ OpenRefused(s) \/ OpenRuns(s) \/ OpenFails(s)
         /\ ~OpenRuns(s) => NoChannel(s)'
<1>1. /\ s \in Streams /\ Untouched(s) /\ UNCHANGED <<link, host, given, made>>
      /\ OpenRefused(s) \/ OpenRuns(s) \/ OpenFails(s)
  BY OpenCases DEF Base, OpenServed
<1>2. host[s].state = "opening"
  <2>1. toDev # <<>> /\ Head(toDev).cmd = "OPEN" /\ Head(toDev) \in In(toDev)
    BY HeadOfHost DEF RecvOpen, Recv, Base
  <2>. QED BY <2>1 DEF Base, HostInv, Meant
<1>3. NoChannel(s)
  BY <1>1, UntouchedWire
<1>4. ~OpenRuns(s) => chan' = chan
  BY <1>1 DEF OpenRefused, OpenFails
<1>5. ~OpenRuns(s) => NoChannel(s)'
  BY <1>3, <1>4 DEF NoChannel, Runs
<1>. QED BY <1>1, <1>2, <1>3, <1>5 DEF Untouched

(* A queue that said nothing of a stream. *)
LEMMA OpenBars ==
  ASSUME Base, RecvOpen, NEW s \in Shells, s = Head(toDev).arg0
  PROVE  \A K, W : /\ \A m \in K \cup W : m.arg1 = s /\ m.cmd \in {"OKAY", "WRTE", "CLSE"}
                   /\ \/ \A m \in K : m.cmd = "CLSE"
                      \/ (\A m \in K : m.cmd = "WRTE") /\ (\A m \in W : m.cmd = "OKAY")
                   => Bars(toHost', K, W)
<1>0. /\ s \in Streams /\ \A m \in In(toHost) : m.arg1 # s
      /\ OpenRefused(s) \/ OpenRuns(s) \/ OpenFails(s)
      /\ toHost \in Seq(FromDevice)
  BY OpenHere DEF Base, TypeInv
<1>. SUFFICES ASSUME NEW K, NEW W, \A m \in K \cup W : m.arg1 = s /\ m.cmd \in {"OKAY", "WRTE", "CLSE"},
                     \/ \A m \in K : m.cmd = "CLSE"
                     \/ (\A m \in K : m.cmd = "WRTE") /\ (\A m \in W : m.cmd = "OKAY")
              PROVE  Bars(toHost', K, W)
  OBVIOUS
<1>. DEFINE a == Msg("OKAY", nextId, s, <<>>)
            b == Msg("WRTE", nextId, s, <<Notice>>)
            d == Msg("CLSE", nextId, s, <<>>)
            e == Msg("CLSE", 0, s, <<>>)
<1>1. /\ a \in FromDevice /\ b \in FromDevice /\ d \in FromDevice /\ e \in FromDevice
      /\ a.cmd = "OKAY" /\ b.cmd = "WRTE" /\ d.cmd = "CLSE"
  <2>1. a.cmd = "OKAY" /\ b.cmd = "WRTE" /\ d.cmd = "CLSE"
    BY DEF Msg
  <2>. QED BY <1>0, <2>1, OpenMessages DEF Base
<1>2. \/ toHost' = Append(toHost, e) \/ toHost' = Append(toHost, a)
      \/ toHost' = Append(Append(Append(toHost, a), b), d)
  BY <1>0 DEF OpenRefused, OpenRuns, OpenFails
<1>. HIDE DEF a, b, d, e
<1>3. In(toHost) \cap K = {} /\ Bars(toHost, K, W)
  BY <1>0 DEF Bars, In
<1>4. ASSUME NEW m \in FromDevice
      PROVE  /\ Append(toHost, m) \in Seq(FromDevice) /\ Bars(Append(toHost, m), K, W)
             /\ In(Append(toHost, m)) = In(toHost) \cup {m}
  BY <1>0, <1>3, InAppend, BarsAppend
<1>5. CASE toHost' = Append(Append(Append(toHost, a), b), d)
  <2>. DEFINE q == Append(toHost, a)
  <2>1. q \in Seq(FromDevice) /\ Bars(q, K, W) /\ In(q) = In(toHost) \cup {a}
    BY <1>1, <1>4
  <2>2. b \in W => In(q) \cap K = {}
    BY <1>1, <1>3, <2>1
  <2>3. d \in W => In(q) \cap K = {} /\ b \notin K
    BY <1>1, <1>3, <2>1
  <2>4. toHost' = Append(Append(q, b), d)
    BY <1>5
  <2>. HIDE DEF q
  <2>5. Append(q, b) \in Seq(FromDevice) /\ Bars(Append(q, b), K, W) /\ In(Append(q, b)) = In(q) \cup {b}
    BY <1>1, <2>1, <2>2, InAppend, BarsAppend
  <2>6. d \in W => In(Append(q, b)) \cap K = {}
    BY <2>3, <2>5
  <2>. QED BY <1>1, <2>4, <2>5, <2>6, BarsAppend
<1>. QED BY <1>1, <1>2, <1>4, <1>5

LEMMA InitEnd == Init => EndInv /\ GreetInv
<1>1. Init => In(toHost) = {} /\ \A K, W : Bars(toHost, K, W)
  BY DEF Init, In, Bars
<1>2. Init => \A s \in Shells : NoChannel(s) /\ host[s].state = "new"
  BY DEF Init, NoChannel, Runs, Closed, Streams
<1>. QED BY <1>1, <1>2 DEF EndInv, Ended, GreetInv, Greeted

LEMMA EndStep == Base /\ EndInv /\ [Next]_vars => EndInv'
<1>. SUFFICES ASSUME Base, EndInv, [Next]_vars, NEW s \in Shells PROVE Ended(s)'
  BY DEF EndInv
<1>. DEFINE W == To("WRTE", s)
            K == Closing(s)
            L == Closing(s)'
<1>0. s \in Streams /\ Ended(s) /\ TypeInv /\ toHost \in Seq(FromDevice)
  BY DEF EndInv, Streams, Base, TypeInv
<1>1. /\ In(toHost) \cap L \subseteq K
      /\ host'[s].state = "ended" => host[s].state = "ended"
              \/ (toHost # <<>> /\ toHost' = Tail(toHost) /\ Head(toHost) \in K)
      /\ \A m \in L : m.cmd = "CLSE" /\ m.arg1 = s
      /\ \A m \in W : m.cmd = "WRTE" /\ m.arg1 = s
  BY <1>0, ClosingShrinks DEF Closing, To
<1>2. Bars(toHost, L, W)
  BY <1>0, <1>1, BarsLess DEF Ended
<1>3. In(toHost) \cap L # {} => NoChannel(s)
  BY <1>0, <1>1 DEF Ended
<1>. HIDE DEF W, K, L
<1>. SUFFICES /\ Bars(toHost', L, W)
              /\ host'[s].state = "ended" \/ In(toHost') \cap L # {} => NoChannel(s)'
  BY DEF Ended, K, L, W, To
<1>4. CASE RecvOpen /\ Head(toDev).arg0 = s
  <2>1. /\ ~OpenRuns(s) => NoChannel(s)'
        /\ \A m \in In(toHost) : m.arg1 # s
    BY <1>4, OpenHere
  <2>2. Bars(toHost', L, W)
    BY <1>1, <1>4, OpenBars
  <2>3. OpenRuns(s) => In(toHost') \cap L = {}
    <3>1. \A m : m = Msg("OKAY", nextId, s, <<>>) => m.cmd = "OKAY"
      BY DEF Msg
    <3>. QED BY <1>1, <2>1, <3>1 DEF OpenRuns
  <2>4. host'[s].state # "ended"
    BY <1>4, OpenHere
  <2>. QED BY <2>1, <2>2, <2>3, <2>4
<1>5. CASE RecvOpen /\ Head(toDev).arg0 # s
  <2>1. Bars(toHost', L, W) /\ In(toHost') \cap L = In(toHost) \cap L
    BY <1>1, <1>2, <1>5, OpenElsewhere
  <2>2. host' = host /\ (NoChannel(s) => NoChannel(s)')
    BY <1>5, OpenElsewhere DEF NoChannel
  <2>. QED BY <1>0, <1>3, <2>1, <2>2 DEF Ended
<1>6. CASE Transport /\ ~RecvOpen /\ toHost' # toHost
  <2>1. PICK m \in FromDevice : /\ toHost' = Append(toHost, m) /\ In(toHost') = In(toHost) \cup {m}
                                /\ Word(m, s)
    BY <1>6, DeviceWords
  <2>2. host' = host /\ (NoChannel(s) => NoChannel(s)')
    BY <1>0, <1>6, DaemonFrame, ChannelsGo
  <2>3. L = K
    BY <2>2 DEF L, K, Closing
  <2>4. m \in W => In(toHost) \cap L = {}
    <3>1. SUFFICES ASSUME m \in W PROVE In(toHost) \cap L = {}
      OBVIOUS
    <3>2. PICK c \in Slots : Runs(c, s)
      BY <1>1, <2>1, <3>1 DEF Word
    <3>. QED BY <1>3, <3>2 DEF NoChannel
  <2>5. m \in L => NoChannel(s)'
    BY <1>1, <2>1, <2>3 DEF Word, K
  <2>6. Bars(toHost', L, W)
    BY <1>0, <1>2, <2>1, <2>4, BarsAppend
  <2>7. host'[s].state = "ended" => NoChannel(s)'
    BY <1>0, <2>2 DEF Ended
  <2>. QED BY <1>3, <2>1, <2>2, <2>5, <2>6, <2>7
<1>7. CASE ~RecvOpen /\ (toHost' = toHost \/ (toHost # <<>> /\ toHost' = Tail(toHost)))
  <2>1. NoChannel(s) => NoChannel(s)'
    BY <1>7, ChannelsGo
  <2>2. Bars(toHost', L, W) /\ In(toHost') \subseteq In(toHost)
    <3>1. CASE toHost # <<>> /\ toHost' = Tail(toHost)
      BY <1>0, <1>2, <3>1, BarsTail, InTail
    <3>. QED BY <1>2, <1>7, <3>1
  <2>3. host'[s].state = "ended" => NoChannel(s)
    <3>1. host[s].state = "ended" \/ In(toHost) \cap K # {} => NoChannel(s)
      BY <1>0 DEF Ended, K
    <3>2. toHost # <<>> => Head(toHost) \in In(toHost)
      BY <1>0, InTail
    <3>. QED BY <1>1, <3>1, <3>2
  <2>. QED BY <1>3, <2>1, <2>2, <2>3
<1>8. CASE HostStep \/ CommandStep \/ UNCHANGED vars
  <2>1. /\ toHost' = toHost \/ (toHost # <<>> /\ toHost' = Tail(toHost))
        /\ pc' = pc /\ nextId' = nextId
    BY <1>8 DEF HostStep, HostRecv, Disconnect, HostOpen, HostWrite, HostClose, CommandStep,
       CommandReads, CommandWrites, CommandExits, net, vars
  <2>2. ~RecvOpen
    BY <1>0, <2>1 DEF RecvOpen, TypeInv
  <2>. QED BY <1>7, <2>1, <2>2
<1>. QED BY <1>4, <1>5, <1>6, <1>7, <1>8, ThreeParts

LEMMA GreetStep == Base /\ GreetInv /\ [Next]_vars => GreetInv'
<1>. SUFFICES ASSUME Base, GreetInv, [Next]_vars, NEW s \in Shells, host'[s].state = "opening"
              PROVE  /\ Bars(toHost', To("WRTE", s), To("OKAY", s))
                     /\ \/ NoChannel(s)' /\ In(toHost') \cap To("WRTE", s) = {}
                        \/ In(toHost') \cap To("OKAY", s) # {}
  BY DEF GreetInv, Greeted, To
<1>. DEFINE W == To("WRTE", s)
            K == To("OKAY", s)
<1>0. s \in Streams /\ Greeted(s) /\ TypeInv /\ toHost \in Seq(FromDevice)
  BY DEF GreetInv, Streams, Base, TypeInv
<1>1. /\ \A m \in W : m.cmd = "WRTE" /\ m.arg1 = s
      /\ \A m \in K : m.cmd = "OKAY" /\ m.arg1 = s
      /\ \A m \in FromDevice : m.cmd = "OKAY" /\ m.arg1 = s => m \in K
  BY DEF To
<1>2. CASE HostOpen(s)
  <2>1. Untouched(s) /\ toHost' = toHost /\ chan' = chan
    BY <1>0, <1>2 DEF HostOpen, Base, HostInv, channels
  <2>2. In(toHost) \cap W = {} /\ NoChannel(s)
    BY <1>0, <2>1, UntouchedWire
  <2>3. Bars(toHost, W, K)
    BY <2>2 DEF Bars, In
  <2>4. NoChannel(s)'
    BY <2>1, <2>2 DEF NoChannel, Runs
  <2>. QED BY <2>1, <2>2, <2>3, <2>4
<1>. SUFFICES ASSUME ~HostOpen(s)
              PROVE  /\ Bars(toHost', W, K)
                     /\ (NoChannel(s)' /\ In(toHost') \cap W = {}) \/ In(toHost') \cap K # {}
  BY <1>2
<1>3. /\ host[s].state = "opening" /\ Bars(toHost, W, K)
      /\ (NoChannel(s) /\ In(toHost) \cap W = {}) \/ In(toHost) \cap K # {}
  BY <1>0, HostMoves DEF Greeted
<1>. HIDE DEF W, K
<1>4. CASE RecvOpen /\ Head(toDev).arg0 = s
  <2>1. /\ ~OpenRuns(s) => NoChannel(s)'
        /\ \A m \in In(toHost) : m.arg1 # s
        /\ OpenRefused(s) \/ OpenRuns(s) \/ OpenFails(s)
    BY <1>4, OpenHere
  <2>2. Bars(toHost', W, K)
    BY <1>1, <1>4, OpenBars
  <2>3. OpenRuns(s) \/ OpenFails(s) => In(toHost') \cap K # {}
    <3>1. Msg("OKAY", nextId, s, <<>>) \in FromDevice
      BY <1>0, OpenMessages
    <3>2. Msg("OKAY", nextId, s, <<>>) \in K
      BY <1>1, <3>1 DEF Msg
    <3>. QED BY <3>2 DEF OpenRuns, OpenFails
  <2>4. OpenRefused(s) => In(toHost') \cap W = {} 
    <3>1. \A m : m = Msg("CLSE", 0, s, <<>>) => m.cmd = "CLSE"
      BY DEF Msg
    <3>. QED BY <1>1, <2>1, <3>1 DEF OpenRefused
  <2>5. OpenRefused(s) => ~OpenRuns(s) \/ In(toHost') \cap K # {}
    BY <2>3
  <2>. QED BY <2>1, <2>2, <2>3, <2>4, <2>5
<1>5. CASE RecvOpen /\ Head(toDev).arg0 # s
  <2>1. /\ Bars(toHost', W, K) /\ In(toHost') \cap W = In(toHost) \cap W
        /\ In(toHost') \cap K = In(toHost) \cap K
    BY <1>1, <1>3, <1>5, OpenElsewhere
  <2>2. NoChannel(s) => NoChannel(s)'
    BY <1>5, OpenElsewhere DEF NoChannel
  <2>. QED BY <1>3, <2>1, <2>2
<1>6. CASE Transport /\ ~RecvOpen /\ toHost' # toHost
  <2>1. PICK m \in FromDevice : /\ toHost' = Append(toHost, m) /\ In(toHost') = In(toHost) \cup {m}
                                /\ Word(m, s)
    BY <1>6, DeviceWords
  <2>2. NoChannel(s) => NoChannel(s)'
    BY <1>6, ChannelsGo
  <2>3. m \notin K
    BY <1>1, <1>3, <2>1 DEF Word
  <2>4. Bars(toHost', W, K)
    BY <1>0, <1>3, <2>1, <2>3, BarsAppend
  <2>5. NoChannel(s) => m \notin W
    BY <1>1, <2>1 DEF Word, NoChannel
  <2>. QED BY <1>3, <2>1, <2>2, <2>4, <2>5
<1>7. CASE ~RecvOpen /\ toHost' = toHost
  BY <1>3, <1>7, ChannelsGo
<1>8. CASE HostRecv
  <2>. DEFINE m == Head(toHost)
  <2>1. /\ ~RecvOpen /\ toHost # <<>> /\ toHost' = Tail(toHost) /\ In(toHost) = In(toHost') \cup {m}
        /\ m \in FromDevice
    <3>1. UNCHANGED daemonVars
      BY <1>0, <1>8, HostHears
    <3>. QED BY <1>0, <1>8, <3>1, HostHears, NotOpen
  <2>2. Bars(toHost', W, K) /\ (m \in W => In(toHost') \cap K = {})
    BY <1>0, <1>3, <2>1, BarsTail
  <2>3. m \notin K
    <3>1. SUFFICES ASSUME m \in K PROVE FALSE
      OBVIOUS
    <3>2. m.cmd = "OKAY" /\ m.arg1 = s
      BY <1>1, <3>1
    <3>3. \/ HearsFirst(m, s) \/ HearsOkay(m, s) \/ HearsWrite(m, s) \/ HearsClose(m, s)
          \/ HearsNothing(m, s)
      BY <1>0, <1>8, <3>2, HostHears
    <3>. QED BY <1>3, <3>2, <3>3 DEF HearsFirst, HearsOkay, HearsWrite, HearsClose, HearsNothing
  <2>4. NoChannel(s) => NoChannel(s)'
    BY <2>1, ChannelsGo
  <2>. QED BY <1>3, <2>1, <2>2, <2>3, <2>4
<1>9. CASE HostStep \/ CommandStep \/ UNCHANGED vars
  <2>1. HostRecv \/ (toHost' = toHost /\ pc' = pc /\ nextId' = nextId)
    BY <1>9 DEF HostStep, Disconnect, HostOpen, HostWrite, HostClose, CommandStep,
       CommandReads, CommandWrites, CommandExits, net, vars
  <2>2. nextId' = nextId => ~RecvOpen
    BY <1>0 DEF RecvOpen, TypeInv
  <2>. QED BY <1>7, <1>8, <2>1, <2>2
<1>. QED BY <1>4, <1>5, <1>6, <1>7, <1>8, <1>9, ThreeParts

-------------------------------------------------------------------------------
(* The output of a command. *)
PartsOf(s) ==
  /\ \A m \in In(toHost) \cap To("WRTE", s) : Flying(s) = {m.data}
  /\ In(toHost) \cap To("WRTE", s) = {} => Flying(s) = {<<>>}
  /\ \A c \in Slots : Runs(c, s) => Buffered(s) = {pty[c].out} /\ ~NoChannel(s)
  /\ NoChannel(s) => Buffered(s) = {<<>>}
  /\ Flying(s) # {} /\ Flying(s) \subseteq Seq(Datum)
  /\ Buffered(s) # {} /\ Buffered(s) \subseteq Seq(Datum)
  /\ host[s].got \in Seq(Datum) /\ made[s] \in Seq(Datum)

LEMMA Parts == Base /\ FlowInv => \A s \in Shells : PartsOf(s)
<1>. SUFFICES ASSUME Base, FlowInv, NEW s \in Shells PROVE PartsOf(s)
  OBVIOUS
<1>0. /\ s \in Streams /\ AtMostOne(toHost, To("WRTE", s)) /\ In(toHost) \subseteq FromDevice
  BY InType DEF FlowInv, Flow, Streams, Base, TypeInv
<1>1. ASSUME NEW m \in In(toHost) \cap To("WRTE", s) PROVE Flying(s) = {m.data} /\ m.data \in Seq(Datum)
  <2>1. In(toHost) \cap To("WRTE", s) = {m}
    BY <1>0, <1>1 DEF AtMostOne, In
  <2>. QED BY <1>0, <1>1, <2>1 DEF Flying, FromDevice
<1>2. ASSUME NEW c \in Slots, Runs(c, s)
      PROVE  Buffered(s) = {pty[c].out} /\ ~NoChannel(s) /\ pty[c].out \in Seq(Datum)
  <2>1. {d \in Slots : Runs(d, s)} = {c}
    BY <1>0, <1>2, OneChannel
  <2>2. ~NoChannel(s)
    BY <1>2 DEF NoChannel
  <2>3. pty[c].out \in Seq(Datum)
    BY TerminalType DEF Base
  <2>. QED BY <2>1, <2>2, <2>3 DEF Buffered
<1>3. <<>> \in Seq(Datum)
  OBVIOUS
<1>4. In(toHost) \cap To("WRTE", s) = {} => Flying(s) = {<<>>}
  BY DEF Flying
<1>5. NoChannel(s) => Buffered(s) = {<<>>}
  BY DEF Buffered
<1>6. host[s].got \in Seq(Datum) /\ made[s] \in Seq(Datum)
  BY <1>0, HostType DEF Base, TypeInv
<1>. QED BY <1>1, <1>2, <1>3, <1>4, <1>5, <1>6 DEF NoChannel, PartsOf

LEMMA PartsNext == Base' /\ FlowInv' => (\A s \in Shells : PartsOf(s))'
BY Parts, PTL

(* A close of the host concerns a stream that it has done with. *)
LEMMA CloseIsMeant ==
  ASSUME Base, RecvClose, NEW s \in Streams, Busy(s), NEW c \in Slots, Runs(c, s)
  PROVE  c \notin ChannelOf(Head(toDev).arg1)
<1>. DEFINE m == Head(toDev)
<1>1. m \in In(toDev) /\ m.cmd = "CLSE"
  BY HeadOfHost DEF RecvClose, Recv, Base
<1>2. PICK t \in Streams : host[t].peer = m.arg1 /\ host[t].state \in {"closed", "ended"} /\ m.arg1 # 0
  BY <1>1 DEF Base, HostInv, Meant
<1>3. Paired(m.arg1, t) /\ t # s /\ host[t].peer \in Nat
  BY <1>2, HostType DEF Paired, Busy, Base
<1>4. Paired(chan[c].local, s) /\ chan[c].local \in Nat
  BY ChannelType DEF Paired, Runs, Base
<1>5. chan[c].local # m.arg1
  BY <1>2, <1>3, <1>4 DEF Base, PairInv
<1>. QED BY <1>5 DEF ChannelOf

LEMMA ChannelStays ==
  ASSUME Base, [Next]_vars, ~RecvOpen, ~TransportEnds, NEW s \in Shells, Busy(s), NEW c \in Slots, Runs(c, s),
         ~PtyOutput(c), ~PtyEnds(c), ~CommandWrites(c)
  PROVE  Runs(c, s)' /\ pty'[c].out = pty[c].out
<1>0. /\ s \in Streams /\ chan \in [Slots -> Channel] /\ pty \in [Slots -> Terminal]
      /\ chan[c] \in Channel /\ pty[c] \in Terminal
  BY DEF Streams, Base, TypeInv
<1>1. CASE UNCHANGED <<chan, pty>>
  BY <1>1 DEF Runs
<1>2. ASSUME NEW cs, CloseChannels(cs), c \notin cs PROVE Runs(c, s)' /\ pty'[c].out = pty[c].out
  BY <1>2 DEF CloseChannels, Runs
<1>3. CASE RecvClose
  <2>1. c \notin ChannelOf(Head(toDev).arg1)
    BY <1>0, <1>3, CloseIsMeant
  <2>. QED BY <1>2, <1>3, <2>1 DEF RecvClose
<1>4. ASSUME NEW d \in Slots, PtyOutput(d) \/ PtyEnds(d) \/ CommandWrites(d)
      PROVE  Runs(c, s)' /\ pty'[c].out = pty[c].out
  <2>1. d # c
    BY <1>4
  <2>. QED BY <1>0, <1>2, <1>4, <2>1 DEF PtyOutput, PtyEnds, CommandWrites, Runs
<1>5. CASE RecvOkay
  <2>1. pty' = pty /\ chan'[c].open = chan[c].open /\ chan'[c].remote = chan[c].remote
    BY <1>0, <1>5 DEF RecvOkay, Channel
  <2>. QED BY <2>1 DEF Runs
<1>6. CASE WriteFull
  <2>1. chan' = chan
    BY <1>6 DEF WriteFull
  <2>2. pty' = pty \/ \E d \in Slots, i \in Seq(Datum) : pty' = [pty EXCEPT ![d].in = i]
    <3>1. CASE pty' # pty
      <4>1. pending.slot \in Slots
        BY <1>6 DEF WriteFull, Base, TypeInv, PlaceInv
      <4>2. pty[pending.slot].in \o pending.data \in Seq(Datum)
        BY <4>1, TerminalType DEF Base, TypeInv
      <4>. QED BY <1>6, <3>1, <4>1, <4>2 DEF WriteFull
    <3>. QED BY <3>1
  <2>3. pty'[c].out = pty[c].out
    <3>1. ASSUME NEW d \in Slots, NEW i \in Seq(Datum), pty' = [pty EXCEPT ![d].in = i]
          PROVE  pty'[c].out = pty[c].out
      <4>1. pty'[c] = pty[c] \/ pty'[c] = [pty[c] EXCEPT !.in = i]
        BY <1>0, <3>1
      <4>. QED BY <1>0, <4>1 DEF Terminal
    <3>. QED BY <2>2, <3>1
  <2>. QED BY <2>1, <2>3 DEF Runs
<1>7. ASSUME NEW d \in Slots, CommandReads(d) \/ CommandExits(d)
      PROVE  Runs(c, s)' /\ pty'[c].out = pty[c].out
  <2>1. chan' = chan
    BY <1>7 DEF CommandReads, CommandExits
  <2>2. pty'[c].out = pty[c].out
    <3>1. pty[d] \in Terminal
      BY <1>0
    <3>2. CASE CommandReads(d)
      BY <1>0, <3>1, <3>2 DEF CommandReads, Terminal
    <3>3. CASE CommandExits(d)
      BY <1>0, <3>1, <3>3 DEF CommandExits, Terminal
    <3>. QED BY <1>7, <3>2, <3>3
  <2>. QED BY <2>1, <2>2 DEF Runs
<1>. QED BY <1>1, <1>3, <1>4, <1>5, <1>6, <1>7 DEF Next, Transport, RecvWrite,
       ServiceWrite, ServiceOkay, ServiceClose, ServiceDrops, ServiceSend, Replied, SyncItem, ServiceEnds,
       HostRecv, Disconnect, HostOpen, HostWrite, HostClose, vars, channels

LEMMA MadeStays ==
  ASSUME Base, [Next]_vars, NEW s \in Shells
  PROVE  \/ made'[s] = made[s]
         \/ \E c \in Slots : /\ CommandWrites(c) /\ Runs(c, s) /\ pty[c].held \in Seq(Datum)
                             /\ made'[s] = made[s] \o pty[c].held
<1>0. made \in [Shells -> Seq(Datum)]
  BY DEF Base, TypeInv
<1>1. ASSUME NEW c \in Slots, CommandWrites(c)
      PROVE  \/ made'[s] = made[s]
             \/ Runs(c, s) /\ pty[c].held \in Seq(Datum) /\ made'[s] = made[s] \o pty[c].held
  BY <1>0, <1>1, TerminalType DEF CommandWrites, Runs, Base, PlaceInv
<1>2. CASE Transport \/ HostStep \/ UNCHANGED vars
  BY <1>2, DaemonFrame DEF HostStep, HostRecv, Disconnect, HostOpen, HostWrite, HostClose, history, vars, Base
<1>3. ASSUME NEW c \in Slots, CommandReads(c) \/ CommandExits(c) PROVE made'[s] = made[s]
  BY <1>3 DEF CommandReads, CommandExits, history
<1>. QED BY <1>1, <1>2, <1>3, ThreeParts DEF CommandStep

LEMMA GotStays ==
  ASSUME Base, [Next]_vars, NEW s \in Shells
  PROVE  \/ host'[s].got = host[s].got
         \/ /\ HostRecv /\ link /\ link' = link /\ toHost # <<>> /\ toHost' = Tail(toHost)
            /\ Head(toHost) \in To("WRTE", s) /\ host[s].state = "open" /\ host'[s].state = "open"
            /\ host'[s].got = host[s].got \o Head(toHost).data
<1>0. host[s] \in HostState /\ s \in Streams
  BY HostType DEF Base, Streams
<1>1. CASE HostRecv /\ Head(toHost).arg1 = s
  <2>1. PICK m \in FromDevice, t \in Streams :
          /\ m = Head(toHost) /\ t = m.arg1 /\ toHost # <<>> /\ link /\ link' = link /\ toHost' = Tail(toHost)
          /\ \/ HearsFirst(m, t) \/ HearsOkay(m, t) \/ HearsWrite(m, t) \/ HearsClose(m, t)
             \/ HearsNothing(m, t)
    BY <1>1, HostHears DEF Base
  <2>2. CASE HearsWrite(m, s)
    BY <1>1, <2>1, <2>2 DEF HearsWrite, Known, To
  <2>3. CASE ~HearsWrite(m, s)
    BY <1>1, <2>1, <2>3 DEF HearsFirst, HearsOkay, HearsClose, HearsNothing
  <2>. QED BY <2>2, <2>3
<1>2. CASE HostOpen(s)
  <2>1. host'[s] = [host[s] EXCEPT !.state = "opening"]
    BY <1>0, <1>2 DEF HostOpen, Base, TypeInv
  <2>. QED BY <1>0, <2>1 DEF HostState
<1>3. CASE HostWrite(s)
  BY <1>0, <1>3, HostActs DEF Writes, Base
<1>4. CASE HostClose(s)
  <2>1. host'[s] = [host[s] EXCEPT !.state = "closed"]
    BY <1>0, <1>4 DEF HostClose, Base, TypeInv
  <2>. QED BY <1>0, <2>1 DEF HostState
<1>. QED BY <1>0, <1>1, <1>2, <1>3, <1>4, HostStays

LEMMA WiresStay ==
  ASSUME Base, [Next]_vars, NEW s \in Shells, RecvOpen => Head(toDev).arg0 # s,
         \A c \in Slots : PtyOutput(c) => ~Runs(c, s),
         HostRecv => Head(toHost) \notin To("WRTE", s)
  PROVE  In(toHost') \cap To("WRTE", s) = In(toHost) \cap To("WRTE", s)
<1>0. toHost \in Seq(FromDevice) /\ \A m \in To("WRTE", s) : m.cmd = "WRTE" /\ m.arg1 = s
  BY DEF Base, TypeInv, To
<1>1. CASE RecvOpen
  BY <1>0, <1>1, OpenElsewhere
<1>2. CASE Transport /\ ~RecvOpen /\ toHost' # toHost
  <2>1. PICK m : In(toHost') = In(toHost) \cup {m} /\ Word(m, s)
    BY <1>2, DeviceWords
  <2>2. m \notin To("WRTE", s)
    BY <1>0, <2>1 DEF Word
  <2>. QED BY <2>1, <2>2
<1>3. CASE HostRecv
  BY <1>0, <1>3, HeadOfDaemon DEF HostRecv, Base
<1>4. CASE toHost' = toHost
  BY <1>4
<1>5. CASE HostStep \/ CommandStep \/ UNCHANGED vars
  BY <1>3, <1>4, <1>5 DEF HostStep, Disconnect, HostOpen, HostWrite, HostClose, CommandStep,
     CommandReads, CommandWrites, CommandExits, net, vars
<1>. QED BY <1>1, <1>2, <1>4, <1>5, ThreeParts

LEMMA InitOutput == Init => OutputInv
BY DEF Init, OutputInv, Output, Busy, Streams

LEMMA OutputOpen ==
  ASSUME Base, FlowInv, FlowInv', RecvOpen, NEW s \in Shells, s = Head(toDev).arg0
  PROVE  Output(s)'
<1>0. /\ host'[s].got = <<>> /\ made'[s] = <<>> /\ NoChannel(s) /\ s \in Streams
      /\ \A m \in In(toHost) : m.arg1 # s
      /\ OpenRefused(s) \/ OpenRuns(s) \/ OpenFails(s)
      /\ ~OpenRuns(s) => NoChannel(s)'
  BY OpenHere
<1>1. Base'
  BY BaseStep DEF Next, Transport
<1>2. /\ Msg("WRTE", nextId, s, <<Notice>>) \in FromDevice
      /\ Msg("WRTE", nextId, s, <<Notice>>).cmd = "WRTE" /\ Msg("WRTE", nextId, s, <<Notice>>).arg1 = s
      /\ Msg("WRTE", nextId, s, <<Notice>>).data = <<Notice>>
  BY <1>0, OpenMessages DEF Base, Msg
<1>3. \A i, d : Msg("OKAY", i, s, d).cmd # "WRTE" /\ Msg("CLSE", i, s, d).cmd # "WRTE"
  BY DEF Msg
<1>4. /\ \A m \in In(toHost') \cap To("WRTE", s) : Flying(s)' = {m.data}
      /\ In(toHost') \cap To("WRTE", s) = {} => Flying(s)' = {<<>>}
      /\ \A c \in Slots : Runs(c, s)' => Buffered(s)' = {pty'[c].out}
      /\ NoChannel(s)' => Buffered(s)' = {<<>>}
  BY <1>1, PartsNext DEF PartsOf
<1>5. <<>> \o <<>> = <<>> /\ <<>> \o <<Notice>> = <<Notice>>
  OBVIOUS
<1>6. CASE OpenFails(s)
  <2>1. Flying(s)' = {<<Notice>>}
    BY <1>2, <1>4, <1>6 DEF OpenFails, To
  <2>2. NoChannel(s)'
    BY <1>0, <1>6 DEF OpenFails, OpenRuns
  <2>. QED BY <1>0, <1>5, <2>1, <2>2 DEF Output
<1>7. CASE OpenRefused(s) \/ OpenRuns(s)
  <2>1. Flying(s)' = {<<>>}
    BY <1>0, <1>3, <1>4, <1>7 DEF OpenRefused, OpenRuns, To
  <2>2. Buffered(s)' = {<<>>}
    <3>1. CASE NoChannel(s)'
      BY <1>4, <3>1
    <3>2. ASSUME NEW c \in Slots, Runs(c, s)' PROVE pty'[c].out = <<>>
      BY <1>0, <1>7, <3>2 DEF OpenRefused, OpenRuns, NoChannel, Runs
    <3>. QED BY <1>4, <3>1, <3>2 DEF NoChannel
  <2>. QED BY <1>0, <1>5, <2>1, <2>2 DEF Output
<1>. QED BY <1>0, <1>6, <1>7

LEMMA LinkGoes == ASSUME [Next]_vars, link' PROVE link
BY DEF Next, Transport, RecvOpen, RecvOkay, RecvWrite, WriteFull, RecvClose, TransportEnds, PtyOutput, PtyEnds,
   ServiceWrite, ServiceOkay, ServiceClose, ServiceDrops, ServiceSend, Replied, SyncItem, ServiceEnds,
   HostRecv, Disconnect, HostOpen, HostWrite, HostClose, CommandReads, CommandWrites, CommandExits, vars

LEMMA OutputStep ==
  Base /\ FlowInv /\ FlowInv' /\ GreetInv /\ OutputInv /\ [Next]_vars => OutputInv'
<1>. SUFFICES ASSUME Base, FlowInv, FlowInv', GreetInv, OutputInv, [Next]_vars, NEW s \in Shells,
                     link', Busy(s)'
              PROVE  \A f \in Flying(s)' : \A o \in Buffered(s)' :
                       \/ (host'[s].got \o f) \o o = made'[s]
                       \/ NoChannel(s)' /\ made'[s] = <<>> /\ host'[s].got \o f = <<Notice>>
  BY DEF OutputInv, Output
<1>. DEFINE W == To("WRTE", s)
<1>0. /\ s \in Streams /\ link /\ TypeInv /\ Base' /\ toHost \in Seq(FromDevice) /\ Flow(s) /\ Greeted(s)
      /\ PartsOf(s) /\ PartsOf(s)'
  BY LinkGoes, BaseStep, Parts, PartsNext DEF Streams, Base, TypeInv, FlowInv, GreetInv
<1>1. CASE HostOpen(s)
  <2>1. Untouched(s) /\ toHost' = toHost /\ chan' = chan /\ made' = made
    BY <1>0, <1>1 DEF HostOpen, Base, HostInv, channels, history
  <2>2. In(toHost) \cap W = {} /\ NoChannel(s) /\ host[s].got = <<>> /\ made[s] = <<>>
    BY <1>0, <2>1, UntouchedWire DEF Untouched
  <2>3. NoChannel(s)' /\ In(toHost') \cap W = {}
    BY <2>1, <2>2 DEF NoChannel, Runs
  <2>4. host'[s].got = <<>>
    BY <1>0, <1>1, <2>2 DEF HostOpen, TypeInv, HostState
  <2>5. Flying(s)' = {<<>>} /\ Buffered(s)' = {<<>>}
    BY <1>0, <2>3 DEF PartsOf
  <2>6. (<<>> \o <<>>) \o <<>> = <<>>
    OBVIOUS
  <2>. QED BY <2>1, <2>2, <2>4, <2>5, <2>6
<1>2. CASE ~HostOpen(s)
  <2>0. Busy(s) /\ ~TransportEnds
    <3>1. host'[s].state \in {"opening", "open"}
      BY DEF Busy
    <3>. QED BY <1>0, <1>2, <3>1, HostMoves DEF Busy, TransportEnds
  <2>1. \A f \in Flying(s), o \in Buffered(s) :
          \/ (host[s].got \o f) \o o = made[s]
          \/ NoChannel(s) /\ made[s] = <<>> /\ host[s].got \o f = <<Notice>>
    BY <1>0, <2>0 DEF OutputInv, Output
  <2>2. CASE RecvOpen /\ Head(toDev).arg0 = s
    BY <2>2, OutputOpen DEF Output
  <2>3. ASSUME NEW c \in Slots, Runs(c, s), PtyOutput(c) \/ PtyEnds(c)
        PROVE  \A f \in Flying(s)' : \A o \in Buffered(s)' : (host'[s].got \o f) \o o = made'[s]
    <3>0. /\ chan[c].canSend /\ host' = host /\ made' = made /\ ~RecvOpen
          /\ chan[c] \in Channel /\ pty[c] \in Terminal
          /\ chan \in [Slots -> Channel] /\ pty \in [Slots -> Terminal]
      BY <1>0, <2>3 DEF PtyOutput, PtyEnds, history, RecvOpen, TypeInv
    <3>1. In(toHost) \cap W = {}
      BY <1>0, <2>3, <3>0 DEF Flow
    <3>2. /\ (host[s].got \o <<>>) \o pty[c].out = made[s] /\ ~NoChannel(s)
          /\ host[s].got \in Seq(Datum) /\ pty[c].out \in Seq(Datum)
      BY <1>0, <2>1, <2>3, <3>1, TerminalType DEF PartsOf
    <3>3. CASE PtyOutput(c)
      <4>. DEFINE m == Msg("WRTE", chan[c].local, chan[c].remote, pty[c].out)
      <4>1. m \in FromDevice /\ m \in W /\ m.data = pty[c].out /\ In(toHost') = In(toHost) \cup {m}
        <5>1. m \in FromDevice
          BY <1>0, <2>3, ChannelType, TerminalType, Messages DEF Runs, Base
        <5>. QED BY <1>0, <2>3, <3>3, <5>1, Sending DEF PtyOutput, Send, To, Msg, Runs
      <4>2. Runs(c, s)' /\ pty'[c].out = <<>>
        BY <2>3, <3>0, <3>3 DEF PtyOutput, Runs, Channel, Terminal
      <4>3. Flying(s)' = {pty[c].out} /\ Buffered(s)' = {<<>>}
        BY <1>0, <4>1, <4>2 DEF PartsOf
      <4>4. (host[s].got \o pty[c].out) \o <<>> = (host[s].got \o <<>>) \o pty[c].out
        BY <3>2
      <4>. QED BY <3>0, <3>2, <4>3, <4>4
    <3>4. CASE PtyEnds(c)
      <4>1. In(toHost') \cap W = {}
        <5>1. \A d \in Slots : ~PtyOutput(d)
          BY <3>4, <1>0 DEF PtyOutput, PtyEnds, CloseChannels, Closed, Send, Msg, TypeInv
        <5>2. ~HostRecv
          <6>1. chan'[c].open = FALSE /\ chan[c].open
            BY <3>4 DEF PtyEnds, CloseChannels, Closed
          <6>2. HostRecv => chan' = chan
            BY DEF HostRecv, channels
          <6>. QED BY <6>1, <6>2
        <5>. QED BY <3>0, <3>1, <5>1, <5>2, WiresStay
      <4>2. NoChannel(s)'
        <5>1. ~chan'[c].open
          BY <3>4 DEF PtyEnds, CloseChannels, Closed
        <5>. QED BY <1>0, <2>3, <3>0, <5>1, OneChannel, KeepsChannels DEF NoChannel, Runs, SameChannels, Base
      <4>3. Flying(s)' = {<<>>} /\ Buffered(s)' = {<<>>} /\ pty[c].out = <<>>
        BY <1>0, <3>4, <4>1, <4>2 DEF PartsOf, PtyEnds
      <4>. QED BY <3>0, <3>2, <4>3
    <3>. QED BY <2>3, <3>3, <3>4
  <2>4. ASSUME NEW c \in Slots, Runs(c, s), CommandWrites(c)
        PROVE  \A f \in Flying(s)' : \A o \in Buffered(s)' : (host'[s].got \o f) \o o = made'[s]
    <3>0. /\ host' = host /\ chan' = chan /\ toHost' = toHost
          /\ pty[c] \in Terminal /\ pty \in [Slots -> Terminal] /\ made \in [Shells -> Seq(Datum)]
          /\ pty[c].out \in Seq(Datum) /\ pty[c].held \in Seq(Datum)
      BY <1>0, <2>4, TerminalType DEF CommandWrites, TypeInv, net
    <3>1. Runs(c, s)' /\ pty'[c].out = pty[c].out \o pty[c].held /\ made'[s] = made[s] \o pty[c].held
      BY <2>4, <3>0 DEF CommandWrites, Runs, Terminal
    <3>2. Flying(s)' = Flying(s) /\ Buffered(s)' = {pty[c].out \o pty[c].held} /\ Buffered(s) = {pty[c].out}
          /\ ~NoChannel(s)
      BY <1>0, <2>4, <3>0, <3>1 DEF PartsOf, Flying
    <3>3. ASSUME NEW f \in Flying(s)
          PROVE  (host[s].got \o f) \o (pty[c].out \o pty[c].held) = made[s] \o pty[c].held
      <4>1. (host[s].got \o f) \o pty[c].out = made[s]
        BY <2>1, <3>2, <3>3
      <4>2. host[s].got \o f \in Seq(Datum)
        BY <1>0, <3>3 DEF PartsOf
      <4>. DEFINE x == host[s].got \o f
      <4>4. x \in Seq(Datum) /\ x \o pty[c].out = made[s]
        BY <4>1, <4>2
      <4>. HIDE DEF x
      <4>5. (x \o pty[c].out) \o pty[c].held = x \o (pty[c].out \o pty[c].held)
        BY <3>0, <4>4, DataAssociates
      <4>6. x \o (pty[c].out \o pty[c].held) = made[s] \o pty[c].held
        BY <4>4, <4>5
      <4>. QED BY <4>6 DEF x
    <3>. QED BY <3>0, <3>1, <3>2, <3>3
  <2>5. CASE HostRecv /\ Head(toHost) \in W
    <3>. DEFINE m == Head(toHost)
    <3>0. /\ m.cmd = "WRTE" /\ m.arg1 = s /\ ~RecvOpen /\ UNCHANGED <<chan, pty, made>>
          /\ toHost # <<>> /\ toHost' = Tail(toHost) /\ In(toHost) = In(toHost') \cup {m}
          /\ \/ HearsFirst(m, s) \/ HearsOkay(m, s) \/ HearsWrite(m, s) \/ HearsClose(m, s)
             \/ HearsNothing(m, s)
      <4>1. m.cmd = "WRTE" /\ m.arg1 = s
        BY <2>5 DEF To
      <4>2. UNCHANGED daemonVars
        BY <1>0, <2>5, HostHears
      <4>. QED BY <1>0, <2>5, <4>1, <4>2, HostHears, NotOpen DEF daemonVars
    <3>1. m \in In(toHost) \cap W /\ In(toHost') \cap W = {}
      BY <1>0, <2>5, <3>0, OneTail DEF Flow
    <3>2. host[s].state = "open"
      <4>1. SUFFICES ASSUME host[s].state = "opening" PROVE FALSE
        BY <2>0 DEF Busy
      <4>2. In(toHost') \cap To("OKAY", s) = {}
        BY <1>0, <2>5, <3>0, <4>1, BarsTail DEF Greeted
      <4>3. m \notin To("OKAY", s)
        BY <3>0 DEF To
      <4>. QED BY <1>0, <3>0, <3>1, <4>1, <4>2, <4>3 DEF Greeted
    <3>3. Known(m, s)
      <4>1. Paired(m.arg0, s) /\ Paired(host[s].peer, s)
        BY <1>0, <3>0, <3>1, <3>2 DEF Paired, Base, HostInv
      <4>2. m.arg0 \in Nat /\ host[s].peer \in Nat
        BY <1>0, <3>0, HeadOfDaemon, HostType
      <4>. QED BY <1>0, <3>2, <4>1, <4>2 DEF Base, PairInv, Known
    <3>4. host'[s].got = host[s].got \o m.data
      BY <3>0, <3>3 DEF HearsFirst, HearsOkay, HearsWrite, HearsClose, HearsNothing
    <3>5. Flying(s) = {m.data} /\ Flying(s)' = {<<>>} /\ m.data \in Seq(Datum) /\ host[s].got \in Seq(Datum)
      BY <1>0, <3>1 DEF PartsOf
    <3>6. Buffered(s)' = Buffered(s) /\ NoChannel(s)' = NoChannel(s)
      BY <3>0 DEF Buffered, NoChannel, Runs
    <3>7. (host[s].got \o m.data) \o <<>> = host[s].got \o m.data
      BY <3>5
    <3>8. host'[s].got \o <<>> = host[s].got \o m.data
      BY <3>4, <3>7
    <3>9. \A o \in Buffered(s) : (host[s].got \o m.data) \o o = made[s]
                                \/ (NoChannel(s) /\ made[s] = <<>> /\ host[s].got \o m.data = <<Notice>>)
      BY <2>1, <3>5
    <3>. QED BY <3>0, <3>5, <3>6, <3>8, <3>9
  <2>6. CASE /\ RecvOpen => Head(toDev).arg0 # s
             /\ \A c \in Slots : Runs(c, s) => ~PtyOutput(c) /\ ~PtyEnds(c) /\ ~CommandWrites(c)
             /\ HostRecv => Head(toHost) \notin W
    <3>1. In(toHost') \cap W = In(toHost) \cap W
      BY <2>6, WiresStay
    <3>2. Flying(s)' = Flying(s)
      BY <3>1 DEF Flying
    <3>3. host'[s].got = host[s].got /\ made'[s] = made[s]
      BY <2>6, GotStays, MadeStays
    <3>4. \A c \in Slots : Runs(c, s) => Runs(c, s)' /\ pty'[c].out = pty[c].out
      <4>1. CASE RecvOpen
        BY <2>6, <4>1, OpenElsewhere
      <4>2. CASE ~RecvOpen
        BY <2>0, <2>6, <4>2, ChannelStays
      <4>. QED BY <4>1, <4>2
    <3>5. NoChannel(s) => NoChannel(s)'
      <4>1. CASE RecvOpen
        BY <2>6, <4>1, OpenElsewhere DEF NoChannel
      <4>2. CASE ~RecvOpen
        BY <4>2, ChannelsGo
      <4>. QED BY <4>1, <4>2
    <3>6. Buffered(s)' = Buffered(s)
      <4>1. CASE NoChannel(s)
        BY <1>0, <3>5, <4>1 DEF PartsOf
      <4>2. ASSUME NEW c \in Slots, Runs(c, s) PROVE Buffered(s)' = Buffered(s)
        BY <1>0, <3>4, <4>2 DEF PartsOf
      <4>. QED BY <4>1, <4>2 DEF NoChannel
    <3>. QED BY <2>1, <3>2, <3>3, <3>5, <3>6
  <2>. QED BY <2>2, <2>3, <2>4, <2>5, <2>6
<1>. QED BY <1>1, <1>2

-------------------------------------------------------------------------------
(* What the host has got is what the command wrote. *)
Complete(s) ==
  \/ host[s].got = <<Notice>>
  \/ /\ IsPrefixOf(host[s].got, made[s])
     /\ host[s].state = "ended" => host[s].got = made[s]

LEMMA PrefixOfMore ==
  ASSUME NEW S, NEW a \in Seq(S), NEW b \in Seq(S), NEW c \in Seq(S), IsPrefixOf(a, b)
  PROVE  IsPrefixOf(a, b \o c)
BY DEF IsPrefixOf

LEMMA PrefixOfJoined ==
  ASSUME NEW S, NEW a \in Seq(S), NEW b \in Seq(S), NEW c \in Seq(S)
  PROVE  IsPrefixOf(a, (a \o b) \o c)
<1>1. IsPrefixOf(a, a \o b) /\ a \o b \in Seq(S)
  BY DEF IsPrefixOf
<1>. QED BY <1>1, PrefixOfMore

LEMMA NoticePrefix ==
  ASSUME NEW S, NEW a \in Seq(S), NEW b \in Seq(S), NEW x, a \o b = <<x>>
  PROVE  a = <<x>> \/ a = <<>>
<1>1. Len(a) + Len(b) = 1 /\ Len(a) \in Nat /\ Len(b) \in Nat
  <2>1. Len(a \o b) = Len(a) + Len(b) /\ Len(<<x>>) = 1
    OBVIOUS
  <2>. QED BY <2>1
<1>2. CASE Len(a) = 0
  <2>1. a = <<>>
    BY <1>2
  <2>. QED BY <2>1
<1>3. CASE Len(a) = 1
  <2>1. b = <<>> /\ a \o <<>> = a
    BY <1>1, <1>3
  <2>. QED BY <2>1
<1>4. Len(a) = 0 \/ Len(a) = 1
  BY <1>1
<1>. QED BY <1>2, <1>3, <1>4

Wire == Base /\ FlowInv /\ TurnInv /\ InputInv /\ EndInv /\ GreetInv /\ OutputInv

LEMMA WireInit == Init => Wire
BY InitType, InitPlace, InitPair, InitHost, InitFlow, InitInput, InitEnd, InitOutput DEF Wire, Base

LEMMA WireStep == Wire /\ [Next]_vars => Wire'
<1>. SUFFICES ASSUME Wire, [Next]_vars PROVE Wire'
  OBVIOUS
<1>1. Base' /\ FlowInv' /\ TurnInv' /\ InputInv' /\ EndInv' /\ GreetInv'
  BY BaseStep, FlowStep, TurnStep, InputStep, EndStep, GreetStep DEF Wire
<1>. QED BY <1>1, OutputStep DEF Wire

CompleteInv == \A s \in Shells : Complete(s)

LEMMA CompleteStep == Wire /\ CompleteInv /\ [Next]_vars => CompleteInv'
<1>. SUFFICES ASSUME Wire, CompleteInv, [Next]_vars, NEW s \in Shells PROVE Complete(s)'
  BY DEF CompleteInv
<1>0. /\ s \in Streams /\ Base /\ FlowInv /\ Complete(s) /\ Ended(s) /\ Output(s) /\ PartsOf(s) /\ TypeInv
      /\ Wire' /\ Base' /\ FlowInv' /\ Output(s)' /\ PartsOf(s)' /\ toHost \in Seq(FromDevice)
  <2>1. Wire'
    BY WireStep
  <2>. QED BY <2>1, Parts, PartsNext DEF Wire, EndInv, OutputInv, CompleteInv, Streams, Base, TypeInv
<1>1. CASE link' /\ Busy(s)'
  <2>1. PICK f \in Flying(s)', o \in Buffered(s)' :
          \/ (host'[s].got \o f) \o o = made'[s]
          \/ NoChannel(s)' /\ made'[s] = <<>> /\ host'[s].got \o f = <<Notice>>
    BY <1>0, <1>1 DEF Output, PartsOf
  <2>2. host'[s].got \in Seq(Datum) /\ f \in Seq(Datum) /\ o \in Seq(Datum)
    BY <1>0 DEF PartsOf
  <2>3. host'[s].state # "ended"
    BY <1>1 DEF Busy
  <2>4. CASE (host'[s].got \o f) \o o = made'[s]
    BY <2>2, <2>3, <2>4, PrefixOfJoined DEF Complete
  <2>5. CASE made'[s] = <<>> /\ host'[s].got \o f = <<Notice>>
    <3>1. IsPrefixOf(<<>>, <<>>)
      BY DEF IsPrefixOf
    <3>2. host'[s].got = <<Notice>> \/ host'[s].got = <<>>
      BY <2>2, <2>5, NoticePrefix
    <3>. QED BY <2>3, <2>5, <3>1, <3>2 DEF Complete
  <2>. QED BY <2>1, <2>4, <2>5
<1>2. CASE ~(link' /\ Busy(s)')
  <2>1. host'[s].got = host[s].got
    <3>1. link /\ link' = link /\ host'[s].state = "open" => link' /\ Busy(s)'
      BY DEF Busy
    <3>. QED BY <1>0, <1>2, <3>1, GotStays
  <2>2. IsPrefixOf(host[s].got, made[s]) => IsPrefixOf(host[s].got, made'[s])
    <3>1. host[s].got \in Seq(Datum) /\ made[s] \in Seq(Datum)
      BY <1>0 DEF PartsOf
    <3>2. \/ made'[s] = made[s]
          \/ \E c \in Slots : pty[c].held \in Seq(Datum) /\ made'[s] = made[s] \o pty[c].held
      BY <1>0, MadeStays
    <3>. QED BY <3>1, <3>2, PrefixOfMore
  <2>3. NoChannel(s) => made'[s] = made[s]
    BY <1>0, MadeStays DEF NoChannel
  <2>4. CASE host'[s].state = "ended"
    <3>1. CASE host[s].state = "ended"
      BY <1>0, <2>1, <2>2, <2>3, <2>4, <3>1 DEF Complete, Ended
    <3>2. CASE host[s].state # "ended"
      <4>1. /\ Busy(s) /\ link /\ toHost # <<>> /\ toHost' = Tail(toHost) /\ Head(toHost) \in Closing(s)
        BY <1>0, <2>4, <3>2, HostMoves DEF Busy, HostRecv
      <4>2. In(toHost) \cap Closing(s) # {} /\ In(toHost) = In(Tail(toHost)) \cup {Head(toHost)}
        BY <1>0, <4>1, InTail
      <4>3. NoChannel(s)
        BY <1>0, <4>2 DEF Ended
      <4>4. In(Tail(toHost)) \cap To("WRTE", s) = {}
        BY <1>0, <4>1, BarsTail DEF Ended
      <4>5. Head(toHost) \notin To("WRTE", s)
        BY <4>1 DEF Closing, To
      <4>6. Flying(s) = {<<>>} /\ Buffered(s) = {<<>>}
        BY <1>0, <4>2, <4>3, <4>4, <4>5 DEF PartsOf
      <4>7. \/ (host[s].got \o <<>>) \o <<>> = made[s]
            \/ host[s].got \o <<>> = <<Notice>>
        BY <1>0, <4>1, <4>6 DEF Output
      <4>8. (host[s].got \o <<>>) \o <<>> = host[s].got /\ host[s].got \o <<>> = host[s].got
        BY <1>0 DEF PartsOf
      <4>9. made'[s] = made[s] /\ IsPrefixOf(host[s].got, host[s].got)
        BY <1>0, <2>3, <4>3 DEF IsPrefixOf, PartsOf
      <4>. QED BY <2>1, <4>7, <4>8, <4>9 DEF Complete
    <3>. QED BY <3>1, <3>2
  <2>5. CASE host'[s].state # "ended"
    BY <1>0, <2>1, <2>2, <2>5 DEF Complete
  <2>. QED BY <2>4, <2>5
<1>. QED BY <1>1, <1>2

-------------------------------------------------------------------------------
(* No message of the host is longer than what it sends at a time. *)
ShortInv == \A m \in In(toDev) : Len(m.data) <= Pack + MaxIn

LEMMA ItemsAreShort ==
  ASSUME TypeInv, NEW s \in Streams, NEW data \in Items(s)
  PROVE  Len(data) <= Pack
<1>1. CASE s \in Syncs
  <2>1. s \notin Shells
    BY <1>1, AdbAssumption
  <2>2. PICK k \in 1..Pack : /\ data = SubSeq(Script, host[s].sent + 1, host[s].sent + k)
                             /\ host[s].sent + k <= Len(Script)
    BY <2>1 DEF Items
  <2>3. host[s].sent \in Nat /\ Pack \in Nat /\ k \in Nat /\ k <= Pack
    BY <2>2, HostType, AdbAssumption
  <2>4. Len(SubSeq(Script, host[s].sent + 1, host[s].sent + k)) = k
    <3>1. \A i \in (host[s].sent + 1)..(host[s].sent + k) : Script[i] \in {"ask", "send", "data", "done", "quit"}
      <4>1. Len(Script) \in Nat /\ \A i \in 1..Len(Script) : Script[i] \in {"ask", "send", "data", "done", "quit"}
        BY AdbAssumption
      <4>. QED BY <2>2, <2>3, <4>1
    <3>2. Len(SubSeq(Script, host[s].sent + 1, host[s].sent + k))
            = IF host[s].sent + 1 <= host[s].sent + k THEN (host[s].sent + k) - (host[s].sent + 1) + 1 ELSE 0
      BY <2>3, <3>1, SubSeqProperties
    <3>3. k \in 1..Pack
      BY <2>2
    <3>. QED BY <2>3, <3>2, <3>3
  <2>. QED BY <2>2, <2>3, <2>4
<1>2. CASE s \in Shells
  <2>1. Len(data) = 1
    BY <1>2, ItemsType
  <2>. QED BY <2>1, AdbAssumption
<1>3. CASE s \notin Shells /\ s \notin Syncs
  BY <1>3 DEF Items
<1>. QED BY <1>1, <1>2, <1>3

LEMMA ShortStep == Base /\ ShortInv /\ [Next]_vars => ShortInv'
<1>. SUFFICES ASSUME Base, ShortInv, [Next]_vars PROVE ShortInv'
  OBVIOUS
<1>0. /\ TypeInv /\ Pack \in Nat /\ MaxIn \in Nat
      /\ \A k, i, t, d : Msg(k, i, t, d).data = d
      /\ Len(<<>>) = 0
  BY AdbAssumption DEF Base, Msg
<1>1. ASSUME NEW m, In(toDev') = In(toDev) \cup {m}, Len(m.data) <= Pack + MaxIn PROVE ShortInv'
  BY <1>1 DEF ShortInv
<1>2. CASE In(toDev') \subseteq In(toDev)
  BY <1>2 DEF ShortInv
<1>3. ASSUME NEW s \in Streams, HostOpen(s) \/ HostWrite(s) \/ HostClose(s) PROVE ShortInv'
  <2>1. Opens(s) \/ Closes(s) \/ \E data \in Items(s) : Writes(s, data)
    BY <1>0, <1>3, HostActs
  <2>2. ASSUME NEW data \in Items(s), Writes(s, data) PROVE ShortInv'
    <3>1. Len(data) <= Pack /\ Len(data) \in Nat
      BY <1>0, ItemsAreShort, ItemsType
    <3>2. Len(data) <= Pack + MaxIn
      BY <1>0, <3>1
    <3>. QED BY <1>0, <1>1, <2>2, <3>2 DEF Writes
  <2>3. 0 <= Pack + MaxIn
    BY <1>0
  <2>4. CASE Opens(s) \/ Closes(s)
    BY <1>0, <1>1, <2>3, <2>4 DEF Opens, Closes
  <2>. QED BY <2>1, <2>2, <2>4
<1>4. CASE HostRecv
  <2>1. PICK m \in FromDevice, t \in Streams :
          \/ HearsFirst(m, t) \/ HearsOkay(m, t) \/ HearsWrite(m, t) \/ HearsClose(m, t)
          \/ HearsNothing(m, t)
    BY <1>0, <1>4, HostHears
  <2>2. 0 <= Pack + MaxIn
    BY <1>0
  <2>3. CASE HearsFirst(m, t) \/ HearsOkay(m, t) \/ HearsNothing(m, t)
    BY <1>2, <2>3 DEF HearsFirst, HearsOkay, HearsNothing
  <2>4. CASE HearsWrite(m, t)
    BY <1>0, <1>1, <2>2, <2>4 DEF HearsWrite
  <2>5. CASE HearsClose(m, t)
    BY <1>0, <1>1, <1>2, <2>2, <2>5 DEF HearsClose
  <2>. QED BY <2>1, <2>3, <2>4, <2>5
<1>5. CASE Transport
  BY <1>0, <1>2, <1>5, DaemonFrame
<1>6. CASE CommandStep \/ Disconnect \/ UNCHANGED vars
  BY <1>2, <1>6 DEF CommandStep, CommandReads, CommandWrites, CommandExits, Disconnect, net, vars
<1>. QED BY <1>3, <1>4, <1>5, <1>6, ThreeParts DEF HostStep
-------------------------------------------------------------------------------
(* The theorems. *)
Inv == Wire /\ CompleteInv /\ ShortInv

LEMMA InvInit == Init => Inv
<1>1. Init => ShortInv
  BY DEF Init, ShortInv, In
<1>2. Init => CompleteInv
  BY DEF Init, CompleteInv, Complete, IsPrefixOf, Streams
<1>. QED BY <1>1, <1>2, WireInit DEF Inv

LEMMA InvStep == Inv /\ [Next]_vars => Inv'
BY WireStep, CompleteStep, ShortStep DEF Inv, Wire

(* The invariant all the theorems below come from: types, ids, flow control, order and end of
   every stream hold together, in every behaviour of one connection. *)
THEOREM Invariant == Spec => []Inv
BY InvInit, InvStep, PTL DEF Spec

LEMMA AtMostOneIndex ==
  ASSUME NEW n \in Nat, NEW P, P \subseteq 1..n, \A i, j \in P : i = j
  PROVE  Cardinality(P) \in {0, 1} /\ (P = {} <=> Cardinality(P) = 0)
<1>1. CASE P = {}
  BY <1>1, FS_EmptySet
<1>2. ASSUME NEW i \in P PROVE Cardinality(P) = 1
  <2>1. P = {i}
    BY <1>2
  <2>. QED BY <2>1, FS_Singleton
<1>. QED BY <1>1, <1>2

(* handle_transport keeps its state together: the open channels have different ids that were
   handed out and belong to shells of the host, a command runs only behind an open channel, a
   write_full has a terminal to write to, and select runs with no service left over. *)
THEOREM Typing == Spec => []TypeOK
<1>1. Inv => TypeOK
  <2>. SUFFICES ASSUME Inv PROVE TypeOK
    OBVIOUS
  <2>0. TypeInv /\ PlaceInv /\ ShortInv
    BY DEF Inv, Wire, Base
  <2>1. \A i \in 1..Len(toDev) : toDev[i] \in FromHost /\ toDev[i] \in In(toDev)
    BY <2>0 DEF TypeInv, In
  <2>2. \A i \in 1..Len(toHost) : toHost[i] \in FromDevice
    BY <2>0 DEF TypeInv
  <2>3. \A i \in 1..Len(toDev) :
          toDev[i].cmd \in {"OPEN", "OKAY", "WRTE", "CLSE"} /\ Len(toDev[i].data) <= Pack + MaxIn
    BY <2>0, <2>1 DEF ShortInv, FromHost
  <2>4. \A i \in 1..Len(toHost) :
          toHost[i].cmd \in {"OKAY", "WRTE", "CLSE"} /\ toHost[i].arg1 \in Streams
    BY <2>2 DEF FromDevice
  <2>5. \A c \in OpenSlots : c \in Slots /\ chan[c].open
    BY DEF OpenSlots
  <2>6. \A c, d \in OpenSlots : /\ chan[c].local < nextId /\ chan[c].remote \in Shells
                                /\ chan[c].local = chan[d].local => c = d
    BY <2>0, <2>5, ChannelType DEF PlaceInv
  <2>7. link \in BOOLEAN /\ pc \in {"select", "write", "service", "gone"} /\ nextId \in Nat
    BY <2>0 DEF TypeInv
  <2>. QED BY <2>0, <2>3, <2>4, <2>6, <2>7 DEF TypeOK, PlaceInv
<1>. QED BY <1>1, Invariant, PTL

(* Of each shell at most one WRTE is on its way or waits for its OKAY, and none while the
   daemon holds can_send: the flow control of handle_transport holds for any number of
   channels and streams. *)
THEOREM OneWrite == Spec => []OneOutstanding
<1>1. Inv => OneOutstanding
  <2>. SUFFICES ASSUME Inv PROVE OneOutstanding
    OBVIOUS
  <2>. DEFINE P(s) == {i \in 1..Len(toHost) : toHost[i].cmd = "WRTE" /\ toHost[i].arg1 = s}
              Q(s) == {i \in 1..Len(toDev) : toDev[i].cmd = "OKAY" /\ toDev[i].arg0 = s}
  <2>0. toDev \in Seq(FromHost) /\ toHost \in Seq(FromDevice) /\ FlowInv
    BY DEF Inv, Wire, Base, TypeInv
  <2>1. ASSUME NEW s \in Shells
        PROVE  /\ Cardinality(P(s)) \in {0, 1} /\ Cardinality(Q(s)) \in {0, 1}
               /\ Cardinality(P(s)) = 0 \/ Cardinality(Q(s)) = 0
               /\ \A c \in Slots : Runs(c, s) /\ chan[c].canSend =>
                    Cardinality(P(s)) = 0 /\ Cardinality(Q(s)) = 0
    <3>1. /\ \A i \in P(s) : toHost[i] \in In(toHost) \cap To("WRTE", s)
          /\ \A i \in Q(s) : toDev[i] \in In(toDev) \cap From("OKAY", s)
      BY <2>0 DEF In, To, From
    <3>2. (\A i, j \in P(s) : i = j) /\ (\A i, j \in Q(s) : i = j)
      BY <2>0, <3>1 DEF FlowInv, Flow, AtMostOne
    <3>3. P(s) \subseteq 1..Len(toHost) /\ Q(s) \subseteq 1..Len(toDev)
      OBVIOUS
    <3>. HIDE DEF P, Q
    <3>4. P(s) = {} \/ Q(s) = {}
      BY <2>0, <3>1 DEF FlowInv, Flow
    <3>5. \A c \in Slots : Runs(c, s) /\ chan[c].canSend => P(s) = {} /\ Q(s) = {}
      BY <2>0, <3>1 DEF FlowInv, Flow
    <3>6. Len(toHost) \in Nat /\ Len(toDev) \in Nat
      BY <2>0
    <3>. QED BY <3>2, <3>3, <3>4, <3>5, <3>6, AtMostOneIndex
  <2>2. \A c \in OpenSlots : c \in Slots /\ Runs(c, chan[c].remote) /\ chan[c].remote \in Shells
    BY ChannelType DEF OpenSlots, Runs, Inv, Wire, Base
  <2>3. \A s \in Shells : Cardinality(P(s)) + Cardinality(Q(s)) <= 1
    <3>. HIDE DEF P, Q
    <3>. QED BY <2>1
  <2>4. \A c \in OpenSlots : chan[c].canSend =>
          Cardinality(P(chan[c].remote)) + Cardinality(Q(chan[c].remote)) = 0
    <3>. HIDE DEF P, Q
    <3>. QED BY <2>1, <2>2
  <2>. QED BY <2>3, <2>4 DEF OneOutstanding
<1>. QED BY <1>1, Invariant, PTL

(* What a command reads from its terminal is what the host wrote to that stream, from the
   first chunk on and in order, however streams open and close: next_local_id never hands an
   id out twice, and find_channel_by_local_id finds the channel the host meant. *)
THEOREM InputOrder == Spec => []InputInOrder
<1>1. Inv => InputInOrder
  <2>. SUFFICES ASSUME Inv, NEW s \in Shells PROVE given[s] = [k \in 1..Len(given[s]) |-> <<s, k>>]
    BY DEF InputInOrder
  <2>1. given[s] \in Seq(Datum) /\ InOrder(given[s], s)
    BY DEF Inv, Wire, Base, TypeInv, InputInv, Input
  <2>2. given[s] = [k \in 1..Len(given[s]) |-> given[s][k]]
    BY <2>1
  <2>. QED BY <2>1, <2>2 DEF InOrder
<1>. QED BY <1>1, Invariant, PTL

(* What the host gets of a shell is what its command wrote, in order, and all of it once the
   daemon has ended the stream; or the notice that the command did not start. *)
THEOREM OutputOrder == Spec => []OutputComplete
<1>1. Inv => OutputComplete
  BY DEF Inv, CompleteInv, Complete, OutputComplete
<1>. QED BY <1>1, Invariant, PTL

------------------------------------------------------------------------------
(* A sync stream on its own, whose host sends QUIT last and no request before the answer to the
   one before it. *)
Alone == ~Overlap
QuitsLast == \A i \in 1..Len(Script) : Script[i] = "quit" => i = Len(Script)

Requested == {"ask", "done"}
Asks(q) == \E i \in 1..Len(q) : q[i] \in Requested
AsksLast(q) == \A i \in 1..Len(q) : q[i] \in Requested => i = Len(q)
Quits(q) == \E i \in 1..Len(q) : q[i] = "quit"
Asking(s) == {m \in From("WRTE", s) : Asks(m.data)}

(* The host has sent all it has to, or has not waited. *)
Done(s) == host[s].sent = Len(Script) \/ host[s].ahead
(* The daemon has taken the OPEN of the stream and has not refused it. *)
Heard(s) == \E id \in Nat : Paired(id, s)

(* The answer is out: nothing is left to send, or only the OKAY to the last part to read. *)
Answered(s) ==
  serv.replies = 0 \/ (serv.replies = 1 /\ serv.waiting /\ In(toDev) \cap From("OKAY", s) # {})
Answering(s) == serv.phase = "reply" /\ ~Answered(s)
Outstanding(s) == In(toDev) \cap Asking(s) # {} \/ Asks(serv.in) \/ Answering(s)

(* No other stream speaks while a sync stream does. *)
Solo(s) ==
  /\ host[s].state \in {"new", "opening"} => host[s].sent = 0 /\ host[s].answered = 0 /\ ~host[s].ahead
  /\ Busy(s) => /\ \A t \in Streams : Busy(t) => t = s
                /\ Bars(toDev, From("OPEN", s), FromHost)

(* The service and its place in the stream. *)
AtWork(s) ==
  /\ pc = "service" /\ serv.remote = s /\ ~serv.closed /\ serv.phase # "end"
  /\ serv.phase = "reply" => serv.last = "last" /\ serv.in = <<>>
  /\ serv.phase # "reply" => ~serv.waiting
  /\ host[s].state = "opening" => serv.phase = "cmd" /\ serv.in = <<>>
  /\ ~Quits(serv.in) /\ AsksLast(serv.in)

(* What is on its way between the two. *)
OnWire(s) ==
  /\ \A m \in In(toHost) : m.arg1 = s => m.cmd # "CLSE"
  /\ \A m \in In(toDev) : m \in From("OKAY", s) \cup From("WRTE", s)
  /\ \A m \in In(toDev) \cap From("WRTE", s) : ~Quits(m.data) /\ AsksLast(m.data)
  /\ AtMostOne(toDev, From("OKAY", s)) /\ AtMostOne(toHost, To("WRTE", s))
  /\ In(toDev) \cap From("OKAY", s) # {} => serv.waiting
  /\ \A m \in In(toHost) \cap To("WRTE", s) :
       /\ serv.waiting /\ In(toDev) \cap From("OKAY", s) = {}
       /\ m.data = <<"last">> => serv.replies = 1

(* Request and answer take turns. *)
InStep(s) ==
  /\ Bars(toDev, From("WRTE", s), From("OKAY", s)) /\ Bars(toDev, Asking(s), From("WRTE", s))
  /\ Asks(serv.in) \/ Answering(s) => In(toDev) \cap From("WRTE", s) = {}
  /\ host[s].answered <= Requests(host[s].sent)
  /\ Outstanding(s) => host[s].answered < Requests(host[s].sent)

Serving(s) == AtWork(s) /\ OnWire(s) /\ InStep(s)

Patient(s) ==
  /\ Solo(s)
  /\ link /\ Busy(s) /\ ~Done(s) /\ Heard(s) => Serving(s)
  /\ host[s].state = "ended" /\ host[s].peer # 0 => Done(s)
PatientInv == \A s \in Syncs : Patient(s)

LEMMA RequestsGrow ==
  ASSUME NEW n \in Nat, NEW k \in 0..n
  PROVE  /\ Requests(k) \in Nat /\ Requests(n) \in Nat /\ Requests(k) <= Requests(n)
         /\ k < n /\ Script[k + 1] \in Requested => Requests(k) < Requests(n)
<1>. DEFINE R(i) == {j \in 1..i : Script[j] \in Requested}
<1>1. ASSUME NEW i \in Nat PROVE IsFiniteSet(R(i)) /\ Cardinality(R(i)) \in Nat
  <2>1. IsFiniteSet(1..i) /\ R(i) \subseteq 1..i
    BY <1>1, FS_Interval
  <2>2. IsFiniteSet(R(i))
    BY <2>1, FS_Subset
  <2>. QED BY <2>2, FS_CardinalityType
<1>2. k \in Nat /\ R(k) \subseteq R(n)
  OBVIOUS
<1>3. ASSUME k < n, Script[k + 1] \in Requested PROVE R(k) \cup {k + 1} \subseteq R(n) /\ k + 1 \notin R(k)
  BY <1>2, <1>3
<1>4. \A i : Requests(i) = Cardinality(R(i))
  BY DEF Requests, Requested
<1>. HIDE DEF R
<1>5. Cardinality(R(k)) <= Cardinality(R(n))
  BY <1>1, <1>2, FS_Subset
<1>6. ASSUME k < n, Script[k + 1] \in Requested PROVE Cardinality(R(k)) + 1 <= Cardinality(R(n))
  <2>1. Cardinality(R(k) \cup {k + 1}) = Cardinality(R(k)) + 1
    BY <1>1, <1>2, <1>3, <1>6, FS_AddElement
  <2>2. Cardinality(R(k) \cup {k + 1}) <= Cardinality(R(n))
    BY <1>1, <1>3, <1>6, FS_Subset
  <2>. QED BY <2>1, <2>2
<1>7. Cardinality(R(k)) \in Nat /\ Cardinality(R(n)) \in Nat
  BY <1>1, <1>2
<1>. QED BY <1>4, <1>5, <1>6, <1>7

(* What a sync stream may send next. *)
LEMMA SyncItems ==
  ASSUME TypeInv, NEW s \in Syncs, NEW data \in Items(s)
  PROVE  /\ data \in Seq(Datum) /\ Len(data) \in Nat \ {0} /\ host[s].sent \in Nat
         /\ host[s].sent + Len(data) <= Len(Script) /\ Len(Script) \in Nat
         /\ \A i \in 1..Len(data) : data[i] = Script[host[s].sent + i]
<1>1. s \in Streams /\ s \notin Shells
  BY AdbAssumption DEF Streams
<1>2. data \in Seq(Datum) /\ host[s].sent \in Nat /\ Len(Script) \in Nat
  BY <1>1, ItemsType, HostType, AdbAssumption
<1>3. PICK k \in 1..Pack : /\ data = SubSeq(Script, host[s].sent + 1, host[s].sent + k)
                           /\ host[s].sent + k <= Len(Script)
  BY <1>1 DEF Items
<1>4. k \in Nat \ {0}
  BY <1>3, AdbAssumption
<1>5. Len(data) = k /\ \A i \in 1..k : data[i] = Script[host[s].sent + i]
  <2>. DEFINE n == host[s].sent
  <2>1. n \in Nat /\ k \in Nat \ {0} /\ n + k <= Len(Script) /\ data = SubSeq(Script, n + 1, n + k)
    BY <1>2, <1>3, <1>4
  <2>. HIDE DEF n
  <2>2. \A i \in (n + 1)..(n + k) : Script[i] \in {"ask", "send", "data", "done", "quit"}
    <3>1. Len(Script) \in Nat /\ \A i \in 1..Len(Script) : Script[i] \in {"ask", "send", "data", "done", "quit"}
      BY AdbAssumption
    <3>. QED BY <2>1, <3>1
  <2>3. n + 1 \in Int /\ n + k \in Int /\ n + 1 <= n + k /\ (n + k) - (n + 1) + 1 = k
    BY <2>1
  <2>4. /\ Len(data) = (n + k) - (n + 1) + 1
        /\ \A i \in 1..((n + k) - (n + 1) + 1) : data[i] = Script[(n + 1) + i - 1]
    BY <2>1, <2>2, <2>3, SubSeqProperties
  <2>5. \A i \in 1..k : (n + 1) + i - 1 = n + i
    BY <2>1
  <2>. QED BY <2>3, <2>4, <2>5 DEF n
<1>. QED BY <1>2, <1>3, <1>4, <1>5

LEMMA PatientData ==
  ASSUME TypeInv, QuitsLast, NEW s \in Syncs, NEW data \in Items(s),
         host[s].answered \in Nat, host[s].answered <= Requests(host[s].sent),
         ~(Requests(host[s].sent + Len(data) - 1) > host[s].answered),
         host[s].sent + Len(data) # Len(Script)
  PROVE  /\ ~Quits(data) /\ AsksLast(data)
         /\ Requests(host[s].sent) <= host[s].answered
         /\ host[s].answered <= Requests(host[s].sent + Len(data))
         /\ Asks(data) => host[s].answered < Requests(host[s].sent + Len(data))
<1>. DEFINE n == host[s].sent
            k == Len(data)
            a == host[s].answered
<1>1. /\ n \in Nat /\ k \in Nat \ {0} /\ a \in Nat /\ n + k <= Len(Script) /\ Len(Script) \in Nat
      /\ \A i \in 1..k : data[i] = Script[n + i]
  BY SyncItems
<1>2. a <= Requests(n) /\ ~(Requests(n + k - 1) > a) /\ n + k # Len(Script)
  OBVIOUS
<1>. HIDE DEF n, k, a
<1>3. n + k \in Nat /\ n \in 0..(n + k) /\ n + k - 1 \in Nat /\ n \in 0..(n + k - 1)
  BY <1>1
<1>4. /\ Requests(n) \in Nat /\ Requests(n + k) \in Nat /\ Requests(n + k - 1) \in Nat
      /\ Requests(n) <= Requests(n + k) /\ Requests(n) <= Requests(n + k - 1)
  BY <1>3, RequestsGrow
<1>5. \A i \in 1..k : Script[n + i] # "quit"
  <2>1. \A i \in 1..k : n + i \in 1..Len(Script) /\ n + i # Len(Script)
    BY <1>1, <1>2
  <2>. QED BY <2>1 DEF QuitsLast
<1>6. ASSUME NEW i \in 1..k, Script[n + i] \in Requested PROVE i = k /\ a < Requests(n + k)
  <2>1. n + i - 1 \in 0..(n + k) /\ n + i - 1 < n + k /\ n \in 0..(n + i - 1) /\ (n + i - 1) + 1 = n + i
        /\ n + i - 1 \in Nat
    BY <1>1
  <2>2. Requests(n) <= Requests(n + i - 1) /\ Requests(n + i - 1) \in Nat
    BY <2>1, RequestsGrow
  <2>3. Requests(n + i - 1) < Requests(n + k)
    BY <1>3, <1>6, <2>1, RequestsGrow
  <2>4. i # k => n + i - 1 \in 0..(n + k - 1) /\ n + i - 1 < n + k - 1
    BY <1>1
  <2>5. i # k => Requests(n + i - 1) < Requests(n + k - 1)
    BY <1>3, <1>6, <2>1, <2>4, RequestsGrow
  <2>. QED BY <1>1, <1>2, <1>4, <2>2, <2>3, <2>5
<1>7. ~Quits(data) /\ AsksLast(data) /\ (Asks(data) => a < Requests(n + k))
  BY <1>1, <1>5, <1>6 DEF Quits, AsksLast, Asks, k
<1>8. Requests(n) <= a /\ a <= Requests(n + k)
  BY <1>1, <1>2, <1>4
<1>. QED BY <1>7, <1>8 DEF n, k, a

LEMMA TailItems ==
  ASSUME NEW S, NEW q \in Seq(S), q # <<>>
  PROVE  /\ Asks(Tail(q)) => Asks(q)
         /\ Quits(Tail(q)) => Quits(q)
         /\ AsksLast(q) => AsksLast(Tail(q))
         /\ Head(q) = "quit" => Quits(q)
         /\ Head(q) \in Requested => Asks(q) /\ (AsksLast(q) => Tail(q) = <<>>)
<1>1. /\ Len(q) \in Nat \ {0} /\ Len(Tail(q)) = Len(q) - 1 /\ q[1] = Head(q) /\ Tail(q) \in Seq(S)
      /\ \A i \in 1..Len(Tail(q)) : Tail(q)[i] = q[i + 1] /\ i + 1 \in 1..Len(q)
  BY HeadTailProperties
<1>2. Asks(Tail(q)) => Asks(q)
  BY <1>1 DEF Asks
<1>3. Quits(Tail(q)) => Quits(q)
  BY <1>1 DEF Quits
<1>4. AsksLast(q) => AsksLast(Tail(q))
  <2>. SUFFICES ASSUME AsksLast(q), NEW i \in 1..Len(Tail(q)), Tail(q)[i] \in Requested
                PROVE  i = Len(Tail(q))
    BY DEF AsksLast
  <2>1. i + 1 \in 1..Len(q) /\ q[i + 1] \in Requested
    BY <1>1
  <2>2. i + 1 = Len(q)
    BY <2>1 DEF AsksLast
  <2>3. ASSUME NEW k, k = Len(q) - 1 PROVE i = k
    BY <2>2, <2>3
  <2>. QED BY <1>1, <2>3
<1>5. 1 \in 1..Len(q)
  BY <1>1
<1>6. Head(q) = "quit" => Quits(q)
  BY <1>1, <1>5 DEF Quits
<1>7. Head(q) \in Requested => Asks(q)
  BY <1>1, <1>5 DEF Asks
<1>8. ASSUME Head(q) \in Requested, AsksLast(q) PROVE Tail(q) = <<>>
  <2>1. 1 = Len(q)
    BY <1>1, <1>5, <1>8 DEF AsksLast
  <2>2. Len(Tail(q)) = 0
    <3>1. ASSUME NEW k, k = Len(q) - 1 PROVE k = 0
      BY <2>1, <3>1
    <3>. QED BY <1>1, <3>1
  <2>. QED BY <1>1, <2>2, EmptySeq
<1>. QED BY <1>2, <1>3, <1>4, <1>6, <1>7, <1>8

(* What the host counts. *)
LEMMA HostCounts ==
  ASSUME TypeInv, [Next]_vars, NEW s \in Streams
  PROVE  /\ host[s].answered \in Nat /\ host[s].ahead \in BOOLEAN
         /\ ~HostWrite(s) => host'[s].ahead = host[s].ahead
         /\ \/ host'[s].answered = host[s].answered
            \/ /\ HostRecv /\ toHost # <<>> /\ Head(toHost).cmd = "WRTE" /\ Head(toHost).arg1 = s
               /\ Head(toHost).data = <<"last">> /\ host[s].state = "open"
               /\ host'[s].answered = host[s].answered + 1
<1>0. host \in [Streams -> HostState] /\ host[s] \in HostState /\ host[s].answered \in Nat
      /\ host[s].ahead \in BOOLEAN
  BY DEF TypeInv, HostState
<1>. DEFINE Keeps == host'[s].ahead = host[s].ahead /\ host'[s].answered = host[s].answered
<1>1. CASE HostRecv
  <2>. DEFINE m == Head(toHost)
              t == m.arg1
  <2>1. t \in Streams /\ toHost # <<>> /\ host[t] \in HostState
    BY <1>0, <1>1, HeadOfDaemon DEF HostRecv
  <2>2. CASE m.cmd = "WRTE" /\ host[t].state = "open" /\ t \notin Shells /\ m.data = <<"last">>
             /\ host' = [host EXCEPT ![t].answered = @ + 1]
    <3>1. CASE t = s
      BY <1>0, <1>1, <2>1, <2>2, <3>1 DEF HostState
    <3>2. CASE t # s
      BY <1>0, <2>1, <2>2, <3>2
    <3>. QED BY <1>0, <3>1, <3>2
  <2>3. ASSUME NEW p, NEW c, host' = [host EXCEPT ![t].state = "open", ![t].peer = p, ![t].credit = c] PROVE Keeps
    BY <1>0, <2>1, <2>3 DEF HostState
  <2>4. ASSUME NEW c, host' = [host EXCEPT ![t].credit = c] PROVE Keeps
    BY <1>0, <2>1, <2>4 DEF HostState
  <2>5. ASSUME NEW g, host' = [host EXCEPT ![t].got = g] PROVE Keeps
    BY <1>0, <2>1, <2>5 DEF HostState
  <2>6. ASSUME NEW g, host' = [host EXCEPT ![t].state = g] PROVE Keeps
    BY <1>0, <2>1, <2>6 DEF HostState
  <2>7. CASE host' = host
    BY <1>0, <2>7
  <2>8. CASE m.cmd = "OKAY"
    BY <1>0, <1>1, <2>3, <2>4, <2>7, <2>8 DEF HostRecv
  <2>9. CASE m.cmd = "WRTE"
    BY <1>0, <1>1, <2>2, <2>5, <2>7, <2>9 DEF HostRecv
  <2>10. CASE m.cmd = "CLSE"
    BY <1>0, <1>1, <2>6, <2>7, <2>10 DEF HostRecv
  <2>. QED BY <1>1, <2>1, <2>8, <2>9, <2>10, HeadOfDaemon
<1>2. ASSUME NEW t \in Streams, HostOpen(t) \/ HostClose(t) PROVE Keeps
  <2>1. PICK g : host' = [host EXCEPT ![t].state = g]
    BY <1>2 DEF HostOpen, HostClose
  <2>. QED BY <1>0, <2>1 DEF HostState
<1>3. ASSUME NEW t \in Streams, HostWrite(t)
      PROVE  host'[s].answered = host[s].answered /\ (t # s => host'[s] = host[s])
  <2>1. PICK k, e : host' = [host EXCEPT ![t].credit = FALSE, ![t].sent = k, ![t].ahead = e]
    BY <1>3 DEF HostWrite
  <2>. QED BY <1>0, <2>1 DEF HostState
<1>4. CASE Transport \/ CommandStep \/ UNCHANGED vars \/ Disconnect
  <2>1. host' = host
    BY <1>4, DaemonFrame DEF CommandStep, CommandReads, CommandWrites, CommandExits, vars, Disconnect
  <2>. QED BY <1>0, <2>1
<1>. QED BY <1>0, <1>1, <1>2, <1>3, <1>4, ThreeParts DEF HostStep

LEMMA SyncStream == ASSUME NEW s \in Syncs PROVE s \in Streams /\ s \notin Shells /\ s \notin Texts
BY AdbAssumption DEF Streams

(* While a sync stream is busy no other one is, and none opens. *)
LEMMA NoOther ==
  ASSUME Base, Alone, [Next]_vars, NEW s \in Syncs, Solo(s), Busy(s), NEW t \in Streams, t # s
  PROVE  ~Busy(t) /\ ~HostOpen(t) /\ ~HostWrite(t) /\ ~HostClose(t)
BY SyncStream DEF Solo, Busy, HostOpen, HostWrite, HostClose, Alone

(* What the host says while a sync stream is busy, it says of that stream. *)
LEMMA HostSpeaks ==
  ASSUME Base, Alone, [Next]_vars, NEW s \in Syncs, Solo(s), Busy(s)
  PROVE  \/ toDev' = toDev
         \/ toDev # <<>> /\ toDev' = Tail(toDev)
         \/ host[s].state = "open" /\ \E m \in FromHost : toDev' = Append(toDev, m)
<1>0. s \in Streams /\ TypeInv
  BY SyncStream DEF Base
<1>1. CASE HostRecv
  <2>1. PICK m \in FromDevice, t \in Streams :
          \/ HearsFirst(m, t) \/ HearsOkay(m, t) \/ HearsWrite(m, t) \/ HearsClose(m, t)
          \/ HearsNothing(m, t)
    BY <1>0, <1>1, HostHears
  <2>2. CASE Known(m, t)
    <3>1. t = s /\ host[s].state = "open"
      BY <2>2, <1>0, NoOther DEF Known, Busy
    <3>2. m.arg0 \in Nat
      BY DEF FromDevice
    <3>. QED BY <1>0, <2>1, <3>1, <3>2, HostMessages DEF HearsFirst, HearsOkay, HearsWrite, HearsClose, HearsNothing
  <2>3. CASE ~Known(m, t)
    BY <2>1, <2>3 DEF HearsFirst, HearsOkay, HearsWrite, HearsClose, HearsNothing
  <2>. QED BY <2>2, <2>3
<1>2. ASSUME NEW t \in Streams, HostOpen(t) \/ HostWrite(t) \/ HostClose(t)
      PROVE  host[s].state = "open" /\ \E m \in FromHost : toDev' = Append(toDev, m)
  <2>1. t = s
    BY <1>2, NoOther
  <2>2. host[s].state = "open" /\ (Closes(s) \/ \E data \in Items(s) : Writes(s, data))
    BY <1>0, <1>2, <2>1, HostActs DEF HostOpen, HostWrite, HostClose, Busy, Opens
  <2>. QED BY <1>0, <2>2, HostType, HostMessages, ItemsType DEF Closes, Writes
<1>3. CASE Transport \/ CommandStep \/ UNCHANGED vars \/ Disconnect
  BY <1>0, <1>3, DaemonFrame DEF CommandStep, CommandReads, CommandWrites, CommandExits, net, vars, Disconnect
<1>. QED BY <1>1, <1>2, <1>3, ThreeParts DEF HostStep

LEMMA SoloStep ==
  ASSUME Base, Alone, [Next]_vars, NEW s \in Syncs, Solo(s)
  PROVE  Solo(s)'
<1>0. s \in Streams /\ s \notin Shells /\ TypeInv
  BY SyncStream DEF Base
<1>1. ASSUME host'[s].state \in {"new", "opening"}
      PROVE  host'[s].sent = 0 /\ host'[s].answered = 0 /\ ~host'[s].ahead
  <2>1. host[s].state \in {"new", "opening"}
    BY <1>0, <1>1, HostMoves
  <2>2. host[s].sent = 0 /\ host[s].answered = 0 /\ ~host[s].ahead
    BY <2>1 DEF Solo
  <2>3. ~HostWrite(s)
    BY <2>1 DEF HostWrite
  <2>4. host'[s].sent = host[s].sent
    BY <1>0, <2>3, SentStays
  <2>5. host'[s].ahead = host[s].ahead
    BY <1>0, <2>3, HostCounts
  <2>6. host'[s].answered = host[s].answered
    BY <1>0, <2>1, HostCounts
  <2>. QED BY <2>2, <2>4, <2>5, <2>6
<1>2. CASE HostOpen(s)
  <2>1. ASSUME NEW t \in Streams, t # s PROVE host'[t].state \notin {"opening", "open"}
    <3>1. ~Busy(t)
      BY <1>0, <1>2, <2>1 DEF HostOpen, Alone
    <3>2. host'[t] = host[t]
      BY <1>0, <1>2, <2>1, HostActs
    <3>. QED BY <3>1, <3>2 DEF Busy
  <2>2. /\ Msg("OPEN", s, 0, <<>>) \in FromHost /\ toDev' = Append(toDev, Msg("OPEN", s, 0, <<>>))
        /\ toDev \in Seq(FromHost)
    BY <1>0, <1>2, HostMessages DEF HostOpen, TypeInv
  <2>3. In(toDev) \cap From("OPEN", s) = {}
    BY <1>0, <1>2 DEF HostOpen, Base, HostInv, Meant, From
  <2>4. Bars(toDev, From("OPEN", s), FromHost)
    BY <2>3 DEF Bars, In
  <2>5. Bars(toDev', From("OPEN", s), FromHost)
    BY <2>2, <2>3, <2>4, BarsAppend
  <2>. QED BY <1>1, <2>1, <2>5 DEF Solo, Busy
<1>3. CASE Busy(s) /\ ~HostOpen(s)
  <2>1. ASSUME NEW t \in Streams, t # s PROVE host'[t].state \notin {"opening", "open"}
    <3>1. ~Busy(t) /\ ~HostOpen(t)
      BY <1>0, <1>3, <2>1, NoOther
    <3>. QED BY <1>0, <3>1, HostMoves DEF Busy
  <2>2. toDev \in Seq(FromHost) /\ Bars(toDev, From("OPEN", s), FromHost)
    BY <1>0, <1>3 DEF Solo, TypeInv
  <2>3. Bars(toDev', From("OPEN", s), FromHost)
    <3>1. CASE host[s].state = "open" /\ \E m \in FromHost : toDev' = Append(toDev, m)
      <4>1. In(toDev) \cap From("OPEN", s) = {}
        BY <1>0, <3>1 DEF Base, HostInv, Meant, From
      <4>. QED BY <2>2, <3>1, <4>1, BarsAppend
    <3>2. CASE toDev # <<>> /\ toDev' = Tail(toDev)
      BY <2>2, <3>2, BarsTail
    <3>. QED BY <1>3, <2>2, <3>1, <3>2, HostSpeaks
  <2>. QED BY <1>1, <2>1, <2>3 DEF Solo, Busy
<1>4. CASE ~Busy(s) /\ ~HostOpen(s)
  <2>1. host'[s].state \notin {"opening", "open"}
    BY <1>0, <1>4, HostMoves DEF Busy
  <2>. QED BY <1>1, <2>1 DEF Solo, Busy
<1>. QED BY <1>2, <1>3, <1>4

(* What is done stays done, and the daemon hears of a stream by its OPEN. *)
LEMMA DoneStays ==
  ASSUME Base, [Next]_vars, NEW s \in Syncs, Done(s)
  PROVE  Done(s)'
<1>0. s \in Streams /\ TypeInv
  BY SyncStream DEF Base
<1>1. CASE HostWrite(s)
  <2>1. PICK data \in Items(s) :
          host' = [host EXCEPT ![s].credit = FALSE, ![s].sent = @ + Len(data),
             ![s].ahead = @ \/ (s \in Syncs /\ Requests(host[s].sent + Len(data) - 1) > host[s].answered)]
    BY <1>1 DEF HostWrite
  <2>2. host'[s].ahead = (host[s].ahead \/ (s \in Syncs /\ Requests(host[s].sent + Len(data) - 1) > host[s].answered))
    BY <1>0, <2>1 DEF TypeInv, HostState
  <2>3. host[s].sent # Len(Script)
    BY <1>0, SyncItems
  <2>. QED BY <2>2, <2>3 DEF Done
<1>2. CASE ~HostWrite(s)
  <2>1. host'[s].sent = host[s].sent
    BY <1>0, <1>2, SentStays
  <2>2. host'[s].ahead = host[s].ahead
    BY <1>0, <1>2, HostCounts
  <2>. QED BY <2>1, <2>2 DEF Done
<1>. QED BY <1>1, <1>2

LEMMA HeardBefore ==
  ASSUME Base, [Next]_vars, NEW s \in Syncs, Heard(s)', RecvOpen => Head(toDev).arg0 # s
  PROVE  Heard(s)
<1>1. PICK id \in Nat : Paired(id, s)'
  BY DEF Heard
<1>. QED BY <1>1, SyncStream, OpenPairs, PairsStay DEF Base, Heard

LEMMA BusyBefore ==
  ASSUME Base, [Next]_vars, NEW s \in Syncs, Busy(s)', Heard(s)'
  PROVE  Busy(s)
<1>0. s \in Streams
  BY SyncStream
<1>1. CASE HostOpen(s)
  <2>1. Untouched(s)
    BY <1>0, <1>1 DEF HostOpen, Base, HostInv
  <2>2. ~RecvOpen
    BY <1>0, <1>1, HostActs, NotOpen DEF Base
  <2>3. Heard(s)
    BY <2>2, HeardBefore
  <2>. QED BY <2>1, <2>3 DEF Heard, Untouched
<1>2. CASE ~HostOpen(s)
  BY <1>0, <1>2, HostMoves DEF Busy
<1>. QED BY <1>1, <1>2

(* The service begins. *)
LEMMA ServingOpen ==
  ASSUME Base, NEW s \in Syncs, Solo(s), Busy(s), RecvOpen, Head(toDev).arg0 = s, Heard(s)'
  PROVE  Serving(s)'
<1>0. s \in Streams /\ s \notin Shells /\ s \notin Texts /\ TypeInv
  BY SyncStream DEF Base
<1>1. /\ Untouched(s) /\ pc = "select" /\ UNCHANGED <<link, pending, host, given, made>>
      /\ OpenRefused(s) \/ OpenServed(s)
  BY <1>0, OpenCases DEF Base, OpenRuns, OpenFails
<1>2. ~OpenRefused(s)
  <2>. SUFFICES ASSUME OpenRefused(s), NEW id \in Nat, Paired(id, s)' PROVE FALSE
    BY DEF Heard
  <2>1. ~Paired(id, s)
    BY <1>1 DEF Untouched
  <2>2. \A m \in In(toHost') : m \in In(toHost) \/ m.cmd = "CLSE"
    BY DEF OpenRefused, Msg
  <2>. QED BY <1>1, <2>1, <2>2 DEF OpenRefused, Paired, Runs
<1>3. OpenServed(s)
  BY <1>1, <1>2
<1>4. /\ pc' = "service" /\ serv'.remote = s /\ ~serv'.closed /\ serv'.phase = "cmd" /\ serv'.in = <<>>
      /\ ~serv'.waiting
  <2>1. serv' = Service(LocalId, s, "cmd", "none")
    BY <1>0, <1>1, <1>3, AdbAssumption DEF RecvOpen, OpenService, OpenServed
  <2>. QED BY <1>3, <2>1 DEF Service, NoService, OpenServed
<1>5. In(toDev') = {}
  <2>1. /\ toDev # <<>> /\ toDev' = Tail(toDev) /\ toDev \in Seq(FromHost) /\ Head(toDev) \in FromHost
        /\ Head(toDev).cmd = "OPEN"
    BY <1>0, Reading1 DEF RecvOpen, Recv, TypeInv
  <2>2. In(Tail(toDev)) \cap FromHost = {}
    BY <2>1, BarsTail DEF Solo, From
  <2>3. In(toDev') \subseteq FromHost
    BY <2>1, InTail, InType
  <2>. QED BY <2>1, <2>2, <2>3
<1>6. toDev' \in Seq(FromHost) /\ \A i \in 1..Len(toDev') : FALSE
  <2>1. toDev' \in Seq(FromHost)
    BY <1>0, Reading1 DEF RecvOpen
  <2>2. \A i \in 1..Len(toDev') : toDev'[i] \in In(toDev')
    BY DEF In
  <2>. QED BY <1>5, <2>1, <2>2
<1>7. \A m \in In(toHost') : m.arg1 = s => m.cmd = "OKAY"
  BY <1>1, <1>3 DEF OpenServed, Untouched, Msg
<1>8. AtWork(s)'
  BY <1>4 DEF AtWork, Quits, AsksLast
<1>9. AtMostOne(toHost', To("WRTE", s)) /\ In(toHost') \cap To("WRTE", s) = {}
  <2>1. In(toHost') \cap To("WRTE", s) = {}
    BY <1>7 DEF To
  <2>. QED BY <2>1 DEF AtMostOne, In
<1>10. OnWire(s)'
  <2>1. AtMostOne(toDev', From("OKAY", s))
    BY <1>6 DEF AtMostOne
  <2>. QED BY <1>5, <1>7, <1>9, <2>1 DEF OnWire
<1>11. InStep(s)'
  <2>1. Bars(toDev', From("WRTE", s), From("OKAY", s)) /\ Bars(toDev', Asking(s), From("WRTE", s))
    BY <1>6 DEF Bars
  <2>2. host[s].state \in {"new", "opening"}
    <3>1. host[s].peer = 0
      BY <1>1 DEF Untouched
    <3>. QED BY <1>0, <3>1 DEF Busy, Base, HostInv
  <2>3. host[s].answered = 0 /\ Requests(host[s].sent) \in Nat
    <3>1. host[s].sent = 0 /\ host[s].answered = 0
      BY <2>2 DEF Solo
    <3>. QED BY <3>1, RequestsGrow
  <2>4. ~Asks(serv'.in)
    BY <1>4 DEF Asks
  <2>5. ~Answering(s)'
    BY <1>4 DEF Answering
  <2>6. ~Outstanding(s)'
    BY <1>5, <2>4, <2>5 DEF Outstanding
  <2>. QED BY <1>1, <1>5, <2>1, <2>3, <2>4, <2>5, <2>6 DEF InStep
<1>. QED BY <1>8, <1>10, <1>11 DEF Serving

(* What the service finds in the connection is from its stream. *)
LEMMA ServingMessage ==
  ASSUME Base, NEW s \in Syncs, Serving(s), NEW m \in In(toDev)
  PROVE  m \in FromHost /\ m.arg0 = s /\ m.arg1 = serv.local /\ m.cmd \in {"OKAY", "WRTE"}
         /\ host[s].state \notin {"new", "opening"}
<1>0. s \in Streams /\ pc = "service" /\ serv.remote = s
  BY SyncStream DEF Serving, AtWork
<1>1. m \in FromHost /\ m.arg0 = s /\ m.cmd \in {"OKAY", "WRTE"} /\ m.arg1 \in Nat
  BY DEF Serving, OnWire, From, FromHost
<1>2. host[s].state \notin {"new", "opening"} /\ host[s].peer = m.arg1 /\ m.arg1 # 0
  BY <1>1 DEF Base, HostInv, Meant
<1>3. Paired(m.arg1, s) /\ Paired(serv.local, s) /\ serv.local \in Nat
  BY <1>0, <1>2, ServiceType DEF Paired, Base
<1>4. m.arg1 = serv.local
  BY <1>0, <1>1, <1>3 DEF Base, PairInv
<1>. QED BY <1>1, <1>2, <1>4

LEMMA HeadServed ==
  ASSUME Base, NEW s \in Syncs, Serving(s), toDev # <<>>
  PROVE  LET m == Head(toDev)
         IN  /\ m \in From("OKAY", s) \cup From("WRTE", s) /\ m.cmd \in {"OKAY", "WRTE"}
             /\ m \in In(toDev) /\ m.arg1 = serv.local /\ m.data \in Seq(Datum)
             /\ host[s].state \notin {"new", "opening"}
             /\ toDev \in Seq(FromHost) /\ In(toDev) = In(Tail(toDev)) \cup {m}
<1>1. Head(toDev) \in In(toDev) /\ toDev \in Seq(FromHost) /\ In(toDev) = In(Tail(toDev)) \cup {Head(toDev)}
  BY InTail DEF Base, TypeInv
<1>2. Head(toDev).data \in Seq(Datum)
  BY <1>1, ServingMessage DEF FromHost
<1>. QED BY <1>1, <1>2, ServingMessage DEF Serving, OnWire

LEMMA ServiceWaits ==
  ASSUME Base, NEW s \in Syncs, Serving(s)
  PROVE  /\ serv \in ServiceState /\ serv.phase \in {"cmd", "data", "reply"}
         /\ serv.replies \in Nat /\ (serv.waiting => serv.replies > 0 /\ serv.phase = "reply")
         /\ serv.in \in Seq(Datum)
BY DEF Base, TypeInv, PlaceInv, Serving, AtWork, ServiceState

(* A part of the answer is on its way: no OKAY is, and nothing else is asked. *)
LEMMA NothingAsked ==
  ASSUME Base, NEW s \in Syncs, Serving(s), serv.phase = "reply", serv.replies # 0,
         In(toDev) \cap From("OKAY", s) = {}
  PROVE  Answering(s) /\ In(toDev) \cap From("WRTE", s) = {} /\ In(toDev) = {}
<1>1. Answering(s)
  BY DEF Answering, Answered
<1>. QED BY <1>1 DEF Serving, InStep, OnWire

LEMMA ServingWrite ==
  ASSUME Base, NEW s \in Syncs, Serving(s), ServiceWrite
  PROVE  Serving(s)'
<1>. DEFINE m == Head(toDev)
<1>0. s \in Streams /\ s \notin Shells /\ TypeInv
  BY SyncStream DEF Base
<1>1. /\ toDev # <<>> /\ toDev' = Tail(toDev) /\ m.cmd = "WRTE" /\ pc = "service" /\ pc' = pc
      /\ host' = host /\ link' = link
  BY DEF ServiceWrite, Recv
<1>2. /\ m \in From("WRTE", s) /\ m \in In(toDev) /\ m.arg1 = serv.local /\ m.data \in Seq(Datum)
      /\ host[s].state \notin {"new", "opening"} /\ toDev \in Seq(FromHost)
      /\ In(toDev) = In(toDev') \cup {m}
  BY <1>1, HeadServed DEF From
<1>. HIDE DEF m
<1>3. serv \in ServiceState /\ serv.phase \in {"cmd", "data", "reply"}
      /\ (serv.waiting => serv.replies > 0 /\ serv.phase = "reply") /\ serv.replies \in Nat
  BY ServiceWaits
<1>4. ~(serv.phase = "reply" /\ serv.waiting)
  <2>. SUFFICES ASSUME serv.phase = "reply", serv.waiting PROVE FALSE
    OBVIOUS
  <2>1. In(Tail(toDev)) \cap From("OKAY", s) = {}
    BY <1>1, <1>2, BarsTail DEF Serving, InStep, m
  <2>2. In(toDev) \cap From("OKAY", s) = {}
    BY <1>1, <1>2, <2>1 DEF From
  <2>3. serv.replies # 0
    BY <1>3
  <2>. QED BY <1>2, <2>2, <2>3, NothingAsked
<1>5. serv.phase \in {"cmd", "data"} /\ serv.in = <<>>
  BY <1>4 DEF ServiceWrite, Reading, Waiting
<1>6. /\ serv' = [serv EXCEPT !.in = m.data]
      /\ toHost' = toHost \o <<Msg("OKAY", serv.local, serv.remote, <<>>)>>
  BY <1>2, <1>5 DEF ServiceWrite, Accept, Send, m
<1>7. /\ serv'.in = m.data /\ serv'.phase = serv.phase /\ serv'.remote = serv.remote
      /\ serv'.closed = serv.closed /\ serv'.waiting = serv.waiting /\ serv'.replies = serv.replies
  BY <1>3, <1>6 DEF ServiceState
<1>8. ~serv.waiting
  BY <1>5 DEF Serving, AtWork
<1>9. ~Quits(m.data) /\ AsksLast(m.data)
  BY <1>2 DEF Serving, OnWire
<1>10. AtWork(s)'
  BY <1>1, <1>2, <1>5, <1>7, <1>9 DEF Serving, AtWork
<1>. DEFINE o == Msg("OKAY", serv.local, serv.remote, <<>>)
<1>11. o \in FromDevice /\ toHost' = Append(toHost, o) /\ In(toHost') = In(toHost) \cup {o}
       /\ o.cmd = "OKAY"
  <2>1. o \in FromDevice
    BY <1>1, ServiceType, Messages DEF Base
  <2>. QED BY <1>0, <1>6, <2>1, Sending DEF Msg
<1>. HIDE DEF o
<1>12. OnWire(s)'
  <2>1. AtMostOne(toDev', From("OKAY", s))
    BY <1>1, <1>2, OneTail DEF Serving, OnWire
  <2>2. AtMostOne(toHost', To("WRTE", s)) /\ In(toHost') \cap To("WRTE", s) = {}
    <3>1. In(toHost) \cap To("WRTE", s) = {}
      BY <1>8 DEF Serving, OnWire
    <3>2. o \notin To("WRTE", s)
      BY <1>11 DEF To
    <3>3. In(toHost') \cap To("WRTE", s) = {}
      BY <1>11, <3>1, <3>2
    <3>. QED BY <3>3 DEF AtMostOne, In
  <2>3. \A x \in In(toHost') : x.arg1 = s => x.cmd # "CLSE"
    BY <1>11 DEF Serving, OnWire
  <2>4. In(toDev') \subseteq In(toDev)
    BY <1>2
  <2>. QED BY <1>7, <1>8, <2>1, <2>2, <2>3, <2>4 DEF Serving, OnWire
<1>13. InStep(s)'
  <2>1. Bars(toDev', From("WRTE", s), From("OKAY", s))
    BY <1>1, <1>2, BarsTail DEF Serving, InStep
  <2>2. /\ Bars(toDev', Asking(s), From("WRTE", s))
        /\ m \in Asking(s) => In(toDev') \cap From("WRTE", s) = {}
    BY <1>1, <1>2, BarsTail DEF Serving, InStep, m
  <2>3. Asks(serv'.in) => m \in Asking(s)
    BY <1>2, <1>7 DEF Asking
  <2>4. ~Answering(s)'
    BY <1>5, <1>7 DEF Answering
  <2>5. Outstanding(s)' => Outstanding(s)
    BY <1>2, <2>3, <2>4 DEF Outstanding
  <2>. QED BY <1>1, <2>1, <2>2, <2>3, <2>4, <2>5 DEF Serving, InStep
<1>. QED BY <1>10, <1>12, <1>13 DEF Serving

LEMMA ServingOkay ==
  ASSUME Base, NEW s \in Syncs, Serving(s), ServiceOkay
  PROVE  Serving(s)'
<1>. DEFINE m == Head(toDev)
            Okays == From("OKAY", s)
<1>1. /\ toDev # <<>> /\ toDev' = Tail(toDev) /\ m.cmd = "OKAY" /\ pc' = pc
      /\ host' = host /\ toHost' = toHost
  BY DEF ServiceOkay, Recv
<1>2. m \in Okays /\ m \in In(toDev) /\ toDev \in Seq(FromHost) /\ In(toDev) = In(toDev') \cup {m}
  BY <1>1, HeadServed DEF From
<1>. HIDE DEF m
<1>3. /\ serv \in ServiceState /\ serv.replies \in Nat /\ serv.waiting /\ serv.replies > 0
      /\ serv.phase = "reply"
  <2>1. serv.waiting
    BY <1>2 DEF Serving, OnWire
  <2>. QED BY <2>1, ServiceWaits
<1>4. /\ serv' = [serv EXCEPT !.waiting = FALSE, !.replies = serv.replies - 1]
  BY <1>3 DEF ServiceOkay, Reading
<1>5. /\ serv'.in = serv.in /\ serv'.phase = serv.phase /\ serv'.remote = serv.remote /\ serv'.last = serv.last
      /\ serv'.closed = serv.closed /\ ~serv'.waiting /\ serv'.replies = serv.replies - 1
  BY <1>3, <1>4 DEF ServiceState
<1>6. AtWork(s)'
  BY <1>1, <1>5 DEF Serving, AtWork
<1>7. In(toDev') \cap Okays = {} /\ AtMostOne(toDev', Okays)
  BY <1>1, <1>2, OneTail DEF Serving, OnWire, m
<1>8. In(toHost) \cap To("WRTE", s) = {}
  BY <1>2 DEF Serving, OnWire
<1>9. OnWire(s)'
  BY <1>1, <1>2, <1>7, <1>8 DEF Serving, OnWire
<1>10. InStep(s)'
  <2>1. Bars(toDev', From("WRTE", s), Okays) /\ Bars(toDev', Asking(s), From("WRTE", s))
    BY <1>1, <1>2, BarsTail DEF Serving, InStep
  <2>2. Answering(s)' => Answering(s)
    <3>. SUFFICES ASSUME Answering(s)' PROVE Answering(s)
      OBVIOUS
    <3>1. serv'.replies # 0
      BY DEF Answering, Answered
    <3>2. serv.replies # 0 /\ serv.replies # 1
      BY <1>3, <1>5, <3>1
    <3>. QED BY <1>3, <3>2 DEF Answering, Answered
  <2>3. In(toDev') \subseteq In(toDev)
    BY <1>2
  <2>4. Outstanding(s)' => Outstanding(s)
    BY <1>5, <2>2, <2>3 DEF Outstanding
  <2>. QED BY <1>1, <1>5, <2>1, <2>2, <2>3, <2>4 DEF Serving, InStep
<1>. QED BY <1>6, <1>9, <1>10 DEF Serving

LEMMA ServingSend ==
  ASSUME Base, NEW s \in Syncs, Serving(s), ServiceSend
  PROVE  Serving(s)'
<1>0. s \in Streams /\ TypeInv
  BY SyncStream DEF Base
<1>1. /\ toDev' = toDev /\ host' = host /\ pc = "service" /\ pc' = pc
      /\ serv.phase = "reply" /\ ~serv.waiting /\ serv.replies > 0
      /\ serv' = [serv EXCEPT !.waiting = TRUE]
  BY DEF ServiceSend
<1>2. serv \in ServiceState /\ serv.replies \in Nat
  BY ServiceWaits
<1>3. /\ serv'.in = serv.in /\ serv'.phase = serv.phase /\ serv'.remote = serv.remote /\ serv'.last = serv.last
      /\ serv'.closed = serv.closed /\ serv'.waiting /\ serv'.replies = serv.replies
  BY <1>1, <1>2 DEF ServiceState
<1>4. In(toDev) \cap From("OKAY", s) = {} /\ In(toHost) \cap To("WRTE", s) = {}
  BY <1>1 DEF Serving, OnWire
<1>5. PICK x \in {"none", "last", "text", "more"} :
        /\ toHost' = toHost \o <<Msg("WRTE", serv.local, serv.remote, <<x>>)>>
        /\ x = "last" => serv.replies = 1
  BY <1>2 DEF ServiceSend, Send, ServiceState
<1>. DEFINE o == Msg("WRTE", serv.local, serv.remote, <<x>>)
<1>6. /\ o \in FromDevice /\ toHost' = Append(toHost, o) /\ In(toHost') = In(toHost) \cup {o}
      /\ o.cmd = "WRTE" /\ o.data = <<x>>
  <2>1. <<x>> \in Seq(Datum)
    BY DEF Datum, Words
  <2>2. o \in FromDevice
    BY <1>1, <2>1, ServiceType, Messages DEF Base
  <2>. QED BY <1>0, <1>5, <2>2, Sending DEF Msg
<1>. HIDE DEF o
<1>7. AtWork(s)'
  BY <1>1, <1>3 DEF Serving, AtWork
<1>8. OnWire(s)'
  <2>1. AtMostOne(toHost', To("WRTE", s))
    <3>1. toHost \in Seq(FromDevice) /\ AtMostOne(toHost, To("WRTE", s))
      BY <1>0 DEF TypeInv, Serving, OnWire
    <3>. QED BY <1>4, <1>6, <3>1, OneAppend
  <2>2. \A y \in In(toHost') : y.arg1 = s => y.cmd # "CLSE"
    BY <1>6 DEF Serving, OnWire
  <2>3. ASSUME NEW y \in In(toHost') \cap To("WRTE", s), y.data = <<"last">> PROVE serv'.replies = 1
    <3>1. y = o
      BY <1>4, <1>6
    <3>2. x = "last"
      BY <1>6, <2>3, <3>1
    <3>. QED BY <1>3, <1>5, <3>2
  <2>. QED BY <1>1, <1>3, <1>4, <2>1, <2>2, <2>3 DEF Serving, OnWire
<1>9. InStep(s)'
  <2>1. serv.replies # 0
    BY <1>1, <1>2
  <2>2. Answering(s)
    BY <1>1, <1>4, <2>1 DEF Answering, Answered
  <2>3. Outstanding(s)
    BY <2>2 DEF Outstanding
  <2>. QED BY <1>1, <1>3, <2>2, <2>3 DEF Serving, InStep
<1>. QED BY <1>7, <1>8, <1>9 DEF Serving

LEMMA ServingReplied ==
  ASSUME Base, NEW s \in Syncs, Serving(s), Replied
  PROVE  Serving(s)'
<1>1. /\ toDev' = toDev /\ toHost' = toHost /\ host' = host /\ pc' = pc
      /\ serv.phase = "reply" /\ ~serv.waiting /\ serv.last = "last" /\ serv.in = <<>>
      /\ serv' = [serv EXCEPT !.phase = "cmd"]
  BY DEF Replied, net, Serving, AtWork
<1>2. serv \in ServiceState
  BY ServiceWaits
<1>3. /\ serv'.in = serv.in /\ serv'.phase = "cmd" /\ serv'.remote = serv.remote
      /\ serv'.closed = serv.closed /\ serv'.waiting = serv.waiting /\ serv'.replies = serv.replies
  BY <1>1, <1>2 DEF ServiceState
<1>4. AtWork(s)'
  BY <1>1, <1>3 DEF Serving, AtWork
<1>5. OnWire(s)'
  BY <1>1, <1>3 DEF Serving, OnWire
<1>6. InStep(s)'
  <2>1. ~Answering(s)'
    BY <1>3 DEF Answering
  <2>2. Outstanding(s)' => Outstanding(s)
    BY <1>1, <1>3, <2>1 DEF Outstanding
  <2>. QED BY <1>1, <1>3, <2>1, <2>2 DEF Serving, InStep
<1>. QED BY <1>4, <1>5, <1>6 DEF Serving

LEMMA ServingItem ==
  ASSUME Base, NEW s \in Syncs, Serving(s), SyncItem
  PROVE  Serving(s)'
<1>1. /\ toDev' = toDev /\ toHost' = toHost /\ host' = host /\ pc' = pc
      /\ serv.phase # "reply" /\ ~serv.waiting /\ serv.in # <<>> /\ serv.in \in Seq(Datum)
      /\ host[s].state # "opening"
  BY ServiceWaits DEF SyncItem, net, Serving, AtWork
<1>2. serv \in ServiceState
  BY ServiceWaits
<1>3. /\ ~Quits(Tail(serv.in)) /\ AsksLast(Tail(serv.in)) /\ (Asks(Tail(serv.in)) => Asks(serv.in))
      /\ Head(serv.in) # "quit"
      /\ Head(serv.in) \in Requested => Asks(serv.in) /\ Tail(serv.in) = <<>>
  BY <1>1, TailItems DEF Serving, AtWork
<1>4. In(toDev) \cap From("OKAY", s) = {} /\ In(toHost) \cap To("WRTE", s) = {}
  BY <1>1 DEF Serving, OnWire
<1>5. /\ serv'.in = Tail(serv.in) /\ serv'.remote = serv.remote /\ serv'.closed = serv.closed
      /\ ~serv'.waiting
      /\ \/ serv'.phase = "data"
         \/ serv'.phase = "reply" /\ serv'.last = "last" /\ Head(serv.in) \in Requested
  <2>1. CASE serv' = [serv EXCEPT !.in = Tail(@), !.phase = "data"]
    BY <1>1, <1>2, <2>1 DEF ServiceState
  <2>2. CASE serv.phase = "data" /\ serv' = [serv EXCEPT !.in = Tail(@)]
    BY <1>1, <1>2, <2>2 DEF ServiceState
  <2>3. ASSUME NEW n, Reply(n), Head(serv.in) \in Requested
        PROVE  /\ serv'.in = Tail(serv.in) /\ serv'.remote = serv.remote /\ serv'.closed = serv.closed
               /\ ~serv'.waiting /\ serv'.phase = "reply" /\ serv'.last = "last"
    BY <1>1, <1>2, <2>3 DEF Reply, ServiceState
  <2>4. Head(serv.in) \in {"ask", "done"} => Head(serv.in) \in Requested
    BY DEF Requested
  <2>. QED BY <1>3, <2>1, <2>2, <2>3, <2>4 DEF SyncItem
<1>6. AtWork(s)'
  BY <1>1, <1>3, <1>5 DEF Serving, AtWork
<1>7. OnWire(s)'
  BY <1>1, <1>4, <1>5 DEF Serving, OnWire
<1>8. InStep(s)'
  <2>1. Answering(s)' => Asks(serv.in)
    BY <1>3, <1>5 DEF Answering
  <2>2. Outstanding(s)' => Outstanding(s)
    BY <1>1, <1>3, <1>5, <2>1 DEF Outstanding
  <2>. QED BY <1>1, <1>3, <1>5, <2>1, <2>2 DEF Serving, InStep
<1>. QED BY <1>6, <1>7, <1>8 DEF Serving

(* The host reads what it knows nothing of or what changes nothing for the service. *)
LEMMA ServingLess ==
  ASSUME Base, NEW s \in Syncs, Serving(s), UNCHANGED <<pc, serv, toDev>>,
         toHost' = toHost \/ (toHost # <<>> /\ toHost' = Tail(toHost)),
         host'[s].state \in {host[s].state, "open"},
         host'[s].sent = host[s].sent, host'[s].answered = host[s].answered
  PROVE  Serving(s)'
<1>1. In(toHost') \subseteq In(toHost) /\ AtMostOne(toHost', To("WRTE", s))
  <2>1. toHost \in Seq(FromDevice) /\ AtMostOne(toHost, To("WRTE", s))
    BY DEF Base, TypeInv, Serving, OnWire
  <2>2. CASE toHost # <<>> /\ toHost' = Tail(toHost)
    <3>1. In(toHost) = In(Tail(toHost)) \cup {Head(toHost)}
      BY <2>1, <2>2, InTail
    <3>2. AtMostOne(Tail(toHost), To("WRTE", s))
      BY <2>1, <2>2, OneTail
    <3>. QED BY <2>2, <3>1, <3>2
  <2>. QED BY <2>1, <2>2
<1>2. AtWork(s)'
  BY DEF Serving, AtWork
<1>3. OnWire(s)'
  BY <1>1 DEF Serving, OnWire
<1>4. InStep(s)'
  <2>1. (Answering(s)' <=> Answering(s)) /\ (Outstanding(s)' <=> Outstanding(s))
    BY DEF Answering, Answered, Outstanding
  <2>. QED BY <2>1 DEF Serving, InStep
<1>. QED BY <1>2, <1>3, <1>4 DEF Serving

LEMMA ServingHears ==
  ASSUME Base, Alone, [Next]_vars, NEW s \in Syncs, Solo(s), Busy(s), Busy(s)', Serving(s), HostRecv
  PROVE  Serving(s)'
<1>0. s \in Streams /\ s \notin Shells /\ TypeInv /\ UNCHANGED daemonVars
  BY SyncStream, HostHears DEF Base
<1>1. PICK m \in FromDevice, t \in Streams :
        /\ m = Head(toHost) /\ t = m.arg1 /\ toHost # <<>>
        /\ toHost' = Tail(toHost) /\ In(toHost) = In(toHost') \cup {m}
        /\ \A u \in Streams \ {t} : host'[u] = host[u]
        /\ \/ HearsFirst(m, t) \/ HearsOkay(m, t) \/ HearsWrite(m, t) \/ HearsClose(m, t)
           \/ HearsNothing(m, t)
  BY <1>0, HostHears
<1>2. pc' = pc /\ serv' = serv
  BY <1>0 DEF daemonVars
<1>3. /\ host[s].answered \in Nat
      /\ \/ host'[s].answered = host[s].answered
         \/ /\ m.cmd = "WRTE" /\ t = s /\ m.data = <<"last">>
            /\ host'[s].answered = host[s].answered + 1
  BY <1>0, <1>1, HostCounts
<1>4. CASE t # s
  <2>1. HearsNothing(m, t) /\ host'[s] = host[s]
    <3>1. ~Busy(t)
      BY <1>4, NoOther
    <3>. QED BY <1>0, <1>1, <1>4, <3>1 DEF Busy, Known, HearsFirst, HearsOkay, HearsWrite, HearsClose
  <2>. QED BY <1>1, <1>2, <2>1, ServingLess DEF HearsNothing
<1>5. CASE t = s /\ (HearsFirst(m, s) \/ HearsOkay(m, s))
  <2>1. host'[s].answered = host[s].answered
    BY <1>3, <1>5 DEF HearsFirst, HearsOkay
  <2>. QED BY <1>1, <1>2, <1>5, <2>1, ServingLess DEF HearsFirst, HearsOkay
<1>6. CASE t = s /\ HearsNothing(m, s)
  BY <1>1, <1>2, <1>6, ServingLess DEF HearsNothing
<1>7. CASE t = s /\ HearsClose(m, s)
  <2>1. m \in In(toHost) /\ m.cmd = "CLSE" /\ m.arg1 = s
    BY <1>1, <1>7 DEF HearsClose
  <2>. QED BY <2>1 DEF Serving, OnWire
<1>8. CASE t = s /\ HearsWrite(m, s)
  <2>. DEFINE o == Msg("OKAY", s, m.arg0, <<>>)
  <2>1. m \in In(toHost) \cap To("WRTE", s)
    BY <1>1, <1>8 DEF HearsWrite, To
  <2>2. /\ serv.waiting /\ serv.replies > 0 /\ serv.phase = "reply" /\ serv.replies \in Nat /\ serv.in = <<>>
        /\ In(toDev) \cap From("OKAY", s) = {} /\ (m.data = <<"last">> => serv.replies = 1)
    BY <2>1, ServiceWaits DEF Serving, OnWire, AtWork
  <2>3. Answering(s) /\ In(toDev) \cap From("WRTE", s) = {} /\ In(toDev) = {}
    <3>1. serv.replies # 0
      BY <2>2
    <3>. QED BY <2>2, <3>1, NothingAsked
  <2>4. /\ o \in From("OKAY", s) /\ o \in FromHost /\ o.cmd = "OKAY" /\ toDev \in Seq(FromHost)
        /\ toDev' = Append(toDev, o) /\ In(toDev') = {o}
    <3>1. o \in FromHost
      BY <1>0, HostMessages DEF FromDevice
    <3>. QED BY <1>0, <1>8, <2>3, <3>1 DEF HearsWrite, From, Msg, TypeInv
  <2>. HIDE DEF o
  <2>5. In(toHost') \cap To("WRTE", s) = {} /\ AtMostOne(toHost', To("WRTE", s))
    <3>1. toHost \in Seq(FromDevice) /\ AtMostOne(toHost, To("WRTE", s))
      BY <1>0 DEF TypeInv, Serving, OnWire
    <3>. QED BY <1>1, <2>1, <3>1, OneTail
  <2>6. host'[s].state = "open" /\ host'[s].sent = host[s].sent
    BY <1>8 DEF HearsWrite
  <2>7. AtWork(s)'
    BY <1>2, <2>6 DEF Serving, AtWork
  <2>8. o \notin From("WRTE", s) /\ o \notin Asking(s)
    BY <2>4 DEF From, Asking
  <2>9. OnWire(s)'
    <3>1. AtMostOne(toDev', From("OKAY", s))
      BY <2>2, <2>4, OneAppend DEF Serving, OnWire
    <3>2. In(toHost') \subseteq In(toHost)
      BY <1>1
    <3>. QED BY <1>2, <2>2, <2>4, <2>5, <2>8, <3>1, <3>2 DEF Serving, OnWire
  <2>10. InStep(s)'
    <3>1. /\ Bars(toDev', From("WRTE", s), From("OKAY", s))
          /\ Bars(toDev', Asking(s), From("WRTE", s))
      <4>1. Bars(toDev, From("WRTE", s), From("OKAY", s)) /\ Bars(toDev, Asking(s), From("WRTE", s))
        BY DEF Serving, InStep
      <4>. QED BY <2>3, <2>4, <2>8, <4>1, BarsAppend
    <3>2. In(toDev') \cap From("WRTE", s) = {} /\ In(toDev') \cap Asking(s) = {}
      BY <2>4, <2>8
    <3>3. Outstanding(s)
      BY <2>3 DEF Outstanding
    <3>4. host[s].answered < Requests(host[s].sent) /\ Requests(host[s].sent) \in Nat
      <4>1. host[s].sent \in Nat
        BY <1>0, HostType
      <4>. QED BY <3>3, <4>1, RequestsGrow DEF Serving, InStep
    <3>5. host'[s].answered <= Requests(host'[s].sent)
      BY <1>3, <2>6, <3>4
    <3>6. CASE host'[s].answered = host[s].answered
      BY <2>6, <3>1, <3>2, <3>4, <3>5, <3>6 DEF InStep
    <3>7. CASE m.data = <<"last">>
      <4>1. ~Answering(s)'
        BY <1>2, <2>2, <2>4, <3>7 DEF Answering, Answered
      <4>2. ~Asks(serv'.in)
        BY <1>2, <2>2 DEF Asks
      <4>3. ~Outstanding(s)'
        BY <3>2, <4>1, <4>2 DEF Outstanding
      <4>. QED BY <3>1, <3>2, <3>5, <4>3 DEF InStep
    <3>. QED BY <1>3, <3>6, <3>7
  <2>. QED BY <2>7, <2>9, <2>10 DEF Serving
<1>. QED BY <1>1, <1>4, <1>5, <1>6, <1>7, <1>8

(* The host writes once the answer it waits for is there. *)
LEMMA ServingAsked ==
  ASSUME Base, QuitsLast, [Next]_vars, NEW s \in Syncs, Serving(s), HostWrite(s), ~Done(s)'
  PROVE  Serving(s)'
<1>0. s \in Streams /\ TypeInv /\ UNCHANGED daemonVars /\ toHost' = toHost /\ toDev \in Seq(FromHost)
  BY SyncStream, HostActs DEF Base, TypeInv
<1>1. PICK data \in Items(s) :
        /\ toDev' = Append(toDev, Msg("WRTE", s, host[s].peer, data))
        /\ host' = [host EXCEPT ![s].credit = FALSE, ![s].sent = @ + Len(data),
             ![s].ahead = @ \/ (s \in Syncs /\ Requests(host[s].sent + Len(data) - 1) > host[s].answered)]
  BY DEF HostWrite
<1>2. /\ host'[s].state = host[s].state /\ host'[s].sent = host[s].sent + Len(data)
      /\ host'[s].answered = host[s].answered /\ host[s].answered \in Nat /\ host[s].sent \in Nat
      /\ host'[s].ahead = (host[s].ahead \/ (s \in Syncs /\ Requests(host[s].sent + Len(data) - 1) > host[s].answered))
  <2>1. host[s] \in HostState
    BY <1>0 DEF TypeInv
  <2>2. host'[s] = [host[s] EXCEPT !.credit = FALSE, !.sent = @ + Len(data),
          !.ahead = @ \/ (s \in Syncs /\ Requests(host[s].sent + Len(data) - 1) > host[s].answered)]
    BY <1>0, <1>1 DEF TypeInv
  <2>. QED BY <2>1, <2>2 DEF HostState
<1>3. /\ ~(Requests(host[s].sent + Len(data) - 1) > host[s].answered)
      /\ host[s].sent + Len(data) # Len(Script)
  BY <1>2 DEF Done
<1>4. /\ ~Quits(data) /\ AsksLast(data)
      /\ Requests(host[s].sent) <= host[s].answered
      /\ host[s].answered <= Requests(host[s].sent + Len(data))
      /\ Asks(data) => host[s].answered < Requests(host[s].sent + Len(data))
  BY <1>0, <1>2, <1>3, PatientData DEF Serving, InStep
<1>5. ~Outstanding(s)
  <2>1. Requests(host[s].sent) \in Nat
    <3>1. host[s].sent \in 0..host[s].sent
      BY <1>2
    <3>. QED BY <1>2, <3>1, RequestsGrow
  <2>2. ~(host[s].answered < Requests(host[s].sent))
    BY <1>2, <1>4, <2>1
  <2>. QED BY <2>2 DEF Serving, InStep
<1>. DEFINE o == Msg("WRTE", s, host[s].peer, data)
<1>6. /\ o \in FromHost /\ o \in From("WRTE", s) /\ o \notin From("OKAY", s) /\ o.data = data
      /\ In(toDev') = In(toDev) \cup {o}
  <2>1. o \in FromHost
    BY <1>0, HostType, ItemsType, HostMessages
  <2>. QED BY <1>0, <1>1, <2>1, HostSending DEF From, Msg
<1>7. toDev' = Append(toDev, o)
  BY <1>1
<1>. HIDE DEF o
<1>8. pc' = pc /\ serv' = serv
  BY <1>0 DEF daemonVars
<1>9. AtWork(s)'
  BY <1>2, <1>8 DEF Serving, AtWork
<1>10. OnWire(s)'
  <2>1. AtMostOne(toDev', From("OKAY", s))
    BY <1>0, <1>6, <1>7, OneAppend DEF Serving, OnWire
  <2>2. In(toDev') \cap From("OKAY", s) = In(toDev) \cap From("OKAY", s)
    BY <1>6
  <2>3. \A x \in In(toDev') : x \in From("OKAY", s) \cup From("WRTE", s)
    BY <1>6 DEF Serving, OnWire
  <2>4. \A x \in In(toDev') \cap From("WRTE", s) : ~Quits(x.data) /\ AsksLast(x.data)
    BY <1>4, <1>6 DEF Serving, OnWire
  <2>. QED BY <1>0, <1>8, <2>1, <2>2, <2>3, <2>4 DEF Serving, OnWire
<1>11. InStep(s)'
  <2>1. In(toDev) \cap Asking(s) = {} /\ ~Asks(serv.in) /\ ~Answering(s)
    BY <1>5 DEF Outstanding
  <2>2. /\ Bars(toDev', From("WRTE", s), From("OKAY", s))
        /\ Bars(toDev', Asking(s), From("WRTE", s))
    <3>1. Bars(toDev, From("WRTE", s), From("OKAY", s)) /\ Bars(toDev, Asking(s), From("WRTE", s))
      BY DEF Serving, InStep
    <3>. QED BY <1>0, <1>6, <1>7, <2>1, <3>1, BarsAppend
  <2>3. ~Asks(serv'.in) /\ ~Answering(s)'
    <3>1. In(toDev') \cap From("OKAY", s) = In(toDev) \cap From("OKAY", s)
      BY <1>6
    <3>. QED BY <1>8, <2>1, <3>1 DEF Answering, Answered
  <2>4. Outstanding(s)' => Asks(data)
    BY <1>6, <2>1, <2>3 DEF Outstanding, Asking
  <2>. QED BY <1>2, <1>4, <2>2, <2>3, <2>4 DEF InStep
<1>. QED BY <1>9, <1>10, <1>11 DEF Serving

LEMMA ServingStep ==
  ASSUME Base, Alone, QuitsLast, [Next]_vars, NEW s \in Syncs, Solo(s), Serving(s),
         link', Busy(s), Busy(s)', ~Done(s)'
  PROVE  Serving(s)'
<1>0. s \in Streams /\ TypeInv /\ link /\ pc = "service" /\ serv.phase # "end"
  BY SyncStream, LinkGoes DEF Base, Serving, AtWork
<1>1. CASE Transport
  <2>1. ~ServiceClose /\ ~ServiceDrops
    BY HeadServed DEF ServiceClose, ServiceDrops, Recv
  <2>2. ~ServiceEnds /\ ~TransportEnds
    BY <1>0 DEF ServiceEnds, TransportEnds
  <2>3. ~RecvOpen /\ ~RecvOkay /\ ~RecvWrite /\ ~WriteFull /\ ~RecvClose
    BY <1>0 DEF RecvOpen, RecvOkay, RecvWrite, WriteFull, RecvClose, Recv
  <2>4. \A c \in Slots : ~PtyOutput(c) /\ ~PtyEnds(c)
    BY <1>0 DEF PtyOutput, PtyEnds
  <2>. QED BY <1>1, <2>1, <2>2, <2>3, <2>4, ServingWrite, ServingOkay, ServingSend, ServingReplied, ServingItem
         DEF Transport
<1>2. CASE HostRecv
  BY <1>2, ServingHears
<1>3. ASSUME NEW t \in Streams, HostOpen(t) \/ HostWrite(t) \/ HostClose(t) PROVE Serving(s)'
  <2>1. t = s
    BY <1>3, NoOther
  <2>2. ~HostOpen(s) /\ ~HostClose(s)
    <3>1. ~HostOpen(s)
      BY DEF HostOpen, Busy
    <3>2. HostClose(s) => host'[s] = [host[s] EXCEPT !.state = "closed"] /\ host[s] \in HostState
      BY <1>0 DEF HostClose, TypeInv
    <3>3. HostClose(s) => host'[s].state = "closed"
      BY <3>2 DEF HostState
    <3>. QED BY <3>1, <3>3 DEF Busy
  <2>. QED BY <1>3, <2>1, <2>2, ServingAsked
<1>4. ~Disconnect
  BY DEF Disconnect
<1>5. CASE CommandStep \/ UNCHANGED vars
  <2>1. UNCHANGED <<pc, serv, toDev, toHost, host>>
    BY <1>5 DEF CommandStep, CommandReads, CommandWrites, CommandExits, vars, net
  <2>. QED BY <2>1, ServingLess
<1>. QED BY <1>1, <1>2, <1>3, <1>4, <1>5, ThreeParts DEF HostStep

LEMMA PatientInit == Init => PatientInv
<1>. SUFFICES ASSUME Init, NEW s \in Syncs PROVE Patient(s)
  BY DEF PatientInv
<1>1. host[s].state = "new" /\ host[s].sent = 0 /\ host[s].answered = 0 /\ host[s].ahead = FALSE
  BY SyncStream DEF Init
<1>. QED BY <1>1 DEF Patient, Solo, Busy

LEMMA PatientStep == Base /\ Alone /\ QuitsLast /\ PatientInv /\ [Next]_vars => PatientInv'
<1>. SUFFICES ASSUME Base, Alone, QuitsLast, [Next]_vars, NEW s \in Syncs, Patient(s) PROVE Patient(s)'
  BY DEF PatientInv
<1>0. s \in Streams /\ TypeInv /\ Solo(s)
  BY SyncStream DEF Base, Patient
<1>1. Solo(s)'
  BY <1>0, SoloStep
<1>2. ASSUME link', Busy(s)', ~Done(s)', Heard(s)' PROVE Serving(s)'
  <2>1. Busy(s) /\ ~Done(s) /\ link
    BY <1>2, BusyBefore, DoneStays, LinkGoes
  <2>2. CASE RecvOpen /\ Head(toDev).arg0 = s
    BY <1>0, <1>2, <2>1, <2>2, ServingOpen
  <2>3. CASE ~(RecvOpen /\ Head(toDev).arg0 = s)
    <3>1. Heard(s)
      BY <1>2, <2>3, HeardBefore
    <3>. QED BY <1>0, <1>2, <2>1, <3>1, ServingStep DEF Patient
  <2>. QED BY <2>2, <2>3
<1>3. ASSUME host'[s].state = "ended", host'[s].peer # 0 PROVE Done(s)'
  <2>1. CASE host[s].state = "ended" /\ host[s].peer # 0
    BY <2>1, DoneStays DEF Patient
  <2>2. CASE /\ host[s].state \in {"opening", "open"} /\ host'[s].peer = host[s].peer /\ link
             /\ toHost # <<>> /\ Head(toHost) \in Closing(s)
    <3>1. Busy(s) /\ host[s].peer # 0 /\ host[s].peer \in Nat
      BY <1>0, <1>3, <2>2, HostType DEF Busy
    <3>2. Heard(s)
      BY <3>1 DEF Heard, Paired
    <3>3. Head(toHost) \in In(toHost) /\ Head(toHost).cmd = "CLSE" /\ Head(toHost).arg1 = s
      BY <1>0, <2>2, HeadOfDaemon DEF Closing
    <3>4. ~Serving(s)
      BY <3>3 DEF Serving, OnWire
    <3>5. Done(s)
      BY <2>2, <3>1, <3>2, <3>4 DEF Patient
    <3>. QED BY <3>5, DoneStays
  <2>. QED BY <1>0, <1>3, <2>1, <2>2, HostMoves
<1>. QED BY <1>1, <1>2, <1>3 DEF Patient

(* handle_sync_service keeps a stream until QUIT for a host that waits for each answer, whatever
   it pushes, lists or stats and however the writes are cut.  Without Alone it is not so: the
   service takes the CLSE of any stream for that of its own. *)
THEOREM PatientIsServed == Alone /\ QuitsLast /\ Spec => []PatientHostServed
<1>. SUFFICES ASSUME Alone, QuitsLast PROVE Spec => []PatientHostServed
  OBVIOUS
<1>1. Init => Inv /\ PatientInv
  BY InvInit, PatientInit
<1>2. Inv /\ PatientInv /\ [Next]_vars => (Inv /\ PatientInv)'
  BY InvStep, PatientStep DEF Inv, Wire
<1>3. PatientInv => PatientHostServed
  BY DEF PatientInv, Patient, PatientHostServed, Done
<1>. QED BY <1>1, <1>2, <1>3, PTL DEF Spec
==============================================================================
