----------------------------- MODULE AdbTransport -----------------------------
(***************************************************************************)
(* nq-adbd-lite, one connection of the small ADB daemon: handle_transport  *)
(* and the services it calls.  The host opens streams; the daemon gives    *)
(* each a local id.  A shell stream has a channel with a pseudo-terminal   *)
(* between the daemon and the command; a sync stream (push, pull, list,    *)
(* stat) is served by a loop of its own that reads the whole connection    *)
(* until the stream ends, and so are the short text services.  The host    *)
(* keeps to the ADB protocol: after a WRTE it waits for the OKAY before it *)
(* sends the next one of that stream.                                      *)
(***************************************************************************)
EXTENDS Naturals, Sequences, FiniteSets

CONSTANTS
  Shells, Syncs, Texts,  \* the streams of the host, by the service they ask for
  Script,                \* what a sync stream sends: "ask" (STAT, LIST, RECV), "send", "data", "done", then "quit"
  Answers,               \* bound on the WRTEs that answer an "ask"
  MaxIn,                 \* bound on the chunks a shell stream sends
  MaxChannels,           \* MAX_SHELL_CHANNELS
  PtyIn, PtyOut,         \* chunks a pseudo-terminal holds in each direction
  Pack,                  \* bound on the sync items that share a WRTE
  Pipelined,             \* the host sends requests before the last one is answered
  Overlap,               \* the host has other streams open beside a sync or text stream
  Drops                  \* the connection may break

Streams == Shells \cup Syncs \cup Texts
Slots == 1..MaxChannels

ASSUME AdbAssumption ==
  /\ 0 \notin Streams     \* an id of the protocol is not zero
  /\ Shells \cap (Syncs \cup Texts) = {} /\ Syncs \cap Texts = {}
  /\ Script \in Seq({"ask", "send", "data", "done", "quit"})
  /\ MaxIn \in Nat /\ Answers \in Nat \ {0}
  /\ MaxChannels \in Nat \ {0} /\ PtyIn \in Nat \ {0} /\ PtyOut \in Nat \ {0}
  /\ Pack \in Nat \ {0} /\ Pipelined \in BOOLEAN /\ Overlap \in BOOLEAN /\ Drops \in BOOLEAN

VARIABLES
  link,            \* the TCP connection is up
  toDev, toHost,   \* what each side has sent and the other has not read
  pc,              \* where handle_transport is: in select, write_full, a service, or gone
  nextId,          \* next_local_id
  chan,            \* channels[]
  pty,             \* the pseudo-terminal of each channel and the command behind it
  pending,         \* the write_full to a pseudo-terminal that is under way
  serv,            \* the struct adb_stream of the service, and what it is doing
  host,            \* the host's side of each stream
  given, made      \* history: chunks that commands have read, and written

vars == <<link, toDev, toHost, pc, nextId, chan, pty, pending, serv, host, given, made>>
net == <<toDev, toHost>>
channels == <<chan, pty, pending>>
history == <<given, made>>

Msg(cmd, arg0, arg1, data) == [cmd |-> cmd, arg0 |-> arg0, arg1 |-> arg1, data |-> data]
Closed == [open |-> FALSE, canSend |-> FALSE, local |-> 0, remote |-> 0]
NoPty == [in |-> <<>>, out |-> <<>>, held |-> <<>>, alive |-> FALSE]
NoService == [local |-> 0, remote |-> 0, in |-> <<>>, phase |-> "end", replies |-> 0,
              waiting |-> FALSE, last |-> "none", closed |-> TRUE]
-------------------------------------------------------------------------------
(* The host. *)

Busy(s) == host[s].state \in {"opening", "open"}

HostOpen(s) ==
  /\ link /\ host[s].state = "new"
  /\ \/ Overlap
     \/ \A t \in Streams : Busy(t) => {s, t} \subseteq Shells
  /\ host' = [host EXCEPT ![s].state = "opening"]
  /\ toDev' = Append(toDev, Msg("OPEN", s, 0, <<>>))
  /\ UNCHANGED <<link, toHost, pc, nextId, channels, serv, history>>

(* The requests among the first n items of the script. *)
Requests(n) == Cardinality({i \in 1..n : Script[i] \in {"ask", "done"}})

Items(s) ==
  LET n == host[s].sent
      more == {k \in 1..Pack :
                 /\ s \in Syncs /\ n + k <= Len(Script)
                 /\ Pipelined \/ Requests(n + k - 1) = host[s].answered}
  IN  {SubSeq(Script, n + 1, n + k) : k \in more}
        \cup {<< <<s, k>> >> : k \in {j \in {n + 1} : s \in Shells /\ j <= MaxIn}}

HostWrite(s) ==
  /\ link /\ host[s].state = "open" /\ host[s].credit
  /\ \E data \in Items(s) :
       /\ toDev' = Append(toDev, Msg("WRTE", s, host[s].peer, data))
       /\ LET early == s \in Syncs /\ Requests(host[s].sent + Len(data) - 1) > host[s].answered
          IN  host' = [host EXCEPT ![s].credit = FALSE, ![s].sent = @ + Len(data),
                                   ![s].ahead = @ \/ early]
  /\ UNCHANGED <<link, toHost, pc, nextId, channels, serv, history>>

HostClose(s) ==
  /\ link /\ host[s].state = "open"
  /\ host' = [host EXCEPT ![s].state = "closed"]
  /\ toDev' = Append(toDev, Msg("CLSE", s, host[s].peer, <<>>))
  /\ UNCHANGED <<link, toHost, pc, nextId, channels, serv, history>>

Notice == <<0, 0>>   \* "failed to spawn shell"

HostRecv ==
  /\ link /\ toHost # <<>>
  /\ LET m == Head(toHost)
         s == m.arg1
         known == host[s].state = "open" /\ host[s].peer = m.arg0
     IN  /\ toHost' = Tail(toHost)
         /\ \/ /\ m.cmd = "OKAY"
               /\ host' = IF host[s].state = "opening"
                          THEN [host EXCEPT ![s].state = "open", ![s].peer = m.arg0,
                                            ![s].credit = TRUE]
                          ELSE IF known THEN [host EXCEPT ![s].credit = TRUE] ELSE host
               /\ UNCHANGED toDev
            \/ /\ m.cmd = "WRTE" /\ known
               /\ host' = IF s \in Shells THEN [host EXCEPT ![s].got = @ \o m.data]
                          ELSE IF m.data = <<"last">> THEN [host EXCEPT ![s].answered = @ + 1]
                          ELSE host
               /\ toDev' = Append(toDev, Msg("OKAY", s, m.arg0, <<>>))
            \/ /\ m.cmd = "CLSE" /\ (host[s].state = "opening" \/ known)
               /\ host' = [host EXCEPT ![s].state = "ended"]
               /\ toDev' = IF known THEN Append(toDev, Msg("CLSE", 0, m.arg0, <<>>)) ELSE toDev
            \/ /\ m.cmd # "OKAY" /\ ~known /\ (m.cmd = "CLSE" => host[s].state # "opening")
               /\ UNCHANGED <<host, toDev>>
  /\ UNCHANGED <<link, pc, nextId, channels, serv, history>>

Disconnect ==
  /\ Drops /\ link
  /\ link' = FALSE
  /\ UNCHANGED <<net, pc, nextId, channels, serv, host, history>>

-------------------------------------------------------------------------------
(* handle_transport: the loop around select. *)

Send(messages) == toHost' = toHost \o messages

OpenSlots == {c \in Slots : chan[c].open}
ChannelOf(id) == {c \in OpenSlots : chan[c].local = id}

(* close_shell_channel: the terminal goes, and the command is hung up. *)
CloseChannels(cs) ==
  /\ chan' = [c \in Slots |-> IF c \in cs THEN Closed ELSE chan[c]]
  /\ pty' = [c \in Slots |-> IF c \in cs THEN NoPty ELSE pty[c]]

PtyOutput(c) ==
  /\ pc = "select" /\ chan[c].open /\ chan[c].canSend /\ pty[c].out # <<>>
  /\ Send(<<Msg("WRTE", chan[c].local, chan[c].remote, pty[c].out)>>)
  /\ pty' = [pty EXCEPT ![c].out = <<>>]
  /\ chan' = [chan EXCEPT ![c].canSend = FALSE]
  /\ UNCHANGED <<link, toDev, pc, nextId, pending, serv, host, history>>

(* Mutant: the end of the command closes the stream before its last output is read. *)
EndBeforeOutput(c) ==
  /\ pc = "select" /\ chan[c].open /\ chan[c].canSend /\ ~pty[c].alive
  /\ Send(<<Msg("CLSE", chan[c].local, chan[c].remote, <<>>)>>)
  /\ CloseChannels({c})
  /\ UNCHANGED <<link, toDev, pc, nextId, pending, serv, host, history>>

PtyEnds(c) ==
  /\ pc = "select" /\ chan[c].open /\ chan[c].canSend /\ pty[c].out = <<>> /\ ~pty[c].alive
  /\ Send(<<Msg("CLSE", chan[c].local, chan[c].remote, <<>>)>>)
  /\ CloseChannels({c})
  /\ UNCHANGED <<link, toDev, pc, nextId, pending, serv, host, history>>

(* The next message of the connection, in the loop around select or in a service. *)
Recv(where, cmd) ==
  /\ pc = where /\ toDev # <<>> /\ Head(toDev).cmd = cmd
  /\ toDev' = Tail(toDev)

Service(id, s, phase, last) ==
  [NoService EXCEPT !.local = id, !.remote = s, !.phase = phase, !.last = last,
                    !.replies = IF phase = "reply" THEN 1 ELSE 0, !.closed = FALSE]

(* Mutant: ids are handed out again once a channel is closed. *)
CountedId == Cardinality(OpenSlots) + 1

LocalId == nextId

FirstFree == CHOOSE c \in Slots \ OpenSlots : \A d \in Slots \ OpenSlots : c <= d

OpenShell(s) ==
  \/ /\ chan' = [chan EXCEPT ![FirstFree] = [open |-> TRUE, canSend |-> TRUE,
                                             local |-> LocalId, remote |-> s]]
     /\ pty' = [pty EXCEPT ![FirstFree] = [NoPty EXCEPT !.alive = TRUE]]
     /\ Send(<<Msg("OKAY", LocalId, s, <<>>)>>)
  \/ /\ Send(<<Msg("OKAY", LocalId, s, <<>>),      \* no pseudo-terminal, or fork fails
               Msg("WRTE", LocalId, s, <<Notice>>), Msg("CLSE", LocalId, s, <<>>)>>)
     /\ UNCHANGED <<chan, pty>>

OpenService(s, phase, last) ==
  /\ serv' = Service(LocalId, s, phase, last)
  /\ pc' = "service"
  /\ Send(<<Msg("OKAY", LocalId, s, <<>>)>>)

(* Mutant: an OPEN that finds no channel is not answered. *)
DropOpen(s) == UNCHANGED toHost

RefuseOpen(s) == Send(<<Msg("CLSE", 0, s, <<>>)>>)

(* No sync beside a shell, and no more shells than channels. *)
RecvOpen ==
  /\ Recv("select", "OPEN")
  /\ nextId' = nextId + 1
  /\ LET s == Head(toDev).arg0
         refused == \/ s \in Syncs /\ OpenSlots # {}
                    \/ s \in Shells /\ OpenSlots = Slots
     IN  \/ /\ refused /\ RefuseOpen(s)
            /\ UNCHANGED <<pc, serv, chan, pty>>
         \/ /\ ~refused /\ s \in Shells /\ OpenShell(s)
            /\ UNCHANGED <<pc, serv>>
         \/ /\ ~refused /\ s \in Syncs /\ OpenService(s, "cmd", "none")
            /\ UNCHANGED <<chan, pty>>
         \/ /\ s \in Texts /\ OpenService(s, "reply", "text")
            /\ UNCHANGED <<chan, pty>>
  /\ UNCHANGED <<link, pending, host, history>>

(* Mutant: an OKAY is credited to every channel. *)
OkayForAll ==
  /\ Recv("select", "OKAY")
  /\ chan' = [c \in Slots |-> [chan[c] EXCEPT !.canSend = chan[c].open]]
  /\ UNCHANGED <<link, toHost, pc, nextId, pty, pending, serv, host, history>>

RecvOkay ==
  /\ Recv("select", "OKAY")
  /\ chan' = [c \in Slots |-> [chan[c] EXCEPT !.canSend =
                                 @ \/ c \in ChannelOf(Head(toDev).arg1)]]
  /\ UNCHANGED <<link, toHost, pc, nextId, pty, pending, serv, host, history>>

RecvWrite ==
  /\ Recv("select", "WRTE")
  /\ LET m == Head(toDev)
     IN  \/ \E c \in ChannelOf(m.arg1) :
              /\ Send(<<Msg("OKAY", chan[c].local, chan[c].remote, <<>>)>>)
              /\ pending' = [slot |-> c, data |-> m.data]
              /\ pc' = "write"
         \/ /\ ChannelOf(m.arg1) = {}
            /\ Send(<<Msg("CLSE", m.arg1, m.arg0, <<>>)>>)
            /\ UNCHANGED <<pc, pending>>
  /\ UNCHANGED <<link, nextId, chan, pty, serv, host, history>>

(* write_full to the terminal: it waits for room, and fails once the command is gone. *)
WriteFull ==
  /\ pc = "write"
  /\ LET c == pending.slot
     IN  /\ pty[c].alive => Len(pty[c].in) < PtyIn
         /\ pty' = IF pty[c].alive THEN [pty EXCEPT ![c].in = @ \o pending.data] ELSE pty
  /\ pc' = "select"
  /\ pending' = [slot |-> 0, data |-> <<>>]
  /\ UNCHANGED <<link, net, nextId, chan, serv, host, history>>

RecvClose ==
  /\ Recv("select", "CLSE")
  /\ CloseChannels(ChannelOf(Head(toDev).arg1))
  /\ UNCHANGED <<link, toHost, pc, nextId, pending, serv, host, history>>

(* The connection ends: adb_recv or adb_send fails, and the process with it. *)
TransportEnds ==
  /\ ~link /\ pc \notin {"write", "gone"}
  /\ pc' = "gone"
  /\ CloseChannels(Slots)
  /\ UNCHANGED <<link, net, nextId, pending, serv, host, history>>

-------------------------------------------------------------------------------
(* The command behind a pseudo-terminal: a filter such as cat. *)

CommandReads(c) ==
  /\ pty[c].alive /\ pty[c].in # <<>> /\ pty[c].held = <<>>
  /\ pty' = [pty EXCEPT ![c].in = Tail(@), ![c].held = <<Head(pty[c].in)>>]
  /\ given' = [given EXCEPT ![chan[c].remote] = Append(@, Head(pty[c].in))]
  /\ UNCHANGED <<link, net, pc, nextId, chan, pending, serv, host, made>>

CommandWrites(c) ==
  /\ pty[c].alive /\ pty[c].held # <<>> /\ Len(pty[c].out) < PtyOut
  /\ pty' = [pty EXCEPT ![c].out = @ \o pty[c].held, ![c].held = <<>>]
  /\ made' = [made EXCEPT ![chan[c].remote] = @ \o pty[c].held]
  /\ UNCHANGED <<link, net, pc, nextId, chan, pending, serv, host, given>>

CommandExits(c) ==
  /\ pty[c].alive
  /\ pty' = [pty EXCEPT ![c].alive = FALSE]
  /\ UNCHANGED <<link, net, pc, nextId, chan, pending, serv, host, history>>

-------------------------------------------------------------------------------
(* handle_sync_service and handle_text_service, which read the connection themselves. *)

Abort == serv' = [serv EXCEPT !.phase = "end"]
Refuse(m) == Send(<<Msg("CLSE", serv.local, m.arg0, <<>>)>>)
Accept(m) ==
  /\ Send(<<Msg("OKAY", serv.local, serv.remote, <<>>)>>)
  /\ serv' = [serv EXCEPT !.in = m.data]

Reading == serv.phase \in {"cmd", "data"} /\ serv.in = <<>>
Waiting == serv.phase = "reply" /\ serv.waiting

(* stream_fill and stream_wait_okay: a WRTE of another stream is refused. *)
ServiceWrite ==
  /\ (Reading \/ Waiting)
  /\ Recv("service", "WRTE")
  /\ LET m == Head(toDev)
     IN  \/ /\ m.arg1 # serv.local
            /\ Refuse(m)
            /\ UNCHANGED serv
         \/ /\ m.arg1 = serv.local /\ serv.in = <<>>
            /\ Accept(m)
         \/ /\ m.arg1 = serv.local /\ serv.in # <<>>     \* stream_wait_okay gives up
            /\ Send(<<Msg("OKAY", serv.local, serv.remote, <<>>)>>)
            /\ Abort
  /\ UNCHANGED <<link, pc, nextId, channels, host, history>>

(* Any OKAY is taken for the one awaited. *)
ServiceOkay ==
  /\ (Reading \/ Waiting)
  /\ Recv("service", "OKAY")
  /\ serv' = IF Reading THEN serv
             ELSE [serv EXCEPT !.waiting = FALSE, !.replies = @ - 1]
  /\ UNCHANGED <<link, toHost, pc, nextId, channels, host, history>>

(* Any CLSE is taken for that of the stream. *)
ServiceClose ==
  /\ (Reading \/ Waiting)
  /\ Recv("service", "CLSE")
  /\ serv' = [serv EXCEPT !.closed = TRUE, !.phase = "end"]
  /\ UNCHANGED <<link, toHost, pc, nextId, channels, host, history>>

(* Any other message is read and dropped. *)
ServiceDrops ==
  /\ (Reading \/ Waiting)
  /\ Recv("service", "OPEN")
  /\ UNCHANGED <<link, toHost, pc, nextId, channels, serv, host, history>>

(* stream_send: one WRTE, then wait. *)
ServiceSend ==
  /\ pc = "service" /\ serv.phase = "reply" /\ ~serv.waiting /\ serv.replies > 0
  /\ Send(<<Msg("WRTE", serv.local, serv.remote,
                <<IF serv.replies = 1 THEN serv.last ELSE "more">>)>>)
  /\ serv' = [serv EXCEPT !.waiting = TRUE]
  /\ UNCHANGED <<link, toDev, pc, nextId, channels, host, history>>

(* Mutant: the service ends with the first answer. *)
RepliedOnce ==
  /\ pc = "service" /\ serv.phase = "reply" /\ ~serv.waiting /\ serv.replies = 0
  /\ Abort
  /\ UNCHANGED <<link, net, pc, nextId, channels, host, history>>

Replied ==
  /\ pc = "service" /\ serv.phase = "reply" /\ ~serv.waiting /\ serv.replies = 0
  /\ serv' = [serv EXCEPT !.phase = IF serv.last = "text" THEN "end" ELSE "cmd"]
  /\ UNCHANGED <<link, net, pc, nextId, channels, host, history>>

(* The next item of the sync protocol: a request, or a part of a file being pushed.  Whether
   a file could be opened or written only shows in the answer to its DONE. *)
Reply(n) == serv' = [serv EXCEPT !.in = Tail(@), !.phase = "reply", !.replies = n, !.last = "last"]

SyncItem ==
  /\ pc = "service" /\ serv.phase \in {"cmd", "data"} /\ serv.in # <<>>
  /\ LET op == Head(serv.in)
     IN  \/ /\ serv.phase = "cmd" /\ op = "quit"
            /\ serv' = [serv EXCEPT !.in = Tail(@), !.phase = "end"]
         \/ /\ serv.phase = "cmd" /\ op = "ask"
            /\ \E n \in 1..Answers : Reply(n)
         \/ /\ serv.phase = "cmd" /\ op = "send"
            /\ serv' = [serv EXCEPT !.in = Tail(@), !.phase = "data"]
         \/ /\ serv.phase = "data" /\ op = "data"
            /\ serv' = [serv EXCEPT !.in = Tail(@)]
         \/ /\ serv.phase = "data" /\ op = "done"
            /\ Reply(1)
  /\ UNCHANGED <<link, net, pc, nextId, channels, host, history>>

(* Mutant: the service ends without closing its stream. *)
EndSilently ==
  /\ pc = "service" /\ serv.phase = "end"
  /\ pc' = "select"
  /\ serv' = NoService
  /\ UNCHANGED <<link, net, nextId, channels, host, history>>

(* Mutant: the loop around select runs on with the state of the service. *)
EndKeepsService ==
  /\ pc = "service" /\ serv.phase = "end"
  /\ IF serv.closed THEN UNCHANGED toHost
     ELSE Send(<<Msg("CLSE", serv.local, serv.remote, <<>>)>>)
  /\ pc' = "select"
  /\ UNCHANGED <<link, toDev, nextId, channels, serv, host, history>>

ServiceEnds ==
  /\ pc = "service" /\ serv.phase = "end"
  /\ IF serv.closed THEN UNCHANGED toHost
     ELSE Send(<<Msg("CLSE", serv.local, serv.remote, <<>>)>>)
  /\ pc' = "select"
  /\ serv' = NoService
  /\ UNCHANGED <<link, toDev, nextId, channels, host, history>>

-------------------------------------------------------------------------------
Transport ==
  \/ RecvOpen \/ RecvOkay \/ RecvWrite \/ WriteFull \/ RecvClose \/ TransportEnds
  \/ \E c \in Slots : PtyOutput(c) \/ PtyEnds(c)
  \/ ServiceWrite \/ ServiceOkay \/ ServiceClose \/ ServiceDrops \/ ServiceSend
  \/ Replied \/ SyncItem \/ ServiceEnds
Command(c) == CommandReads(c) \/ CommandWrites(c)

Next ==
  \/ Transport \/ HostRecv \/ Disconnect
  \/ \E s \in Streams : HostOpen(s) \/ HostWrite(s) \/ HostClose(s)
  \/ \E c \in Slots : CommandReads(c) \/ CommandWrites(c) \/ CommandExits(c)

Init ==
  /\ link = TRUE /\ toDev = <<>> /\ toHost = <<>>
  /\ pc = "select" /\ nextId = 1
  /\ chan = [c \in Slots |-> Closed] /\ pty = [c \in Slots |-> NoPty]
  /\ pending = [slot |-> 0, data |-> <<>>]
  /\ serv = NoService
  /\ host = [s \in Streams |-> [state |-> "new", peer |-> 0, credit |-> FALSE, sent |-> 0,
                                answered |-> 0, ahead |-> FALSE, got |-> <<>>]]
  /\ given = [s \in Shells |-> <<>>] /\ made = [s \in Shells |-> <<>>]

Spec == Init /\ [][Next]_vars

(* The daemon and the commands run; the host reads what arrives and sends what it has to. *)
Fairness ==
  /\ WF_vars(Transport) /\ WF_vars(HostRecv)
  /\ \A c \in Slots : WF_vars(Command(c)) /\ WF_vars(PtyOutput(c))
  /\ \A s \in Streams : WF_vars(HostWrite(s))
FairSpec == Spec /\ Fairness

-------------------------------------------------------------------------------
(* Properties. *)

(* The type invariant; the channels that are open have different ids that were handed
   out, and handle_transport is where its state says it is. *)
TypeOK ==
  /\ link \in BOOLEAN /\ pc \in {"select", "write", "service", "gone"} /\ nextId \in Nat
  /\ \A i \in 1..Len(toDev) :
       toDev[i].cmd \in {"OPEN", "OKAY", "WRTE", "CLSE"} /\ Len(toDev[i].data) <= Pack + MaxIn
  /\ \A i \in 1..Len(toHost) :
       toHost[i].cmd \in {"OKAY", "WRTE", "CLSE"} /\ toHost[i].arg1 \in Streams
  /\ \A c, d \in OpenSlots : /\ chan[c].local < nextId /\ chan[c].remote \in Shells
                             /\ chan[c].local = chan[d].local => c = d
  /\ \A c \in Slots : pty[c].alive => chan[c].open
  /\ pc = "write" <=> pending.slot # 0
  /\ pc = "select" => serv = NoService

IsPrefixOf(a, b) == Len(a) <= Len(b) /\ \A i \in 1..Len(a) : a[i] = b[i]

(* What a command has read from its terminal is what the host wrote to that stream, from
   the first chunk on and in order: however streams close and open, nothing of one shell is
   typed into another (next_local_id, find_channel_by_local_id). *)
InputInOrder ==
  \A s \in Shells : given[s] = [k \in 1..Len(given[s]) |-> <<s, k>>]

(* What the host has got of a shell is what its command wrote, in order, and all of it once
   the daemon has ended the stream: the end of a command never overtakes its output. *)
OutputComplete ==
  \A s \in Shells :
    \/ host[s].got = <<Notice>>
    \/ /\ IsPrefixOf(host[s].got, made[s])
       /\ host[s].state = "ended" => host[s].got = made[s]

(* Flow control: of each shell stream one WRTE at most is on its way or unanswered, and none
   while the daemon holds the credit to send (can_send). *)
OneOutstanding ==
  LET unacked(s) == Cardinality({i \in 1..Len(toHost) : toHost[i].cmd = "WRTE" /\ toHost[i].arg1 = s})
                    + Cardinality({i \in 1..Len(toDev) : toDev[i].cmd = "OKAY" /\ toDev[i].arg0 = s})
  IN  /\ \A s \in Shells : unacked(s) <= 1
      /\ \A c \in OpenSlots : chan[c].canSend => unacked(chan[c].remote) = 0

(* Every OPEN is answered, if the connection lasts, by an OKAY or a CLSE. *)
OpenAnswered ==
  \A s \in Streams : host[s].state = "opening" ~> (host[s].state # "opening" \/ ~link)

(* Every request of a sync stream, the DONE of a push among them, is answered or the stream
   ends. *)
RequestAnswered ==
  \A s \in Syncs : \A k \in 1..Requests(Len(Script)) :
    (host[s].state = "open" /\ Requests(host[s].sent) >= k)
      ~> (host[s].answered >= k \/ host[s].state # "open" \/ ~link)

(* A host that sends the next request only after the answer to the last one keeps its sync
   stream until it sends QUIT. *)
PatientHostServed ==
  \A s \in Syncs : host[s].state = "ended" /\ host[s].peer # 0 /\ ~host[s].ahead =>
    host[s].sent = Len(Script)

(* A sync stream lasts until the host has sent QUIT: the claim of APPLIANCE.md that the daemon
   supports recursive push and pull. *)
SyncServed ==
  \A s \in Syncs : host[s].state = "ended" /\ host[s].peer # 0 => host[s].sent = Len(Script)
===============================================================================
