------------------------------- MODULE SomaProxy -------------------------------
(***************************************************************************)
(* nq_somafm_usb_proxy.py: a warmer thread per station keeps the last      *)
(* seconds of its stream in memory; a thread per connection sends them to  *)
(* a player and then follows the stream.  /station/<s> plays one station,  *)
(* /jukebox plays whatever /select/<s> chose last.  A step is what a       *)
(* thread does under one lock, or one blocking call.                       *)
(***************************************************************************)
EXTENDS Integers, SequencesExt

CONSTANTS
  Stations, NoStation,
  Clients,          \* connections
  BufferBytes,      \* warm_buffer_bytes
  Sizes,            \* sizes of the chunks that upstream.read returns
  MaxChunks,        \* bound on the chunks read of each station
  MaxSelects        \* bound on the selections

ASSUME ProxyAssumption ==
  /\ NoStation \notin Stations
  /\ BufferBytes \in Nat /\ Sizes \subseteq 1..BufferBytes
  /\ MaxChunks \in [Stations -> Nat] /\ MaxSelects \in Nat

VARIABLES
  warm,       \* _warm_streams: the buffer of each station and its warmer thread
  jukebox,    \* _jukebox_station and _jukebox_sequence
  client,     \* the thread of each connection
  made,       \* history: how many chunks were read of each station
  selections, \* history: the stations selected
  heard       \* history: the batch each client was sent last, after the chunk before it

proxyVars == <<warm, jukebox, client, made, selections, heard>>
-------------------------------------------------------------------------------
(* WarmStream. *)

Bytes(chunks) == FoldLeft(LAMBDA n, c : n + c.size, 0, chunks)

(* Mutant: one old chunk makes way for a new one, whatever their sizes. *)
EvictOne(chunks) == IF Bytes(chunks) > BufferBytes THEN Tail(chunks) ELSE chunks

(* The oldest chunks go until the rest fits. *)
Evict(chunks) ==
  LET fits == {k \in 1..Len(chunks) + 1 : Bytes(SubSeq(chunks, k, Len(chunks))) <= BufferBytes}
      first == CHOOSE k \in fits : \A j \in fits : k <= j
  IN  SubSeq(chunks, first, Len(chunks))

Warmed(s) == [warm EXCEPT ![s].on = TRUE]

Warm(s) ==
  /\ ~warm[s].on
  /\ warm' = Warmed(s)
  /\ UNCHANGED <<jukebox, client, made, selections, heard>>

(* Mutant: the chunks of a new connection are numbered from 1 again. *)
ConnectsAnew(s) ==
  /\ warm[s].on /\ ~warm[s].up
  /\ warm' = [warm EXCEPT ![s].up = TRUE, ![s].sequence = 0]
  /\ UNCHANGED <<jukebox, client, made, selections, heard>>

Connects(s) ==
  /\ warm[s].on /\ ~warm[s].up
  /\ warm' = [warm EXCEPT ![s].up = TRUE]
  /\ UNCHANGED <<jukebox, client, made, selections, heard>>

(* The upstream ends or fails: the thread sleeps and connects again, the buffer stays. *)
Fails(s) ==
  /\ warm[s].up
  /\ warm' = [warm EXCEPT ![s].up = FALSE]
  /\ UNCHANGED <<jukebox, client, made, selections, heard>>

Appends(s) ==
  /\ warm[s].up /\ made[s] < MaxChunks[s]
  /\ made' = [made EXCEPT ![s] = @ + 1]
  /\ \E size \in Sizes :
       LET seq == warm[s].sequence + 1
           chunk == [seq |-> seq, id |-> made'[s], size |-> size]
       IN  warm' = [warm EXCEPT ![s].sequence = seq, ![s].chunks = Evict(Append(@, chunk))]
  /\ UNCHANGED <<jukebox, client, selections, heard>>

(* select_jukebox_station: warms the station and wakes the jukebox threads. *)
Select(s) ==
  /\ jukebox.sequence < MaxSelects
  /\ warm' = Warmed(s)
  /\ jukebox' = [station |-> s, sequence |-> jukebox.sequence + 1]
  /\ selections' = Append(selections, s)
  /\ UNCHANGED <<client, made, heard>>

-------------------------------------------------------------------------------
(* The thread of a connection. *)

Off == [pc |-> "off", kind |-> "none", station |-> NoStation, active |-> 0, last |-> 0, batch |-> <<>>,
        floor |-> 0, stale |-> 0, gone |-> FALSE]
AtJukebox(c) == client[c].kind = "jukebox"
ClientGoto(c, pc) == client' = [client EXCEPT ![c].pc = pc]
shared == <<warm, jukebox, made, selections>>

(* stream_station: a station that is not warm is streamed directly, out of this model. *)
Tunes(c) ==
  /\ client[c].pc = "off" /\ ~client[c].gone
  /\ \E s \in Stations :
       client' = [client EXCEPT ![c].kind = "station", ![c].station = s,
                                ![c].pc = IF warm[s].on THEN "warm" ELSE "cold"]
  /\ UNCHANGED <<shared, heard>>

(* stream_jukebox *)
Plugs(c) ==
  /\ client[c].pc = "off" /\ ~client[c].gone
  /\ client' = [client EXCEPT ![c].kind = "jukebox", ![c].pc = "select"]
  /\ UNCHANGED <<shared, heard>>

(* wait_for_jukebox_selection *)
TakeSelection(c) ==
  /\ client[c].pc = "select" /\ jukebox.sequence \notin {0, client[c].active}
  /\ client' = [client EXCEPT ![c].pc = "warm", ![c].station = jukebox.station,
                              ![c].active = jukebox.sequence, ![c].last = 0, ![c].stale = 0]
  /\ UNCHANGED <<shared, heard>>

Buffer(c) == warm[client[c].station].chunks

(* wait_for_chunks: the buffer has something, or the time is over. *)
WaitForChunks(c) ==
  /\ client[c].pc = "warm"
  /\ \/ Buffer(c) # <<>> /\ ClientGoto(c, "snapshot")
     \/ Buffer(c) = <<>> /\ ClientGoto(c, IF AtJukebox(c) THEN "snapshot" ELSE "cold")
  /\ UNCHANGED <<shared, heard>>

Superseded(c) == AtJukebox(c) /\ jukebox.sequence # client[c].active

(* The chunks a client is about to write, with the oldest that was in the buffer. *)
Takes(c, batch) ==
  client' = [client EXCEPT
    ![c].pc = "write", ![c].batch = batch,
    ![c].floor = IF Buffer(c) = <<>> THEN 0 ELSE Head(Buffer(c)).seq,
    ![c].stale = IF Superseded(c) /\ batch # <<>> THEN @ + 1 ELSE @]

Snapshot(c) ==
  /\ client[c].pc = "snapshot"
  /\ Takes(c, Buffer(c))
  /\ UNCHANGED <<shared, heard>>

(* The chunks numbered above n, in their order: a SelectSeq that can be reasoned about. *)
After(chunks, n) ==
  LET kept[i \in 0..Len(chunks)] ==
        IF i = 0 THEN <<>>
        ELSE IF chunks[i].seq > n THEN Append(kept[i - 1], chunks[i]) ELSE kept[i - 1]
  IN  kept[Len(chunks)]

(* Mutant: the last chunk that was sent is sent again with the next ones. *)
SentAgain(c) == After(Buffer(c), client[c].last - 1)

Newer(c) == After(Buffer(c), client[c].last)

(* Mutant: a client that waits for audio does not look at the selection. *)
WaitForNewerOnly(c) ==
  /\ client[c].pc = "wait"
  /\ Buffer(c) # <<>> => Last(Buffer(c)).seq > client[c].last
  /\ Takes(c, Newer(c))
  /\ UNCHANGED <<shared, heard>>

(* It wakes up for a newer chunk, or, at the jukebox, for another selection; an empty buffer
   does not make it wait at all. *)
WaitForNewer(c) ==
  /\ client[c].pc = "wait"
  /\ Buffer(c) # <<>> => Last(Buffer(c)).seq > client[c].last \/ Superseded(c)
  /\ Takes(c, Newer(c))
  /\ UNCHANGED <<shared, heard>>

LastOf(seq) == IF seq = <<>> THEN <<>> ELSE <<Last(seq)>>

(* wfile.write: the batch reaches a client that is still there. *)
Send(c) ==
  /\ client[c].pc = "write"
  /\ LET b == client[c].batch
         entry(k) == [sel |-> client[c].active, station |-> client[c].station, seq |-> b[k].seq,
                      id |-> b[k].id, floor |-> client[c].floor]
     IN  /\ client' = [client EXCEPT ![c].pc = "test", ![c].batch = <<>>,
                                     ![c].last = IF b = <<>> THEN @ ELSE Last(b).seq]
         /\ heard' = [heard EXCEPT ![c] = LastOf(@) \o [k \in 1..Len(b) |-> entry(k)]]
  /\ UNCHANGED shared

(* The write fails: the client has left. *)
SendFails(c) ==
  /\ client[c].pc \in {"write", "cold"} /\ client[c].gone
  /\ client' = [client EXCEPT ![c] = [Off EXCEPT !.gone = TRUE]]
  /\ UNCHANGED <<shared, heard>>

(* Mutant: the jukebox goes on with its station. *)
TestNothing(c) ==
  /\ client[c].pc = "test"
  /\ ClientGoto(c, "wait")
  /\ UNCHANGED <<shared, heard>>

(* The head of the loop; a station client has no condition there. *)
Test(c) ==
  /\ client[c].pc = "test"
  /\ ClientGoto(c, IF Superseded(c) THEN "select" ELSE "wait")
  /\ UNCHANGED <<shared, heard>>

Leaves(c) ==
  /\ ~client[c].gone
  /\ client' = [client EXCEPT ![c].gone = TRUE]
  /\ UNCHANGED <<shared, heard>>

-------------------------------------------------------------------------------
Listens(c) ==
  \/ WaitForChunks(c) \/ Snapshot(c) \/ WaitForNewer(c) \/ Send(c) \/ SendFails(c) \/ Test(c)
  \/ TakeSelection(c)
Warmer(s) == Warm(s) \/ Connects(s) \/ Fails(s) \/ Appends(s)

ProxyNext ==
  \/ \E s \in Stations : Warmer(s) \/ Select(s)
  \/ \E c \in Clients : Tunes(c) \/ Plugs(c) \/ Listens(c) \/ Leaves(c)

ProxyInit ==
  /\ warm = [s \in Stations |-> [on |-> FALSE, up |-> FALSE, chunks |-> <<>>, sequence |-> 0]]
  /\ jukebox = [station |-> NoStation, sequence |-> 0]
  /\ client = [c \in Clients |-> Off]
  /\ made = [s \in Stations |-> 0]
  /\ selections = <<>>
  /\ heard = [c \in Clients |-> <<>>]

ProxySpec == ProxyInit /\ [][ProxyNext]_proxyVars

(* The threads of the connections run; nothing is assumed of the stations. *)
ProxyFairness == \A c \in Clients : WF_proxyVars(Listens(c))

ProxyFairSpec == ProxySpec /\ ProxyFairness

-------------------------------------------------------------------------------
(* Properties. *)

(* The type invariant: the buffer holds the newest chunks, numbered without a gap up to the
   last one, and no more bytes than it may. *)
ProxyTypeOK ==
  /\ \A s \in Stations :
       LET w == warm[s] IN
       /\ w.up => w.on
       /\ Bytes(w.chunks) <= BufferBytes
       /\ \A i \in 1..Len(w.chunks) : w.chunks[i].seq = w.sequence - Len(w.chunks) + i
  /\ jukebox.sequence = Len(selections)
  /\ \A c \in Clients :
       /\ client[c].pc \in {"off", "cold", "select", "warm", "snapshot", "write", "test", "wait"}
       /\ client[c].pc \in {"snapshot", "write", "wait"} => client[c].station \in Stations

(* What a player hears of one selection is its station, in order, nothing twice, and with
   nothing left out but what the buffer had to give up before it could be sent. *)
HeardInOrder ==
  \A c \in Clients : \A i \in 1..Len(heard[c]) :
    LET h == heard[c][i] IN
    /\ AtJukebox(c) => h.station = selections[h.sel]
    /\ i > 1 =>
         LET g == heard[c][i - 1] IN
         \/ g.sel < h.sel
         \/ /\ g.sel = h.sel /\ g.id < h.id
            /\ h.seq > g.seq + 1 => h.seq = h.floor

(* After another station was selected a jukebox player hears at most one more batch of the
   station before. *)
OneStaleBatch == \A c \in Clients : client[c].stale <= 1

(* A jukebox player comes to play the last selection, also when its station has fallen silent. *)
FollowsSelection ==
  \A c \in Clients : \A n \in 1..MaxSelects :
    (AtJukebox(c) /\ jukebox.sequence = n) ~> (client[c].active >= n \/ client[c].gone)

(* A player that listens to a warm station hears each new chunk, or a newer one, also across a
   reconnection of the warmer. *)
NewChunkHeard ==
  \A c \in Clients : \A s \in Stations : \A n \in 1..MaxChunks[s] :
    (client[c].kind = "station" /\ client[c].pc = "wait" /\ client[c].station = s /\ made[s] = n)
      ~> (client[c].gone \/ \E i \in 1..Len(heard[c]) : heard[c][i].id >= n)
===============================================================================
