--------------------------- MODULE SomaProxy_proofs ---------------------------
(***************************************************************************)
(* Proofs about SomaProxy for every set of stations and connections and    *)
(* every number of chunks and selections, and the types of the two         *)
(* programs of MCStreams.                                                  *)
(***************************************************************************)
EXTENDS MCStreams, PcmTap_proofs, SequenceTheorems, WellFoundedInduction

(* What a connection owes the jukebox, of which n is the last selection: it has none newer,
   and once it took a batch of an older one it looks at the selection before it takes more. *)
Owes(r, n) ==
  /\ r.active \in Nat /\ r.active <= n
  /\ r.stale \in {0, 1}
  /\ r.stale = 1 =>
       r.kind = "jukebox" /\ r.active < n /\ r.pc \in {"write", "test", "select"}

FieldNames == {"pc", "kind", "station", "active", "last", "batch", "floor", "stale", "gone"}

StaleInv ==
  /\ jukebox.sequence \in Nat
  /\ DOMAIN client = Clients
  /\ \A c \in Clients : DOMAIN client[c] = FieldNames /\ Owes(client[c], jukebox.sequence)
-------------------------------------------------------------------------------
LEMMA InitStale == ProxyInit => StaleInv
BY DEF ProxyInit, Off, StaleInv, FieldNames, Owes

(* A step of one connection that leaves the jukebox alone. *)
LEMMA OneClient ==
  ASSUME StaleInv, NEW c \in Clients, jukebox' = jukebox,
         DOMAIN client' = Clients, \A d \in Clients \ {c} : client'[d] = client[d],
         DOMAIN client'[c] = FieldNames, Owes(client'[c], jukebox.sequence)
  PROVE  StaleInv'
BY DEF StaleInv

LEMMA StaleStep == StaleInv /\ [ProxyNext]_proxyVars => StaleInv'
<1> SUFFICES ASSUME StaleInv, [ProxyNext]_proxyVars PROVE StaleInv'
  OBVIOUS
<1>1. CASE \E s \in Stations : Warmer(s) \/ Select(s)
  <2>1. /\ client' = client
        /\ jukebox'.sequence \in Nat /\ jukebox'.sequence >= jukebox.sequence
    BY <1>1 DEF Warmer, Warm, Connects, Fails, Appends, Select, StaleInv
  <2>. QED BY <2>1 DEF StaleInv, Owes
<1>2. ASSUME NEW c \in Clients, Tunes(c) \/ Plugs(c) \/ Listens(c) \/ Leaves(c) PROVE StaleInv'
  <2> USE DEF FieldNames, Owes, shared
  <2>0. /\ DOMAIN client = Clients /\ DOMAIN client[c] = FieldNames
        /\ Owes(client[c], jukebox.sequence) /\ jukebox.sequence \in Nat
    BY DEF StaleInv
  <2>1. CASE Tunes(c)
    BY <2>0, <2>1, OneClient DEF Tunes
  <2>2. CASE Plugs(c)
    BY <2>0, <2>2, OneClient DEF Plugs
  <2>3. CASE TakeSelection(c)
    BY <2>0, <2>3, OneClient DEF TakeSelection
  <2>4. CASE WaitForChunks(c)
    BY <2>0, <2>4, OneClient DEF WaitForChunks, ClientGoto
  <2>5. CASE Snapshot(c)
    BY <2>0, <2>5, OneClient DEF Snapshot, Takes, Superseded, AtJukebox
  <2>6. CASE WaitForNewer(c)
    BY <2>0, <2>6, OneClient DEF WaitForNewer, Takes, Superseded, AtJukebox
  <2>7. CASE Send(c)
    BY <2>0, <2>7, OneClient DEF Send
  <2>8. CASE SendFails(c)
    BY <2>0, <2>8, OneClient DEF SendFails, Off
  <2>9. CASE Test(c)
    BY <2>0, <2>9, OneClient DEF Test, ClientGoto, Superseded, AtJukebox
  <2>10. CASE Leaves(c)
    BY <2>0, <2>10, OneClient DEF Leaves
  <2>. QED
    BY <1>2, <2>1, <2>2, <2>3, <2>4, <2>5, <2>6, <2>7, <2>8, <2>9, <2>10 DEF Listens
<1>3. CASE UNCHANGED proxyVars
  BY <1>3 DEF proxyVars, StaleInv
<1>. QED
  BY <1>1, <1>2, <1>3 DEF ProxyNext

(* After another selection a jukebox player is sent at most one more batch of the station it
   was playing: stream_jukebox_station may have been about to take it, and tests the selection
   before it takes the next. *)
THEOREM AtMostOneStale == ProxySpec => []OneStaleBatch
<1>1. StaleInv => OneStaleBatch
  BY DEF StaleInv, Owes, OneStaleBatch
<1>. QED
  BY <1>1, InitStale, StaleStep, PTL DEF ProxySpec
-------------------------------------------------------------------------------
(***************************************************************************)
(* What a player hears.  The inductive invariant HearInv relates four      *)
(* things: the numbers in a buffer to the chunks read (WarmInv), the       *)
(* selection in force to its history (JukeboxInv), the state of each       *)
(* thread to the selection it serves (Plays), and the batch a thread is    *)
(* about to write to what its player heard last (Listened).                *)
(***************************************************************************)
Audio == [seq : Nat, id : Nat, size : Nat]
StreamState == [on : BOOLEAN, up : BOOLEAN, chunks : Seq(Audio), sequence : Nat]
Connection ==
  [pc : {"off", "cold", "select", "warm", "snapshot", "write", "test", "wait"},
   kind : {"none", "station", "jukebox"}, station : Stations \cup {NoStation}, active : Nat,
   last : Nat, batch : Seq(Audio), floor : Nat, stale : Nat, gone : BOOLEAN]
Entry == [sel : Nat, station : Stations \cup {NoStation}, seq : Nat, id : Nat, floor : Nat]

(* Chunks numbered without a gap, under the number they were read as. *)
Consecutive(b) ==
  /\ b \in Seq(Audio)
  /\ \A i \in 1..Len(b) : b[i].seq = b[1].seq + i - 1 /\ b[i].id = b[i].seq /\ b[i].seq > 0

(* The buffer of a station ends with the chunk read last. *)
Buffered(w, n) ==
  /\ w.up => w.on
  /\ w.sequence = n
  /\ Bytes(w.chunks) <= BufferBytes
  /\ Consecutive(w.chunks)
  /\ w.chunks # <<>> => w.chunks[Len(w.chunks)].seq = n

WarmInv ==
  /\ warm \in [Stations -> StreamState] /\ made \in [Stations -> Nat]
  /\ \A s \in Stations : Buffered(warm[s], made[s])

JukeboxInv ==
  /\ jukebox \in [station : Stations \cup {NoStation}, sequence : Nat]
  /\ selections \in Seq(Stations)
  /\ jukebox.sequence = Len(selections)
  /\ jukebox.sequence > 0 => jukebox.station = selections[jukebox.sequence]

(* A connection plays the station of the selection it took. *)
Plays(r, sels) ==
  /\ r.pc = "off" => r = [Off EXCEPT !.gone = r.gone]
  /\ r.pc # "off" => r.kind # "none"
  /\ r.active <= Len(sels)
  /\ r.pc \notin {"off", "select"} => r.station \in Stations
  /\ r.kind = "station" => r.active = 0 /\ r.pc # "select"
  /\ r.kind = "jukebox" => r.pc # "cold" /\ (r.pc # "select" => r.active > 0)
  /\ r.kind = "jukebox" /\ r.active > 0 => r.station = sels[r.active]

(* What it is about to write goes on from the last chunk it wrote, or from the oldest one the
   buffer had. *)
GoesOn(r) ==
  /\ Consecutive(r.batch)
  /\ r.batch # <<>> =>
       /\ r.batch[1].seq > r.last
       /\ r.batch[1].seq > r.last + 1 => r.batch[1].seq = r.floor

(* The player h listens to has heard nothing of the selection yet, or the chunk r.last. *)
Fresh(r, h) == r.last = 0 /\ (h # <<>> => h[Len(h)].sel < r.active)
Heard(r, h) ==
  h # <<>> /\ h[Len(h)].sel = r.active /\ h[Len(h)].seq = r.last /\ h[Len(h)].id = r.last

NextTo(g, k) ==
  \/ g.sel < k.sel
  \/ g.sel = k.sel /\ g.id < k.id /\ (k.seq > g.seq + 1 => k.seq = k.floor)

InOrder(h) == \A i \in 1..Len(h) : i > 1 => NextTo(h[i - 1], h[i])

Listened(r, h, sels) ==
  /\ h \in Seq(Entry)
  /\ InOrder(h)
  /\ r.pc = "off" /\ ~r.gone => h = <<>>
  /\ r.pc # "off" => Fresh(r, h) \/ Heard(r, h)
  /\ r.pc \in {"warm", "snapshot"} => Fresh(r, h)
  /\ r.pc = "write" => GoesOn(r)
  /\ r.kind = "jukebox" =>
       \A i \in 1..Len(h) : h[i].sel \in 1..Len(sels) /\ h[i].station = sels[h[i].sel]

ClientInv ==
  /\ client \in [Clients -> Connection] /\ heard \in [Clients -> Seq(Entry)]
  /\ \A c \in Clients : Plays(client[c], selections) /\ Listened(client[c], heard[c], selections)

HearInv == WarmInv /\ JukeboxInv /\ ClientInv
-------------------------------------------------------------------------------
(* Operators of the module.  The two recursive functions, the fold of Bytes over no chunk and
   the function of After, are unfolded by hand: existence by the least counterexample. *)
(* A set of naturals has a least one. *)
LEMMA Smallest ==
  ASSUME NEW T, T \subseteq Nat, T # {}
  PROVE  \E k \in T : \A j \in T : k <= j
<1>1. PICK k \in T : \A j \in T : ~(<<j, k>> \in OpToRel(<, Nat))
  BY NatLessThanWellFounded, WFMin
<1>2. \A j \in T : ~(j < k)
  BY <1>1 DEF OpToRel
<1>3. k \in Nat /\ \A j \in T : j \in Nat
  OBVIOUS
<1>. QED
  BY <1>2, <1>3

(* An empty buffer has no bytes. *)
LEMMA NoBytes == Bytes(<<>>) = 0
<1> DEFINE sum == CHOOSE iter : iter = [s \in SUBSET {} |->
                    IF s = {} THEN 0 ELSE LET x == Max(s) IN iter[s \ {x}] + <<>>[x].size]
           zero == [s \in SUBSET {} |-> 0]
<1>1. Bytes(<<>>) = sum[DOMAIN <<>>]
  BY DEF Bytes, FoldLeft, MapThenFoldSet
<1>2. zero = [s \in SUBSET {} |->
                IF s = {} THEN 0 ELSE LET x == Max(s) IN zero[s \ {x}] + <<>>[x].size]
  OBVIOUS
<1>3. sum = [s \in SUBSET {} |->
               IF s = {} THEN 0 ELSE LET x == Max(s) IN sum[s \ {x}] + <<>>[x].size]
  BY <1>2
<1>4. DOMAIN <<>> = {}
  OBVIOUS
<1>. QED
  BY <1>1, <1>3, <1>4

(* _append_chunk keeps an end of the buffer that fits. *)
LEMMA EvictEnds ==
  ASSUME NEW S, NEW b \in Seq(S)
  PROVE  \E k \in 1..Len(b) + 1 :
           Evict(b) = SubSeq(b, k, Len(b)) /\ Bytes(Evict(b)) <= BufferBytes
<1> DEFINE fits == {k \in 1..Len(b) + 1 : Bytes(SubSeq(b, k, Len(b))) <= BufferBytes}
<1>1. SubSeq(b, Len(b) + 1, Len(b)) = <<>>
  OBVIOUS
<1>2. Len(b) + 1 \in fits
  <2>1. Bytes(SubSeq(b, Len(b) + 1, Len(b))) <= BufferBytes
    <3>1. Bytes(SubSeq(b, Len(b) + 1, Len(b))) = 0
      BY <1>1, NoBytes, Zenon
    <3>2. BufferBytes \in Nat
      BY ProxyAssumption
    <3>. QED BY <3>1, <3>2
  <2>. QED BY <2>1
<1>3. PICK k \in fits : \A j \in fits : k <= j
  <2>. HIDE DEF fits
  <2>1. fits \subseteq Nat /\ fits # {}
    BY <1>2 DEF fits
  <2>. QED BY <2>1, Smallest
<1> DEFINE first == CHOOSE i \in fits : \A j \in fits : i <= j
<1>4. first \in fits
  <2>. HIDE DEF fits
  <2>. QED BY <1>3
<1>5. Evict(b) = SubSeq(b, first, Len(b))
  BY DEF Evict
<1>. HIDE DEF first
<1>. QED
  BY <1>4, <1>5

(* The chunks of b up to the i-th that are numbered above n. *)
Kept(f, b, n, m) ==
  f = [i \in 0..m |-> IF i = 0 THEN <<>>
                      ELSE IF b[i].seq > n THEN Append(f[i - 1], b[i]) ELSE f[i - 1]]

LEMMA KeptExists == ASSUME NEW b, NEW n, NEW m \in Nat PROVE \E f : Kept(f, b, n, m)
<1> DEFINE T == {i \in Nat : ~\E f : Kept(f, b, n, i)}
<1>1. SUFFICES ASSUME T # {} PROVE FALSE
  OBVIOUS
<1>2. PICK k \in T : \A j \in T : k <= j
  <2>1. T \subseteq Nat
    OBVIOUS
  <2>. HIDE DEF T
  <2>. QED BY <1>1, <2>1, Smallest
<1>3. k # 0
  <2>1. Kept([i \in 0..0 |-> <<>>], b, n, 0)
    BY DEF Kept
  <2>. QED BY <2>1
<1>4. k - 1 \in Nat /\ k - 1 \notin T
  BY <1>2, <1>3
<1>5. PICK f : Kept(f, b, n, k - 1)
  BY <1>4
<1> DEFINE g == [i \in 0..k |-> IF i < k THEN f[i]
                 ELSE IF b[k].seq > n THEN Append(f[k - 1], b[k]) ELSE f[k - 1]]
<1>6. \A i \in 0..k - 1 :
         f[i] = IF i = 0 THEN <<>> ELSE IF b[i].seq > n THEN Append(f[i - 1], b[i]) ELSE f[i - 1]
  BY <1>5 DEF Kept
<1>7. \A i \in 0..k :
         g[i] = IF i = 0 THEN <<>> ELSE IF b[i].seq > n THEN Append(g[i - 1], b[i]) ELSE g[i - 1]
  BY <1>4, <1>6
<1>8. Kept(g, b, n, k)
  <2>1. g = [i \in 0..k |-> g[i]]
    OBVIOUS
  <2>. HIDE DEF g
  <2>. QED BY <1>7, <2>1 DEF Kept
<1>. QED
  BY <1>2, <1>8

(* The chunks above a number are an end of consecutive chunks, and it starts with the first. *)
LEMMA AfterEnds ==
  ASSUME NEW b, Consecutive(b), NEW n \in Nat
  PROVE  \E k \in 1..Len(b) + 1 :
           /\ After(b, n) = SubSeq(b, k, Len(b))
           /\ k <= Len(b) => b[k].seq > n
           /\ k > 1 => b[k - 1].seq <= n
<1> DEFINE T == {i \in 1..Len(b) + 1 : i = Len(b) + 1 \/ b[i].seq > n}
<1>0. b \in Seq(Audio) /\ Len(b) \in Nat /\ \A i \in 1..Len(b) : b[i].seq \in Nat
  <2>1. b \in Seq(Audio)
    BY DEF Consecutive
  <2>2. \A i \in 1..Len(b) : b[i] \in Audio
    BY <2>1
  <2>3. \A a \in Audio : a.seq \in Nat
    BY DEF Audio
  <2>. QED BY <2>1, <2>2, <2>3
<1>1. PICK k \in T : \A j \in T : k <= j
  <2>1. T \subseteq Nat /\ Len(b) + 1 \in T
    BY <1>0
  <2>. HIDE DEF T
  <2>. QED BY <2>1, Smallest
<1>2. \A i \in 1..Len(b) : b[i].seq > n <=> i >= k
  <2>1. ASSUME NEW i \in 1..Len(b), b[i].seq > n PROVE i >= k
    BY <1>1, <2>1
  <2>2. ASSUME NEW i \in 1..Len(b), i >= k PROVE b[i].seq > n
    <3>1. k \in 1..Len(b) /\ b[k].seq > n
      BY <1>0, <1>1, <2>2
    <3>2. b[i].seq = b[1].seq + i - 1 /\ b[k].seq = b[1].seq + k - 1 /\ b[1].seq \in Nat
      BY <1>0, <3>1 DEF Consecutive
    <3>. QED BY <1>0, <2>2, <3>1, <3>2
  <2>. QED BY <2>1, <2>2
<1>3. PICK f : /\ Kept(f, b, n, Len(b)) 
               /\ After(b, n) = f[Len(b)]
  <2> DEFINE h == CHOOSE f : f = [i \in 0..Len(b) |-> IF i = 0 THEN <<>>
                      ELSE IF b[i].seq > n THEN Append(f[i - 1], b[i]) ELSE f[i - 1]]
  <2>1. After(b, n) = h[Len(b)]
    BY DEF After
  <2>2. Kept(h, b, n, Len(b))
    BY <1>0, KeptExists DEF Kept
  <2>. QED BY <2>1, <2>2
<1> DEFINE U == {i \in 0..Len(b) : f[i] # SubSeq(b, k, i)}
<1>4. U = {}
  <2> SUFFICES ASSUME U # {} PROVE FALSE
    OBVIOUS
  <2>1. PICK i \in U : \A j \in U : i <= j
    <3>1. U \subseteq Nat
      BY <1>0
    <3>. HIDE DEF U
    <3>. QED BY <3>1, Smallest
  <2>2. i \in 0..Len(b) /\ k \in 1..Len(b) + 1
    BY <1>1
  <2>3. f[i] = IF i = 0 THEN <<>> ELSE IF b[i].seq > n THEN Append(f[i - 1], b[i]) ELSE f[i - 1]
    BY <1>3, <2>2 DEF Kept
  <2>4. CASE i = 0
    <3>1. SubSeq(b, k, 0) = <<>>
      BY <1>0, <2>2
    <3>. QED BY <2>1, <2>3, <2>4, <3>1
  <2>5. CASE i # 0
    <3>1. i - 1 \in 0..Len(b) /\ i - 1 \notin U
      BY <1>0, <2>1, <2>2, <2>5
    <3>2. f[i - 1] = SubSeq(b, k, i - 1)
      BY <3>1
    <3>3. CASE i < k
      <4>1. SubSeq(b, k, i - 1) = <<>> /\ SubSeq(b, k, i) = <<>>
        BY <1>0, <2>2, <2>5, <3>3
      <4>2. i \in 1..Len(b) /\ ~(b[i].seq > n)
        BY <1>0, <1>2, <2>2, <2>5, <3>3
      <4>3. f[i] = SubSeq(b, k, i)
        BY <2>3, <2>5, <3>2, <4>1, <4>2
      <4>. QED BY <2>1, <4>3
    <3>4. CASE i >= k
      <4>1. Append(SubSeq(b, k, i - 1), b[i]) = SubSeq(b, k, i)
        <5>1. k \in 1..Len(b) /\ i \in k..Len(b)
          BY <1>0, <2>2, <2>5, <3>4
        <5>2. SubSeq(b, k, i) = SubSeq(b, k, i - 1) \o <<b[i]>>
          BY <1>0, <5>1, SubSeqRecursiveSecond
        <5>3. SubSeq(b, k, i - 1) \in Seq(Audio)
          BY <1>0, <5>1
        <5>. QED BY <5>2, <5>3
      <4>2. i \in 1..Len(b) /\ b[i].seq > n
        BY <1>0, <1>2, <2>2, <2>5, <3>4
      <4>3. f[i] = SubSeq(b, k, i)
        BY <2>3, <2>5, <3>2, <4>1, <4>2
      <4>. QED BY <2>1, <4>3
    <3>. QED BY <1>0, <2>2, <3>3, <3>4
  <2>. QED BY <2>2, <2>4, <2>5
<1>5. After(b, n) = SubSeq(b, k, Len(b))
  BY <1>0, <1>3, <1>4
<1>6. k \in 1..Len(b) + 1 /\ (k <= Len(b) => b[k].seq > n) /\ (k > 1 => b[k - 1].seq <= n)
  <2>1. k \in 1..Len(b) + 1
    BY <1>1
  <2>2. k <= Len(b) => b[k].seq > n
    BY <1>0, <1>1
  <2>3. ASSUME k > 1 PROVE b[k - 1].seq <= n
    <3>1. k - 1 \in 1..Len(b) /\ ~(k - 1 >= k)
      BY <1>0, <2>1, <2>3
    <3>. QED BY <1>0, <1>2, <3>1
  <2>. QED BY <2>1, <2>2, <2>3
<1>. QED
  BY <1>5, <1>6
-------------------------------------------------------------------------------
(* The warmer threads. *)
LEMMA ConsecutiveType ==
  ASSUME NEW b, Consecutive(b)
  PROVE  b \in Seq(Audio) /\ Len(b) \in Nat /\ \A i \in 1..Len(b) : b[i] \in Audio /\ b[i].seq \in Nat
<1>1. b \in Seq(Audio)
  BY DEF Consecutive
<1>2. \A i \in 1..Len(b) : b[i] \in Audio
  BY <1>1
<1>3. \A a \in Audio : a.seq \in Nat
  BY DEF Audio
<1>. QED BY <1>1, <1>2, <1>3

(* The end of consecutive chunks is consecutive, and ends where they do. *)
LEMMA EndConsecutive ==
  ASSUME NEW b, Consecutive(b), NEW k \in 1..Len(b) + 1
  PROVE  LET e == SubSeq(b, k, Len(b)) IN
         /\ Consecutive(e)
         /\ e # <<>> <=> k <= Len(b)
         /\ k <= Len(b) => e[1] = b[k] /\ Len(e) = Len(b) - k + 1 /\ e[Len(e)] = b[Len(b)]
<1> DEFINE e == SubSeq(b, k, Len(b))
<1>0. b \in Seq(Audio) /\ Len(b) \in Nat /\ k \in Nat
      /\ \A i \in 1..Len(b) : b[i] \in Audio /\ b[i].seq \in Nat
  BY ConsecutiveType
<1>1. CASE k = Len(b) + 1
  <2>1. e = <<>>
    BY <1>0, <1>1
  <2>. HIDE DEF e
  <2>2. Consecutive(e)
    BY <2>1 DEF Consecutive
  <2>. QED BY <1>0, <1>1, <2>1, <2>2 DEF e
<1>2. CASE k <= Len(b)
  <2>1. e \in Seq(Audio) /\ Len(e) = Len(b) - k + 1 /\ \A i \in 1..Len(b) - k + 1 : e[i] = b[k + i - 1]
    BY <1>0, <1>2, SubSeqProperties
  <2>. HIDE DEF e
  <2>2. e[1] = b[k] /\ e[Len(e)] = b[Len(b)]
    BY <1>0, <1>2, <2>1
  <2>3. \A i \in 1..Len(e) : e[i].seq = e[1].seq + i - 1 /\ e[i].id = e[i].seq /\ e[i].seq > 0
    <3>1. TAKE i \in 1..Len(e)
    <3>2. PICK q \in 1..Len(b) : q = k + i - 1 /\ e[i] = b[q]
      BY <1>0, <1>2, <2>1
    <3>3. /\ b[q].seq = b[1].seq + q - 1 /\ b[k].seq = b[1].seq + k - 1
          /\ b[q].id = b[q].seq /\ b[q].seq > 0 /\ b[1].seq \in Nat
      BY <1>0, <1>2, <3>2 DEF Consecutive
    <3>. QED BY <1>0, <2>2, <3>2, <3>3
  <2>4. Consecutive(e)
    BY <2>1, <2>3 DEF Consecutive
  <2>5. e # <<>>
    BY <1>0, <1>2, <2>1
  <2>. QED BY <1>0, <1>2, <2>1, <2>2, <2>4, <2>5 DEF e
<1>. QED
  BY <1>0, <1>1, <1>2

(* The chunk read next goes on from a buffer that ends with the one before. *)
LEMMA AppendConsecutive ==
  ASSUME NEW b, NEW n \in Nat, Consecutive(b), b # <<>> => b[Len(b)].seq = n, NEW size \in Nat
  PROVE  LET a == Append(b, [seq |-> n + 1, id |-> n + 1, size |-> size]) IN
         Consecutive(a) /\ Len(a) = Len(b) + 1 /\ a[Len(a)].seq = n + 1
<1> DEFINE chunk == [seq |-> n + 1, id |-> n + 1, size |-> size]
           a == Append(b, chunk)
<1>0. b \in Seq(Audio) /\ Len(b) \in Nat /\ \A i \in 1..Len(b) : b[i] \in Audio /\ b[i].seq \in Nat
  BY ConsecutiveType
<1>1. chunk \in Audio /\ chunk.seq = n + 1 /\ chunk.id = n + 1
  BY DEF Audio
<1>. HIDE DEF chunk
<1>2. /\ a \in Seq(Audio) /\ Len(a) = Len(b) + 1 /\ a[Len(b) + 1] = chunk
      /\ \A i \in 1..Len(b) : a[i] = b[i]
  BY <1>0, <1>1
<1>. HIDE DEF a
<1>3. \A i \in 1..Len(a) : a[i].seq = a[1].seq + i - 1 /\ a[i].id = a[i].seq /\ a[i].seq > 0
  <2>1. TAKE i \in 1..Len(a)
  <2>2. CASE b = <<>>
    BY <1>0, <1>1, <1>2, <2>2
  <2>3. CASE b # <<>>
    <3>1. 1 \in 1..Len(b) /\ Len(b) \in 1..Len(b)
      BY <1>0, <2>3
    <3>2. b[Len(b)].seq = b[1].seq + Len(b) - 1 /\ b[Len(b)].seq = n
      BY <2>3, <3>1 DEF Consecutive
    <3>3. CASE i = Len(a)
      <4>1. a[1] = b[1] /\ a[i] = chunk /\ i = Len(b) + 1 /\ b[1].seq \in Nat
        BY <1>0, <1>2, <3>1, <3>3
      <4>2. a[i].seq = n + 1 /\ a[i].id = n + 1 /\ a[1].seq = b[1].seq
        BY <1>1, <4>1
      <4>3. Len(b) \in Nat /\ n = b[1].seq + Len(b) - 1 /\ i = Len(b) + 1 /\ b[1].seq \in Nat
        BY <1>0, <3>2, <4>1
      <4>4. n + 1 = b[1].seq + i - 1
        BY <4>3
      <4>5. a[i].seq = a[1].seq + i - 1
        BY <4>2, <4>4
      <4>6. n + 1 > 0
        OBVIOUS
      <4>. QED BY <4>2, <4>5, <4>6
    <3>4. CASE i # Len(a)
      <4>1. i \in 1..Len(b)
        BY <1>0, <1>2, <3>4
      <4>2. b[i].seq = b[1].seq + i - 1 /\ b[i].id = b[i].seq /\ b[i].seq > 0
        BY <4>1 DEF Consecutive
      <4>. QED BY <1>2, <3>1, <4>1, <4>2
    <3>. QED BY <3>3, <3>4
  <2>. QED BY <2>2, <2>3
<1>4. Consecutive(a)
  BY <1>2, <1>3 DEF Consecutive
<1>. QED
  BY <1>1, <1>2, <1>4 DEF a, chunk

LEMMA StreamType ==
  ASSUME NEW w \in StreamState
  PROVE  /\ w.on \in BOOLEAN /\ w.up \in BOOLEAN /\ w.chunks \in Seq(Audio) /\ w.sequence \in Nat
         /\ \A x \in BOOLEAN : [w EXCEPT !.on = x] \in StreamState /\ [w EXCEPT !.up = x] \in StreamState
         /\ \A n \in Nat, b \in Seq(Audio) :
              [w EXCEPT !.sequence = n, !.chunks = b] \in StreamState
BY DEF StreamState

(* A step of the warmer of one station. *)
LEMMA OneStation ==
  ASSUME WarmInv, NEW s \in Stations, NEW w \in StreamState, NEW n \in Nat,
         warm' = [warm EXCEPT ![s] = w], made' = [made EXCEPT ![s] = n], Buffered(w, n)
  PROVE  WarmInv'
<1>1. warm' \in [Stations -> StreamState] /\ made' \in [Stations -> Nat]
  BY DEF WarmInv
<1>2. ASSUME NEW t \in Stations PROVE Buffered(warm'[t], made'[t])
  <2>1. CASE t = s
    <3>1. warm'[t] = w /\ made'[t] = n
      BY <2>1 DEF WarmInv
    <3>. QED BY <3>1
  <2>2. CASE t # s
    <3>1. warm'[t] = warm[t] /\ made'[t] = made[t] /\ Buffered(warm[t], made[t])
      BY <2>2 DEF WarmInv
    <3>. QED BY <3>1
  <2>. QED BY <2>1, <2>2
<1>3. \A t \in Stations : Buffered(warm'[t], made'[t])
  BY <1>2
<1>. QED
  BY <1>1, <1>3 DEF WarmInv

LEMMA WarmStep == WarmInv /\ [ProxyNext]_proxyVars => WarmInv'
<1> SUFFICES ASSUME WarmInv, [ProxyNext]_proxyVars PROVE WarmInv'
  OBVIOUS
<1>0. UNCHANGED <<warm, made>> => WarmInv'
  BY DEF WarmInv
<1>1. ASSUME NEW s \in Stations, Warmer(s) \/ Select(s) PROVE WarmInv'
  <2>0. /\ warm[s] \in StreamState /\ made[s] \in Nat /\ made = [made EXCEPT ![s] = made[s]]
        /\ Buffered(warm[s], made[s]) /\ warm \in [Stations -> StreamState]
    BY DEF WarmInv
  <2> DEFINE on == [warm[s] EXCEPT !.on = TRUE]
             up == [warm[s] EXCEPT !.up = TRUE]
             down == [warm[s] EXCEPT !.up = FALSE]
  <2>1. CASE Warm(s) \/ Select(s)
    <3>1. /\ on \in StreamState /\ on.on = TRUE /\ on.up = warm[s].up /\ on.chunks = warm[s].chunks
          /\ on.sequence = warm[s].sequence
      BY <2>0, StreamType DEF StreamState
    <3>2. Buffered(on, made[s])
      <4>. HIDE DEF on
      <4>. QED BY <2>0, <3>1 DEF Buffered
    <3>3. warm' = [warm EXCEPT ![s] = on] /\ made' = made
      BY <2>1 DEF Warm, Select, Warmed
    <3>. HIDE DEF on
    <3>. QED BY <2>0, <3>1, <3>2, <3>3, OneStation
  <2>2. CASE Connects(s)
    <3>0. warm[s].on = TRUE /\ warm' = [warm EXCEPT ![s] = up] /\ made' = made
      BY <2>0, <2>2, StreamType DEF Connects
    <3>1. /\ up \in StreamState /\ up.on = warm[s].on /\ up.up = TRUE /\ up.chunks = warm[s].chunks
          /\ up.sequence = warm[s].sequence
      BY <2>0, StreamType DEF StreamState
    <3>2. Buffered(up, made[s])
      <4>. HIDE DEF up
      <4>. QED BY <2>0, <3>0, <3>1 DEF Buffered
    <3>. HIDE DEF up
    <3>. QED BY <2>0, <3>0, <3>1, <3>2, OneStation
  <2>3. CASE Fails(s)
    <3>0. warm' = [warm EXCEPT ![s] = down] /\ made' = made
      BY <2>3 DEF Fails
    <3>1. /\ down \in StreamState /\ down.on = warm[s].on /\ down.up = FALSE
          /\ down.chunks = warm[s].chunks /\ down.sequence = warm[s].sequence
      BY <2>0, StreamType DEF StreamState
    <3>2. Buffered(down, made[s])
      <4>. HIDE DEF down
      <4>. QED BY <2>0, <3>1 DEF Buffered
    <3>. HIDE DEF down
    <3>. QED BY <2>0, <3>0, <3>1, <3>2, OneStation
  <2>4. CASE Appends(s)
    <3>1. PICK size \in Sizes :
             LET seq == warm[s].sequence + 1
                 chunk == [seq |-> seq, id |-> made'[s], size |-> size]
             IN  warm' = [warm EXCEPT ![s].sequence = seq, ![s].chunks = Evict(Append(@, chunk))]
      BY <2>4 DEF Appends
    <3> DEFINE n == made[s] + 1
               a == Append(warm[s].chunks, [seq |-> n, id |-> n, size |-> size])
               w == [warm[s] EXCEPT !.sequence = n, !.chunks = Evict(a)]
    <3>2. made' = [made EXCEPT ![s] = n] /\ made'[s] = n /\ n \in Nat /\ size \in Nat
      BY <2>0, <2>4, ProxyAssumption DEF Appends, WarmInv
    <3>3. /\ warm[s].sequence = made[s] /\ Consecutive(warm[s].chunks) /\ (warm[s].up => warm[s].on)
          /\ warm[s].chunks # <<>> => warm[s].chunks[Len(warm[s].chunks)].seq = made[s]
      BY <2>0 DEF Buffered
    <3>4. warm' = [warm EXCEPT ![s] = w]
      <4>1. warm' = [warm EXCEPT ![s].sequence = n, ![s].chunks = Evict(Append(@, [seq |-> n, id |-> n, size |-> size]))]
        BY <3>1, <3>2, <3>3
      <4>2. DOMAIN warm = Stations /\ DOMAIN warm[s] = {"on", "up", "chunks", "sequence"}
        BY <2>0 DEF StreamState
      <4>. HIDE DEF n
      <4>. QED BY <4>1, <4>2
    <3>5. Consecutive(a) /\ Len(a) = Len(warm[s].chunks) + 1 /\ a[Len(a)].seq = n
      BY <2>0, <3>2, <3>3, AppendConsecutive
    <3>. HIDE DEF a
    <3>6. PICK k \in 1..Len(a) + 1 : Evict(a) = SubSeq(a, k, Len(a)) /\ Bytes(Evict(a)) <= BufferBytes
      BY <3>5, ConsecutiveType, EvictEnds
    <3>7. /\ Consecutive(Evict(a))
          /\ Evict(a) # <<>> => Evict(a)[Len(Evict(a))].seq = n
      BY <3>5, <3>6, EndConsecutive
    <3>8. /\ w \in StreamState /\ w.on = warm[s].on /\ w.up = warm[s].up
          /\ w.chunks = Evict(a) /\ w.sequence = n
      <4>1. Evict(a) \in Seq(Audio)
        BY <3>7 DEF Consecutive
      <4>. HIDE DEF n
      <4>. QED BY <2>0, <3>2, <4>1, StreamType DEF StreamState
    <3>9. Buffered(w, n)
      <4>. HIDE DEF w, n
      <4>. QED BY <3>3, <3>6, <3>7, <3>8 DEF Buffered
    <3>. HIDE DEF w, n
    <3>. QED BY <3>2, <3>4, <3>8, <3>9, OneStation
  <2>. QED BY <1>1, <2>1, <2>2, <2>3, <2>4 DEF Warmer
<1>2. ASSUME NEW c \in Clients, Tunes(c) \/ Plugs(c) \/ Listens(c) \/ Leaves(c) PROVE WarmInv'
  <2>1. UNCHANGED <<warm, made>>
    BY <1>2 DEF Tunes, Plugs, Listens, Leaves, TakeSelection, WaitForChunks, Snapshot, WaitForNewer,
                Send, SendFails, Test, shared
  <2>. QED BY <1>0, <2>1
<1>3. CASE UNCHANGED proxyVars
  BY <1>0, <1>3 DEF proxyVars
<1>. QED
  BY <1>1, <1>2, <1>3 DEF ProxyNext
-------------------------------------------------------------------------------
(* The selections, and a step of one connection. *)
LEMMA JukeboxStep == JukeboxInv /\ [ProxyNext]_proxyVars => JukeboxInv'
<1> SUFFICES ASSUME JukeboxInv, [ProxyNext]_proxyVars PROVE JukeboxInv'
  OBVIOUS
<1>0. UNCHANGED <<jukebox, selections>> => JukeboxInv'
  BY DEF JukeboxInv
<1>1. ASSUME NEW s \in Stations, Select(s) PROVE JukeboxInv'
  BY <1>1 DEF JukeboxInv, Select
<1>2. ASSUME NEW s \in Stations, Warmer(s) PROVE JukeboxInv'
  <2>1. UNCHANGED <<jukebox, selections>>
    BY <1>2 DEF Warmer, Warm, Connects, Fails, Appends
  <2>. QED BY <1>0, <2>1
<1>3. ASSUME NEW c \in Clients, Tunes(c) \/ Plugs(c) \/ Listens(c) \/ Leaves(c) PROVE JukeboxInv'
  <2>1. UNCHANGED <<jukebox, selections>>
    BY <1>3 DEF Tunes, Plugs, Listens, Leaves, TakeSelection, WaitForChunks, Snapshot, WaitForNewer,
                Send, SendFails, Test, shared
  <2>. QED BY <1>0, <2>1
<1>4. CASE UNCHANGED proxyVars
  BY <1>0, <1>4 DEF proxyVars
<1>. QED
  BY <1>1, <1>2, <1>3, <1>4 DEF ProxyNext

(* A step of one connection. *)
LEMMA OneConnection ==
  ASSUME ClientInv, selections' = selections, NEW c \in Clients, NEW r \in Connection, NEW h,
         client' = [client EXCEPT ![c] = r], heard' = [heard EXCEPT ![c] = h],
         Plays(r, selections), Listened(r, h, selections)
  PROVE  ClientInv'
<1>1. client' \in [Clients -> Connection] /\ heard' \in [Clients -> Seq(Entry)]
  <2>1. h \in Seq(Entry)
    BY DEF Listened
  <2>. QED BY <2>1 DEF ClientInv
<1>2. ASSUME NEW d \in Clients
      PROVE  Plays(client'[d], selections') /\ Listened(client'[d], heard'[d], selections')
  <2>1. CASE d = c
    <3>1. client'[d] = r /\ heard'[d] = h
      BY <2>1 DEF ClientInv
    <3>. QED BY <3>1
  <2>2. CASE d # c
    <3>1. client'[d] = client[d] /\ heard'[d] = heard[d]
      BY <2>2 DEF ClientInv
    <3>2. Plays(client[d], selections) /\ Listened(client[d], heard[d], selections)
      BY DEF ClientInv
    <3>. QED BY <3>1, <3>2
  <2>. QED BY <2>1, <2>2
<1>. QED
  BY <1>1, <1>2 DEF ClientInv

(* Another selection leaves what the connections play as it is. *)
LEMMA SelectKeeps ==
  ASSUME NEW S \in Seq(Stations), NEW s \in Stations, NEW r \in Connection, NEW h,
         Plays(r, S), Listened(r, h, S)
  PROVE  Plays(r, Append(S, s)) /\ Listened(r, h, Append(S, s))
<1> DEFINE A == Append(S, s)
<1>1. Len(A) = Len(S) + 1 /\ Len(S) \in Nat /\ \A i \in 1..Len(S) : A[i] = S[i]
  OBVIOUS
<1>2. r.active \in Nat
  BY DEF Connection
<1>. HIDE DEF A
<1>3. Plays(r, A)
  <2>1. r.active <= Len(A)
    BY <1>1, <1>2 DEF Plays
  <2>2. r.kind = "jukebox" /\ r.active > 0 => r.station = A[r.active]
    <3>1. r.active > 0 => r.active \in 1..Len(S)
      BY <1>1, <1>2 DEF Plays
    <3>. QED BY <1>1, <3>1 DEF Plays
  <2>. QED BY <2>1, <2>2 DEF Plays
<1>4. Listened(r, h, A)
  <2>1. ASSUME r.kind = "jukebox", NEW i \in 1..Len(h)
        PROVE  h[i].sel \in 1..Len(A) /\ h[i].station = A[h[i].sel]
    <3>1. h[i].sel \in 1..Len(S) /\ h[i].station = S[h[i].sel]
      BY <2>1 DEF Listened
    <3>. QED BY <1>1, <3>1
  <2>. QED BY <2>1 DEF Listened
<1>. QED
  BY <1>3, <1>4 DEF A

LEMMA ClientSelect == ASSUME ClientInv, JukeboxInv, NEW s \in Stations, Select(s) PROVE ClientInv'
<1>1. client' = client /\ heard' = heard /\ selections' = Append(selections, s) /\ selections \in Seq(Stations)
  BY DEF Select, JukeboxInv
<1>2. ASSUME NEW c \in Clients
      PROVE  Plays(client[c], selections') /\ Listened(client[c], heard[c], selections')
  <2>1. client[c] \in Connection /\ Plays(client[c], selections) /\ Listened(client[c], heard[c], selections)
    BY DEF ClientInv
  <2>. QED BY <1>1, <2>1, SelectKeeps
<1>. QED
  BY <1>1, <1>2 DEF ClientInv
-------------------------------------------------------------------------------
(* A batch that is sent. *)
(* What the player of a connection r has heard when its batch is sent. *)
EntryOf(r, chunk) ==
  [sel |-> r.active, station |-> r.station, seq |-> chunk.seq, id |-> chunk.id, floor |-> r.floor]
SentBatch(r) == [k \in 1..Len(r.batch) |-> EntryOf(r, r.batch[k])]
LastAfter(r) == IF r.batch = <<>> THEN r.last ELSE Last(r.batch).seq

LEMMA ConnectionType ==
  ASSUME NEW r \in Connection
  PROVE  /\ r.pc \in {"off", "cold", "select", "warm", "snapshot", "write", "test", "wait"}
         /\ r.kind \in {"none", "station", "jukebox"} /\ r.station \in Stations \cup {NoStation}
         /\ r.active \in Nat /\ r.last \in Nat /\ r.batch \in Seq(Audio) /\ r.floor \in Nat
         /\ r.stale \in Nat
BY DEF Connection

LEMMA SentType ==
  ASSUME NEW r \in Connection, GoesOn(r)
  PROVE  /\ SentBatch(r) \in Seq(Entry) /\ Len(SentBatch(r)) = Len(r.batch) /\ Len(r.batch) \in Nat
         /\ \A k \in 1..Len(r.batch) :
              /\ SentBatch(r)[k] = EntryOf(r, r.batch[k]) /\ EntryOf(r, r.batch[k]) \in Entry
              /\ r.batch[k].seq = r.batch[1].seq + k - 1 /\ r.batch[k].id = r.batch[k].seq
              /\ r.batch[k].seq \in Nat
<1>1. /\ Len(r.batch) \in Nat
      /\ \A k \in 1..Len(r.batch) : r.batch[k] \in Audio /\ r.batch[k].seq \in Nat
  BY ConsecutiveType DEF GoesOn
<1>2. \A k \in 1..Len(r.batch) :
        r.batch[k].seq = r.batch[1].seq + k - 1 /\ r.batch[k].id = r.batch[k].seq
  BY DEF GoesOn, Consecutive
<1>3. \A k \in 1..Len(r.batch) : EntryOf(r, r.batch[k]) \in Entry
  BY <1>1, <1>2, ConnectionType DEF EntryOf, Entry
<1>4. SentBatch(r) \in Seq(Entry) /\ Len(SentBatch(r)) = Len(r.batch)
      /\ \A k \in 1..Len(r.batch) : SentBatch(r)[k] = EntryOf(r, r.batch[k])
  BY <1>1, <1>3 DEF SentBatch
<1>. QED
  BY <1>1, <1>2, <1>3, <1>4

LEMMA SentInOrder ==
  ASSUME NEW r \in Connection, GoesOn(r), NEW h \in Seq(Entry), InOrder(h), Fresh(r, h) \/ Heard(r, h)
  PROVE  LET n == LastOf(h) \o SentBatch(r) IN n \in Seq(Entry) /\ InOrder(n)
<1> DEFINE E == SentBatch(r)
           n == LastOf(h) \o E
<1>0. r.active \in Nat /\ r.last \in Nat /\ r.floor \in Nat
  BY ConnectionType
<1>1. ASSUME NEW k \in 1..Len(E), k > 1 PROVE NextTo(E[k - 1], E[k])
  <2>1. k \in 1..Len(r.batch) /\ k - 1 \in 1..Len(r.batch)
    BY <1>1, SentType
  <2>2. PICK j \in 1..Len(r.batch) : j = k - 1
    BY <2>1
  <2>3. /\ E[j].sel = E[k].sel /\ E[k].seq = r.batch[k].seq /\ E[j].seq = r.batch[j].seq
        /\ E[k].id = r.batch[k].seq /\ E[j].id = r.batch[j].seq
    <3>1. /\ E[j] = EntryOf(r, r.batch[j]) /\ E[k] = EntryOf(r, r.batch[k])
          /\ r.batch[j].id = r.batch[j].seq /\ r.batch[k].id = r.batch[k].seq
      BY <2>1, SentType
    <3>. HIDE DEF E
    <3>. QED BY <3>1 DEF EntryOf
  <2>4. r.batch[k].seq = r.batch[j].seq + 1 /\ r.batch[j].seq \in Nat
    <3>1. /\ r.batch[k].seq = r.batch[1].seq + k - 1 /\ r.batch[j].seq = r.batch[1].seq + j - 1
          /\ r.batch[j].seq \in Nat
      BY <2>1, SentType
    <3>2. 1 \in 1..Len(r.batch)
      BY <2>1
    <3>3. r.batch[1].seq \in Nat
      BY <3>2, SentType
    <3>4. k \in Nat /\ j \in Nat
      BY <2>1, SentType
    <3>5. ASSUME NEW a \in Nat, NEW u, NEW v, u = a + k - 1, v = a + j - 1 PROVE u = v + 1
      BY <2>2, <3>4, <3>5
    <3>. QED BY <3>1, <3>3, <3>5
  <2>. QED BY <2>2, <2>3, <2>4 DEF NextTo
<1>2. E \in Seq(Entry) /\ Len(E) \in Nat
  BY SentType
<1>3. CASE h = <<>>
  <2>1. n = E
    BY <1>2, <1>3 DEF LastOf
  <2>. HIDE DEF n, E
  <2>. QED BY <1>1, <1>2, <2>1 DEF InOrder, n, E
<1>4. CASE h # <<>>
  <2> DEFINE g == h[Len(h)]
  <2>1. g \in Entry /\ LastOf(h) = <<g>>
    BY <1>4 DEF LastOf, Last
  <2>2. ASSUME Len(E) > 0 PROVE NextTo(g, E[1])
    <3>1. 1 \in 1..Len(r.batch) /\ r.batch # <<>>
      BY <1>2, <2>2, SentType
    <3>2. E[1].sel = r.active /\ E[1].seq = r.batch[1].seq /\ E[1].id = r.batch[1].seq /\ E[1].floor = r.floor
      <4>1. E[1] = EntryOf(r, r.batch[1]) /\ r.batch[1].id = r.batch[1].seq
        BY <3>1, SentType
      <4>. HIDE DEF E
      <4>. QED BY <4>1 DEF EntryOf
    <3>3. /\ r.batch[1].seq > r.last /\ r.batch[1].seq \in Nat
          /\ r.batch[1].seq > r.last + 1 => r.batch[1].seq = r.floor
      BY <3>1, SentType DEF GoesOn
    <3>4. g.sel < r.active \/ (g.sel = r.active /\ g.seq = r.last /\ g.id = r.last)
      BY <1>4 DEF Fresh, Heard
    <3>. QED BY <3>2, <3>3, <3>4 DEF NextTo
  <2>. HIDE DEF g, E
  <2>3. /\ n \in Seq(Entry) /\ Len(n) = Len(E) + 1 /\ n[1] = g
        /\ \A i \in 2..Len(E) + 1 : n[i] = E[i - 1]
    BY <1>2, <2>1
  <2>. HIDE DEF n
  <2>4. ASSUME NEW i \in 1..Len(n), i > 1 PROVE NextTo(n[i - 1], n[i])
    <3>1. CASE i = 2
      <4>1. n[i - 1] = g /\ n[i] = E[1] /\ Len(E) > 0
        BY <1>2, <2>3, <2>4, <3>1
      <4>. QED BY <2>2, <4>1
    <3>2. CASE i # 2
      <4>1. PICK k \in 1..Len(E) : k = i - 1 /\ k > 1
        BY <1>2, <2>3, <2>4, <3>2
      <4>2. n[i] = E[k] /\ n[i - 1] = E[k - 1]
        BY <1>2, <2>3, <2>4, <3>2, <4>1
      <4>. QED BY <1>1, <4>1, <4>2 
    <3>. QED BY <3>1, <3>2
  <2>. QED BY <2>3, <2>4 DEF InOrder, n, E
<1>. QED
  BY <1>3, <1>4

(* After it was sent the last chunk is the last heard. *)
LEMMA SentIsHeard ==
  ASSUME NEW r \in Connection, GoesOn(r), NEW h \in Seq(Entry), Fresh(r, h) \/ Heard(r, h),
         NEW q, q.active = r.active, q.last = LastAfter(r)
  PROVE  LET n == LastOf(h) \o SentBatch(r) IN Fresh(q, n) \/ Heard(q, n)
<1> DEFINE n == LastOf(h) \o SentBatch(r)
<1>1. CASE r.batch = <<>>
  <2>1. SentBatch(r) = <<>> /\ q.last = r.last
    BY <1>1, SentType DEF LastAfter
  <2>2. CASE h = <<>>
    <3>1. n = <<>>
      BY <2>1, <2>2 DEF LastOf
    <3>. HIDE DEF n
    <3>. QED BY <2>1, <2>2, <3>1 DEF Fresh, Heard, n
  <2>3. CASE h # <<>>
    <3>1. n = <<h[Len(h)]>>
      BY <2>1, <2>3 DEF LastOf, Last
    <3>2. n # <<>> /\ n[Len(n)] = h[Len(h)]
      BY <3>1
    <3>. HIDE DEF n
    <3>. QED BY <2>1, <2>3, <3>2 DEF Fresh, Heard, n
  <2>. QED BY <2>2, <2>3
<1>2. CASE r.batch # <<>>
  <2> DEFINE l == Len(r.batch)
  <2>1. l \in 1..l /\ l \in Nat
    BY <1>2, ConnectionType
  <2>2. /\ SentBatch(r)[l] = EntryOf(r, r.batch[l]) /\ r.batch[l].id = r.batch[l].seq
        /\ Len(SentBatch(r)) = l /\ SentBatch(r) \in Seq(Entry)
    BY <2>1, SentType
  <2>3. LastOf(h) \in Seq(Entry)
    BY DEF LastOf, Last
  <2>4. n # <<>> /\ n[Len(n)] = SentBatch(r)[l]
    BY <2>1, <2>2, <2>3
  <2>5. q.last = r.batch[l].seq
    BY <1>2 DEF LastAfter, Last
  <2>6. /\ EntryOf(r, r.batch[l]).sel = q.active /\ EntryOf(r, r.batch[l]).seq = q.last
        /\ EntryOf(r, r.batch[l]).id = q.last
    BY <2>2, <2>5 DEF EntryOf
  <2>. HIDE DEF n
  <2>. QED BY <2>2, <2>4, <2>6 DEF Heard, n
<1>. QED
  BY <1>1, <1>2
-------------------------------------------------------------------------------
(* The steps of a connection. *)
LEMMA ConnectionNow ==
  ASSUME ClientInv, NEW c \in Clients
  PROVE  /\ client[c] \in Connection /\ heard = [heard EXCEPT ![c] = heard[c]]
         /\ client \in [Clients -> Connection] /\ c \in DOMAIN heard
         /\ Plays(client[c], selections) /\ Listened(client[c], heard[c], selections)
<1>1. heard \in [Clients -> Seq(Entry)]
  BY DEF ClientInv
<1>2. heard = [heard EXCEPT ![c] = heard[c]] /\ c \in DOMAIN heard
  BY <1>1
<1>. QED
  BY <1>2 DEF ClientInv

LEMMA TunesKeeps == ASSUME ClientInv, NEW c \in Clients, Tunes(c) PROVE ClientInv'
<1> DEFINE r == client[c]
<1>0. /\ r \in Connection /\ heard = [heard EXCEPT ![c] = heard[c]] /\ client \in [Clients -> Connection]
      /\ Plays(r, selections) /\ Listened(r, heard[c], selections)
  BY ConnectionNow
<1>1. PICK s \in Stations : client' = [client EXCEPT ![c].kind = "station", ![c].station = s,
                                ![c].pc = IF warm[s].on THEN "warm" ELSE "cold"]
  BY DEF Tunes
<1> DEFINE p == IF warm[s].on THEN "warm" ELSE "cold"
           q == [r EXCEPT !.kind = "station", !.station = s, !.pc = p]
<1>2. p \in {"warm", "cold"} /\ r.pc = "off" /\ ~r.gone /\ heard' = heard /\ selections' = selections
  BY DEF Tunes, shared
<1>. HIDE DEF p
<1>3. client' = [client EXCEPT ![c] = q]
  BY <1>0, <1>1 DEF Connection, p
<1>4. q \in Connection /\ q.kind = "station" /\ q.station = s /\ q.pc = p
      /\ q.active = r.active /\ q.last = r.last
  BY <1>0, <1>2 DEF Connection
<1>5. r.active = 0 /\ r.last = 0 /\ heard[c] = <<>>
  BY <1>0, <1>2 DEF Plays, Listened, Off
<1>. HIDE DEF q
<1>6. Plays(q, selections)
  BY <1>0, <1>2, <1>4, <1>5 DEF Plays
<1>7. Listened(q, heard[c], selections)
  BY <1>0, <1>2, <1>4, <1>5 DEF Listened, Fresh, InOrder
<1>. QED
  BY <1>0, <1>2, <1>3, <1>4, <1>6, <1>7, OneConnection

LEMMA PlugsKeeps == ASSUME ClientInv, NEW c \in Clients, Plugs(c) PROVE ClientInv'
<1> DEFINE r == client[c]
           q == [r EXCEPT !.kind = "jukebox", !.pc = "select"]
<1>0. /\ r \in Connection /\ heard = [heard EXCEPT ![c] = heard[c]] /\ client \in [Clients -> Connection]
      /\ Plays(r, selections) /\ Listened(r, heard[c], selections)
  BY ConnectionNow
<1>2. r.pc = "off" /\ ~r.gone /\ heard' = heard /\ selections' = selections
  BY DEF Plugs, shared
<1>3. client' = [client EXCEPT ![c] = q]
  BY <1>0 DEF Plugs, Connection
<1>4. q \in Connection /\ q.kind = "jukebox" /\ q.pc = "select" /\ q.active = r.active /\ q.last = r.last
  BY <1>0 DEF Connection
<1>5. r.active = 0 /\ r.last = 0 /\ heard[c] = <<>>
  BY <1>0, <1>2 DEF Plays, Listened, Off
<1>. HIDE DEF q
<1>6. Plays(q, selections)
  BY <1>0, <1>4, <1>5 DEF Plays
<1>7. Listened(q, heard[c], selections)
  BY <1>0, <1>4, <1>5 DEF Listened, Fresh
<1>. QED
  BY <1>0, <1>2, <1>3, <1>4, <1>6, <1>7, OneConnection

LEMMA TakeKeeps == ASSUME ClientInv, JukeboxInv, NEW c \in Clients, TakeSelection(c) PROVE ClientInv'
<1> DEFINE r == client[c]
           q == [r EXCEPT !.pc = "warm", !.station = jukebox.station, !.active = jukebox.sequence,
                          !.last = 0, !.stale = 0]
<1>0. /\ r \in Connection /\ heard = [heard EXCEPT ![c] = heard[c]] /\ client \in [Clients -> Connection]
      /\ Plays(r, selections) /\ Listened(r, heard[c], selections)
  BY ConnectionNow
<1>1. /\ jukebox.sequence \in Nat /\ jukebox.sequence > 0 /\ jukebox.sequence = Len(selections)
      /\ jukebox.station = selections[jukebox.sequence] /\ jukebox.station \in Stations
  BY DEF TakeSelection, JukeboxInv
<1>2. r.pc = "select" /\ jukebox.sequence # r.active /\ heard' = heard /\ selections' = selections
  BY DEF TakeSelection, shared
<1>3. client' = [client EXCEPT ![c] = q]
  BY <1>0 DEF TakeSelection, Connection
<1>4. q \in Connection /\ q.kind = r.kind /\ q.pc = "warm" /\ q.active = jukebox.sequence /\ q.last = 0
      /\ q.station = jukebox.station
  BY <1>0, <1>1 DEF Connection
<1>5. r.kind = "jukebox" /\ r.active \in Nat /\ r.active < jukebox.sequence
  BY <1>0, <1>1, <1>2, ConnectionType DEF Plays
<1>. HIDE DEF q
<1>6. Plays(q, selections)
  BY <1>0, <1>1, <1>4, <1>5 DEF Plays
<1>7. heard[c] # <<>> => heard[c][Len(heard[c])].sel < jukebox.sequence
  <2>1. ASSUME heard[c] # <<>> PROVE heard[c][Len(heard[c])].sel < jukebox.sequence
    <3>1. heard[c] \in Seq(Entry) /\ heard[c][Len(heard[c])] \in Entry
      BY <1>0, <2>1 DEF Listened
    <3>2. heard[c][Len(heard[c])].sel \in Nat
      BY <3>1 DEF Entry
    <3>3. heard[c][Len(heard[c])].sel <= r.active
      BY <1>0, <1>2, <1>5, <2>1, <3>2 DEF Listened, Fresh, Heard
    <3>. QED BY <1>1, <1>5, <3>2, <3>3
  <2>. QED BY <2>1
<1>8. Listened(q, heard[c], selections)
  BY <1>0, <1>4, <1>5, <1>7 DEF Listened, Fresh
<1>. QED
  BY <1>0, <1>2, <1>3, <1>4, <1>6, <1>8, OneConnection

(* A step that only moves the connection on. *)
LEMMA GotoKeeps ==
  ASSUME ClientInv, NEW c \in Clients, NEW to, ClientGoto(c, to), heard' = heard, selections' = selections,
         \/ client[c].pc = "warm" /\ to = "snapshot"
         \/ client[c].pc = "warm" /\ to = "cold" /\ client[c].kind # "jukebox"
         \/ client[c].pc = "test" /\ to = "wait"
         \/ client[c].pc = "test" /\ to = "select" /\ client[c].kind = "jukebox"
  PROVE  ClientInv'
<1> DEFINE r == client[c]
           q == [r EXCEPT !.pc = to]
<1>0. /\ r \in Connection /\ heard = [heard EXCEPT ![c] = heard[c]] /\ client \in [Clients -> Connection]
      /\ Plays(r, selections) /\ Listened(r, heard[c], selections)
  BY ConnectionNow
<1>1. client' = [client EXCEPT ![c] = q]
  BY <1>0 DEF ClientGoto, Connection
<1>2. q \in Connection /\ q.pc = to /\ q.kind = r.kind /\ q.active = r.active /\ q.last = r.last
      /\ q.station = r.station
  BY <1>0 DEF Connection
<1>. HIDE DEF q
<1>3. Plays(q, selections)
  BY <1>0, <1>2 DEF Plays
<1>4. Fresh(r, heard[c]) => Fresh(q, heard[c])
  BY <1>2 DEF Fresh
<1>5. Heard(r, heard[c]) => Heard(q, heard[c])
  BY <1>2 DEF Heard
<1>6. Listened(q, heard[c], selections)
  BY <1>0, <1>2, <1>4, <1>5 DEF Listened
<1>. QED
  BY <1>0, <1>1, <1>2, <1>3, <1>6, OneConnection

(* A step that takes chunks to write. *)
LEMMA TakesKeeps ==
  ASSUME ClientInv, NEW c \in Clients, NEW b, Takes(c, b), heard' = heard, selections' = selections,
         client[c].pc \in {"snapshot", "wait"}, NEW f \in Nat,
         f = IF Buffer(c) = <<>> THEN 0 ELSE Head(Buffer(c)).seq,
         Consecutive(b),
         b # <<>> => /\ b[1].seq > client[c].last
                     /\ b[1].seq > client[c].last + 1 => b[1].seq = f
  PROVE  ClientInv'
<1> DEFINE r == client[c]
           st == IF Superseded(c) /\ b # <<>> THEN r.stale + 1 ELSE r.stale
           q == [r EXCEPT !.pc = "write", !.batch = b, !.floor = f, !.stale = st]
<1>0. /\ r \in Connection /\ heard = [heard EXCEPT ![c] = heard[c]] /\ client \in [Clients -> Connection]
      /\ Plays(r, selections) /\ Listened(r, heard[c], selections)
  BY ConnectionNow
<1>1. st \in Nat /\ b \in Seq(Audio)
  BY <1>0, ConnectionType DEF Consecutive
<1>2. client' = [client EXCEPT ![c] = q]
  <2>1. client' = [client EXCEPT ![c].pc = "write", ![c].batch = b, ![c].floor = f,
                                 ![c].stale = IF Superseded(c) /\ b # <<>> THEN @ + 1 ELSE @]
    BY DEF Takes
  <2>. QED BY <1>0, <2>1 DEF Connection
<1>. HIDE DEF st
<1>3. q \in Connection /\ q.pc = "write" /\ q.kind = r.kind /\ q.active = r.active /\ q.last = r.last
      /\ q.station = r.station /\ q.batch = b /\ q.floor = f
  BY <1>0, <1>1 DEF Connection
<1>. HIDE DEF q
<1>4. Plays(q, selections)
  BY <1>0, <1>3 DEF Plays
<1>5. Fresh(r, heard[c]) => Fresh(q, heard[c])
  BY <1>3 DEF Fresh
<1>6. Heard(r, heard[c]) => Heard(q, heard[c])
  BY <1>3 DEF Heard
<1>7. GoesOn(q)
  BY <1>3 DEF GoesOn
<1>8. Listened(q, heard[c], selections)
  BY <1>0, <1>3, <1>5, <1>6, <1>7 DEF Listened
<1>. QED
  BY <1>0, <1>2, <1>3, <1>4, <1>8, OneConnection

LEMMA SendKeeps == ASSUME ClientInv, NEW c \in Clients, Send(c) PROVE ClientInv'
<1> DEFINE r == client[c]
           n == LastOf(heard[c]) \o SentBatch(r)
           last == LastAfter(r)
           q == [r EXCEPT !.pc = "test", !.batch = <<>>, !.last = last]
<1>0. /\ r \in Connection /\ heard = [heard EXCEPT ![c] = heard[c]] /\ client \in [Clients -> Connection]
      /\ Plays(r, selections) /\ Listened(r, heard[c], selections) /\ c \in DOMAIN heard
  BY ConnectionNow
<1>1. r.pc = "write" /\ selections' = selections /\ GoesOn(r) /\ heard[c] \in Seq(Entry)
      /\ InOrder(heard[c]) /\ (Fresh(r, heard[c]) \/ Heard(r, heard[c]))
  BY <1>0 DEF Send, shared, Listened
<1>2. last \in Nat /\ <<>> \in Seq(Audio)
  <2>1. CASE r.batch = <<>>
    BY <1>0, <2>1, ConnectionType DEF LastAfter
  <2>2. CASE r.batch # <<>>
    <3>1. Len(r.batch) \in 1..Len(r.batch)
      BY <1>0, <2>2, ConnectionType
    <3>2. r.batch[Len(r.batch)].seq \in Nat
      BY <1>0, <1>1, <3>1, SentType
    <3>. QED BY <2>2, <3>2 DEF LastAfter, Last
  <2>. QED BY <2>1, <2>2
<1>3. heard' = [heard EXCEPT ![c] = n]
  BY <1>0 DEF Send, SentBatch, EntryOf
<1>4. client' = [client EXCEPT ![c] = q]
  <2>1. client' = [client EXCEPT ![c].pc = "test", ![c].batch = <<>>,
                                 ![c].last = IF r.batch = <<>> THEN @ ELSE Last(r.batch).seq]
    BY DEF Send
  <2>. QED BY <1>0, <2>1 DEF Connection, LastAfter
<1>. HIDE DEF last
<1>5. q \in Connection /\ q.pc = "test" /\ q.kind = r.kind /\ q.active = r.active /\ q.last = last
      /\ q.station = r.station
  BY <1>0, <1>2 DEF Connection
<1>. HIDE DEF q
<1>6. Plays(q, selections)
  BY <1>0, <1>1, <1>5 DEF Plays
<1>7. n \in Seq(Entry) /\ InOrder(n) /\ (Fresh(q, n) \/ Heard(q, n))
  BY <1>0, <1>1, <1>5, SentInOrder, SentIsHeard DEF last
<1>8. ASSUME r.kind = "jukebox", NEW i \in 1..Len(n)
      PROVE  n[i].sel \in 1..Len(selections) /\ n[i].station = selections[n[i].sel]
  <2>1. r.active \in 1..Len(selections) /\ r.station = selections[r.active]
    BY <1>0, <1>1, <1>8, ConnectionType DEF Plays
  <2>2. \A j \in 1..Len(heard[c]) :
           heard[c][j].sel \in 1..Len(selections) /\ heard[c][j].station = selections[heard[c][j].sel]
    BY <1>0, <1>8 DEF Listened
  <2>3. \A k \in 1..Len(r.batch) : SentBatch(r)[k].sel = r.active /\ SentBatch(r)[k].station = r.station
    <3>1. \A k \in 1..Len(r.batch) : SentBatch(r)[k] = EntryOf(r, r.batch[k])
      BY <1>0, <1>1, SentType
    <3>2. \A a : EntryOf(r, a).sel = r.active /\ EntryOf(r, a).station = r.station
      BY DEF EntryOf
    <3>. QED BY <3>1, <3>2
  <2>4. SentBatch(r) \in Seq(Entry) /\ Len(SentBatch(r)) = Len(r.batch)
    BY <1>0, <1>1, SentType
  <2>5. CASE heard[c] = <<>>
    <3>1. n = SentBatch(r)
      BY <2>4, <2>5 DEF LastOf
    <3>. QED BY <1>8, <2>1, <2>3, <2>4, <3>1
  <2>6. CASE heard[c] # <<>>
    <3>1. LastOf(heard[c]) = <<heard[c][Len(heard[c])]>> /\ Len(heard[c]) \in 1..Len(heard[c])
      BY <1>1, <2>6 DEF LastOf, Last
    <3>2. n[i] = heard[c][Len(heard[c])] \/ \E k \in 1..Len(r.batch) : n[i] = SentBatch(r)[k]
      BY <1>8, <2>4, <3>1
    <3>. QED BY <2>1, <2>2, <2>3, <3>1, <3>2
  <2>. QED BY <2>5, <2>6
<1>. HIDE DEF n
<1>9. Listened(q, n, selections)
  BY <1>5, <1>7, <1>8 DEF Listened
<1>. QED
  BY <1>0, <1>1, <1>3, <1>4, <1>5, <1>6, <1>9, OneConnection

LEMMA SendFailsKeeps == ASSUME ClientInv, NEW c \in Clients, SendFails(c) PROVE ClientInv'
<1> DEFINE q == [Off EXCEPT !.gone = TRUE]
<1>0. /\ heard = [heard EXCEPT ![c] = heard[c]] /\ Listened(client[c], heard[c], selections)
  BY ConnectionNow
<1>1. client' = [client EXCEPT ![c] = q] /\ heard' = heard /\ selections' = selections
  BY DEF SendFails, shared
<1>2. /\ q \in Connection /\ q.pc = "off" /\ q.gone = TRUE /\ q.kind = "none" /\ q.active = 0
      /\ q = [Off EXCEPT !.gone = q.gone]
  <2>1. Off \in Connection
    BY DEF Off, Connection
  <2>2. q \in Connection /\ q.gone = TRUE
    BY <2>1 DEF Connection
  <2>. QED BY <2>2 DEF Off
<1>. HIDE DEF q
<1>3. Plays(q, selections)
  <2>1. 0 <= Len(selections)
    BY ConnectionNow, ConnectionType DEF Plays
  <2>. QED BY <1>2, <2>1 DEF Plays
<1>4. Listened(q, heard[c], selections)
  BY <1>0, <1>2 DEF Listened
<1>. QED
  BY <1>0, <1>1, <1>2, <1>3, <1>4, OneConnection

LEMMA LeavesKeeps == ASSUME ClientInv, NEW c \in Clients, Leaves(c) PROVE ClientInv'
<1> DEFINE r == client[c]
           q == [r EXCEPT !.gone = TRUE]
<1>0. /\ r \in Connection /\ heard = [heard EXCEPT ![c] = heard[c]] /\ client \in [Clients -> Connection]
      /\ Plays(r, selections) /\ Listened(r, heard[c], selections)
  BY ConnectionNow
<1>1. client' = [client EXCEPT ![c] = q] /\ heard' = heard /\ selections' = selections
  BY <1>0 DEF Leaves, Connection, shared
<1>2. /\ q \in Connection /\ q.pc = r.pc /\ q.kind = r.kind /\ q.active = r.active /\ q.last = r.last
      /\ q.station = r.station /\ q.gone = TRUE /\ q.batch = r.batch /\ q.floor = r.floor
  BY <1>0 DEF Connection
<1>3. r = [Off EXCEPT !.gone = r.gone] => q = [Off EXCEPT !.gone = q.gone]
  BY DEF Off
<1>. HIDE DEF q
<1>4. Plays(q, selections)
  BY <1>0, <1>2, <1>3 DEF Plays
<1>5. Fresh(r, heard[c]) => Fresh(q, heard[c])
  BY <1>2 DEF Fresh
<1>6. Heard(r, heard[c]) => Heard(q, heard[c])
  BY <1>2 DEF Heard
<1>7. GoesOn(r) => GoesOn(q)
  BY <1>2 DEF GoesOn
<1>8. Listened(q, heard[c], selections)
  BY <1>0, <1>2, <1>5, <1>6, <1>7 DEF Listened
<1>. QED
  BY <1>0, <1>1, <1>2, <1>4, <1>8, OneConnection
-------------------------------------------------------------------------------
(* What a connection takes of the buffer goes on from what it wrote last. *)
LEMMA BufferNow ==
  ASSUME WarmInv, ClientInv, NEW c \in Clients, client[c].pc \in {"snapshot", "wait"}
  PROVE  /\ Consecutive(Buffer(c)) /\ client[c].last \in Nat
         /\ \E f \in Nat : f = IF Buffer(c) = <<>> THEN 0 ELSE Head(Buffer(c)).seq
<1>1. client[c] \in Connection /\ Plays(client[c], selections)
  BY ConnectionNow
<1>2. client[c].station \in Stations /\ client[c].last \in Nat
  BY <1>1, ConnectionType DEF Plays
<1>3. Consecutive(Buffer(c))
  BY <1>2 DEF WarmInv, Buffered, Buffer
<1>4. CASE Buffer(c) = <<>>
  BY <1>2, <1>3, <1>4
<1>5. CASE Buffer(c) # <<>>
  <2>1. 1 \in 1..Len(Buffer(c)) /\ Head(Buffer(c)) = Buffer(c)[1]
    BY <1>3, <1>5, ConsecutiveType
  <2>2. Head(Buffer(c)).seq \in Nat
    BY <1>3, <2>1, ConsecutiveType
  <2>. QED BY <1>2, <1>3, <1>5, <2>2
<1>. QED BY <1>4, <1>5

LEMMA SnapshotKeeps == ASSUME WarmInv, ClientInv, NEW c \in Clients, Snapshot(c) PROVE ClientInv'
<1> DEFINE b == Buffer(c)
<1>1. client[c].pc = "snapshot" /\ Takes(c, b) /\ heard' = heard /\ selections' = selections
  BY DEF Snapshot, shared
<1>2. PICK f \in Nat : f = IF b = <<>> THEN 0 ELSE Head(b).seq
  BY <1>1, BufferNow
<1>3. Consecutive(b) /\ client[c].last = 0
  BY <1>1, BufferNow, ConnectionNow DEF Listened, Fresh
<1>4. ASSUME b # <<>> PROVE b[1].seq > client[c].last /\ b[1].seq = f
  <2>1. 1 \in 1..Len(b) /\ Head(b) = b[1]
    BY <1>3, <1>4, ConsecutiveType
  <2>. QED BY <1>2, <1>3, <1>4, <2>1 DEF Consecutive
<1>. HIDE DEF b
<1>. QED
  BY <1>1, <1>2, <1>3, <1>4, TakesKeeps DEF b

LEMMA NewerKeeps == ASSUME WarmInv, ClientInv, NEW c \in Clients, WaitForNewer(c) PROVE ClientInv'
<1> DEFINE B == Buffer(c)
           b == Newer(c)
           last == client[c].last
<1>1. client[c].pc = "wait" /\ Takes(c, b) /\ heard' = heard /\ selections' = selections
  BY DEF WaitForNewer, shared
<1>2. PICK f \in Nat : f = IF B = <<>> THEN 0 ELSE Head(B).seq
  BY <1>1, BufferNow
<1>3. Consecutive(B) /\ last \in Nat
  BY <1>1, BufferNow
<1>4. PICK k \in 1..Len(B) + 1 :
         /\ b = SubSeq(B, k, Len(B))
         /\ k <= Len(B) => B[k].seq > last
         /\ k > 1 => B[k - 1].seq <= last
  <2>. HIDE DEF B, last
  <2>1. b = After(B, last)
    BY DEF Newer, B, last
  <2>. QED BY <1>3, <2>1, AfterEnds
<1>. HIDE DEF B, b, last
<1>5. Len(B) \in Nat /\ \A i \in 1..Len(B) : B[i].seq \in Nat
  BY <1>3, ConsecutiveType
<1>6. Consecutive(b) /\ (b # <<>> <=> k <= Len(B)) /\ (k <= Len(B) => b[1] = B[k])
  BY <1>3, <1>4, EndConsecutive
<1>7. ASSUME b # <<>>, b[1].seq > last + 1 PROVE b[1].seq = f
  <2>1. k \in 1..Len(B) /\ B[k].seq > last + 1 /\ b[1] = B[k]
    BY <1>6, <1>7
  <2>2. CASE k = 1
    <3>1. Head(B) = B[1] /\ B # <<>>
      BY <1>5, <2>1
    <3>. QED BY <1>2, <2>1, <2>2, <3>1
  <2>3. CASE k # 1
    <3>1. PICK j \in 1..Len(B) : j = k - 1
      BY <1>5, <2>1, <2>3
    <3>2. B[j].seq <= last /\ B[j].seq = B[1].seq + j - 1 /\ B[k].seq = B[1].seq + k - 1
      BY <1>3, <1>4, <1>5, <2>1, <2>3, <3>1 DEF Consecutive
    <3>3. B[1].seq \in Nat /\ k \in Nat /\ j \in Nat
      BY <1>5, <2>1, <3>1
    <3>4. ASSUME NEW x \in Nat, NEW u, NEW v, u = x + j - 1, v = x + k - 1, u <= last, v > last + 1 PROVE FALSE
      BY <1>3, <3>1, <3>3, <3>4
    <3>. QED BY <2>1, <3>2, <3>3, <3>4
  <2>. QED BY <2>2, <2>3
<1>8. b # <<>> => b[1].seq > last /\ (b[1].seq > last + 1 => b[1].seq = f)
  BY <1>4, <1>6, <1>7
<1>. QED
  BY <1>1, <1>2, <1>6, <1>8, TakesKeeps DEF B, last

LEMMA ClientStep == HearInv /\ [ProxyNext]_proxyVars => ClientInv'
<1> SUFFICES ASSUME WarmInv, JukeboxInv, ClientInv, [ProxyNext]_proxyVars PROVE ClientInv'
  BY DEF HearInv
<1>0. UNCHANGED <<client, heard, selections>> => ClientInv'
  BY DEF ClientInv
<1>1. ASSUME NEW s \in Stations, Warmer(s) \/ Select(s) PROVE ClientInv'
  <2>1. CASE Warmer(s)
    BY <1>0, <2>1 DEF Warmer, Warm, Connects, Fails, Appends
  <2>. QED BY <1>1, <2>1, ClientSelect
<1>2. ASSUME NEW c \in Clients, Tunes(c) \/ Plugs(c) \/ Listens(c) \/ Leaves(c) PROVE ClientInv'
  <2>1. CASE WaitForChunks(c)
    <3>1. /\ client[c].pc = "warm"
          /\ \/ ClientGoto(c, "snapshot")
             \/ ClientGoto(c, "cold") /\ client[c].kind # "jukebox"
      <4>1. CASE AtJukebox(c)
        BY <2>1, <4>1, Zenon DEF WaitForChunks
      <4>2. CASE ~AtJukebox(c)
        BY <2>1, <4>2, Zenon DEF WaitForChunks, AtJukebox
      <4>. QED BY <4>1, <4>2
    <3>2. heard' = heard /\ selections' = selections
      BY <2>1 DEF WaitForChunks, shared
    <3>. QED BY <3>1, <3>2, GotoKeeps
  <2>2. CASE Test(c)
    <3>1. /\ client[c].pc = "test"
          /\ \/ ClientGoto(c, "wait")
             \/ ClientGoto(c, "select") /\ client[c].kind = "jukebox"
      <4>1. CASE Superseded(c)
        BY <2>2, <4>1, Zenon DEF Test, Superseded, AtJukebox
      <4>2. CASE ~Superseded(c)
        BY <2>2, <4>2, Zenon DEF Test
      <4>. QED BY <4>1, <4>2
    <3>2. heard' = heard /\ selections' = selections
      BY <2>2 DEF Test, shared
    <3>. QED BY <3>1, <3>2, GotoKeeps
  <2>. QED
    BY <1>2, <2>1, <2>2, TunesKeeps, PlugsKeeps, TakeKeeps, SnapshotKeeps, NewerKeeps, SendKeeps,
       SendFailsKeeps, LeavesKeeps DEF Listens
<1>3. CASE UNCHANGED proxyVars
  BY <1>0, <1>3 DEF proxyVars
<1>. QED
  BY <1>1, <1>2, <1>3 DEF ProxyNext

LEMMA InitHear == ProxyInit => HearInv
<1> SUFFICES ASSUME ProxyInit PROVE HearInv
  OBVIOUS
<1> DEFINE w == [on |-> FALSE, up |-> FALSE, chunks |-> <<>>, sequence |-> 0]
<1>1. WarmInv
  <2>1. w \in StreamState /\ w.up = FALSE /\ w.sequence = 0 /\ w.chunks = <<>>
    BY DEF StreamState
  <2>2. Consecutive(<<>>)
    BY DEF Consecutive
  <2>3. Bytes(<<>>) <= BufferBytes
    <3>1. BufferBytes \in Nat
      BY ProxyAssumption
    <3>. QED BY <3>1, NoBytes
  <2>4. warm = [s \in Stations |-> w] /\ made = [s \in Stations |-> 0]
    BY DEF ProxyInit
  <2>. HIDE DEF w
  <2>5. Buffered(w, 0)
    BY <2>1, <2>2, <2>3 DEF Buffered
  <2>. QED BY <2>1, <2>4, <2>5 DEF WarmInv
<1>2. JukeboxInv
  BY DEF ProxyInit, JukeboxInv
<1>3. ClientInv
  <2>1. Off \in Connection /\ Off.pc = "off" /\ Off.kind = "none" /\ Off.active = 0 /\ Off.gone = FALSE
        /\ Off = [Off EXCEPT !.gone = Off.gone]
    <3>1. Off \in Connection
      BY DEF Off, Connection
    <3>2. Off = [Off EXCEPT !.gone = Off.gone]
      BY <3>1 DEF Connection
    <3>. QED BY <3>1, <3>2 DEF Off
  <2>2. Plays(Off, <<>>) /\ Listened(Off, <<>>, <<>>)
    BY <2>1 DEF Plays, Listened, InOrder
  <2>. QED BY <2>1, <2>2 DEF ProxyInit, ClientInv
<1>. QED BY <1>1, <1>2, <1>3 DEF HearInv

LEMMA HearStep == HearInv /\ [ProxyNext]_proxyVars => HearInv'
BY WarmStep, JukeboxStep, ClientStep DEF HearInv

LEMMA HearIsTyped == HearInv => ProxyTypeOK
<1> SUFFICES ASSUME WarmInv, JukeboxInv, ClientInv PROVE ProxyTypeOK
  BY DEF HearInv
<1>1. ASSUME NEW s \in Stations
      PROVE  /\ warm[s].up => warm[s].on
             /\ Bytes(warm[s].chunks) <= BufferBytes
             /\ \A i \in 1..Len(warm[s].chunks) :
                  warm[s].chunks[i].seq = warm[s].sequence - Len(warm[s].chunks) + i
  <2> DEFINE b == warm[s].chunks
  <2>1. /\ warm[s].up => warm[s].on
        /\ Bytes(b) <= BufferBytes /\ Consecutive(b) /\ (b # <<>> => b[Len(b)].seq = warm[s].sequence)
    BY DEF WarmInv, Buffered
  <2>. HIDE DEF b
  <2>2. ASSUME NEW i \in 1..Len(b) PROVE b[i].seq = warm[s].sequence - Len(b) + i
    <3>1. b # <<>> /\ Len(b) \in 1..Len(b) /\ 1 \in 1..Len(b) /\ Len(b) \in Nat /\ b[1].seq \in Nat /\ i \in Nat
      BY <2>1, <2>2, ConsecutiveType
    <3>2. /\ b[i].seq = b[1].seq + i - 1 /\ b[Len(b)].seq = b[1].seq + Len(b) - 1
          /\ b[Len(b)].seq = warm[s].sequence
      BY <2>1, <2>2, <3>1 DEF Consecutive
    <3>3. ASSUME NEW x \in Nat, NEW u, NEW v, u = x + i - 1, v = x + Len(b) - 1 PROVE u = v - Len(b) + i
      BY <3>1, <3>3
    <3>. QED BY <3>1, <3>2, <3>3
  <2>. QED BY <2>1, <2>2 DEF b
<1>2. ASSUME NEW c \in Clients
      PROVE  /\ client[c].pc \in {"off", "cold", "select", "warm", "snapshot", "write", "test", "wait"}
             /\ client[c].pc \in {"snapshot", "write", "wait"} => client[c].station \in Stations
  BY ConnectionNow, ConnectionType DEF Plays
<1>. QED
  BY <1>1, <1>2 DEF ProxyTypeOK, JukeboxInv

(* The type invariant of the proxy: a buffer is numbered without a gap up to the chunk read last
   and holds no more bytes than it may, for chunks of any sizes. *)
THEOREM ProxyTyped == ProxySpec => []ProxyTypeOK
BY InitHear, HearStep, HearIsTyped, PTL DEF ProxySpec

(* A player hears of one selection its station, in order, nothing twice and nothing left out but
   what the buffer had given up, across reconnections of the warmer and changes of the selection
   between any two steps of the thread. *)
THEOREM StationsHeardInOrder == ProxySpec => []HeardInOrder
<1>1. HearInv => HeardInOrder
  <2> SUFFICES ASSUME ClientInv, NEW c \in Clients, NEW i \in 1..Len(heard[c])
               PROVE  LET h == heard[c][i] IN
                      /\ AtJukebox(c) => h.station = selections[h.sel]
                      /\ i > 1 =>
                           LET g == heard[c][i - 1] IN
                           \/ g.sel < h.sel
                           \/ /\ g.sel = h.sel /\ g.id < h.id
                              /\ h.seq > g.seq + 1 => h.seq = h.floor
    BY DEF HearInv, HeardInOrder
  <2>1. Listened(client[c], heard[c], selections)
    BY ConnectionNow
  <2>2. AtJukebox(c) => heard[c][i].station = selections[heard[c][i].sel]
    BY <2>1 DEF Listened, AtJukebox
  <2>3. i > 1 => NextTo(heard[c][i - 1], heard[c][i])
    BY <2>1 DEF Listened, InOrder
  <2>. QED BY <2>2, <2>3 DEF NextTo
<1>. QED
  BY <1>1, InitHear, HearStep, PTL DEF ProxySpec

(* The type invariants of the filter and of the proxy hold in the specification the runs check. *)
THEOREM StreamsTyped == StreamsSpec => []TypesOK
<1>1. StreamsInit => CountInv /\ HearInv
  BY InitCounts, InitHear DEF StreamsInit
<1>2. CountInv /\ HearInv /\ [StreamsNext]_<<which, pcmVars, proxyVars>> => CountInv' /\ HearInv'
  <2>1. ASSUME [StreamsNext]_<<which, pcmVars, proxyVars>>
        PROVE  [PcmNext]_pcmVars /\ [ProxyNext]_proxyVars
    BY <2>1 DEF StreamsNext
  <2>. QED BY <2>1, CountStep, HearStep
<1>3. CountInv => PcmTypeOK
  BY DEF CountInv
<1>. QED
  BY <1>1, <1>2, <1>3, HearIsTyped, PTL DEF StreamsSpec, TypesOK
===============================================================================
