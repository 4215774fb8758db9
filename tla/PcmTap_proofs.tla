---------------------------- MODULE PcmTap_proofs ----------------------------
(***************************************************************************)
(* Proofs about PcmTap for every buffer size, every set of delays and      *)
(* every length of the input: what is heard, for every cut of the input    *)
(* into reads that complete a carried sample (ReadsComplete); how much is  *)
(* heard, for every cut.                                                   *)
(***************************************************************************)
EXTENDS PcmTap, Integers, TLAPS

(* A read is at least a sample less one byte.  nq-pcm-level-tap relies on it. *)
ReadsComplete == \A b \in Formats : MinRead >= b - 1

(* The number of samples that have gone through the delay line. *)
Fed == Len(out) + Len(buf)

(* The source's sample j, silence before the first one and after the last. *)
Sample(j) == IF 1 <= j /\ j <= conv THEN j ELSE 0

(* Of the samples in the line, those before pos went in since the last wrap. *)
RingOK ==
  /\ pos <= Fed
  /\ \A i \in 0..(delay - 1) :
       ring[i] = IF i < pos THEN Sample(Fed - pos + i + 1)
                            ELSE Sample(Fed - pos - delay + i + 1)

CountsOK ==
  /\ delay > 0 => (sawInput <=> Fed > 0)
  /\ pc \in {"loop", "read", "delay"} => Fed + left = conv
  /\ pc \in {"loop", "read", "flush"} => left = 0 /\ buf = <<>>
  /\ pc \in {"flush", "drain"} => Fed >= conv
  /\ pc \in {"flush", "drain"} => Fed + left + remaining <= conv + delay
  /\ pc \in {"flush", "drain"} /\ keepRunning =>
       Fed + left + remaining = IF conv = 0 THEN 0 ELSE conv + delay
  /\ pc \in {"flush", "drain"} /\ remaining > 0 => delay > 0

(* The bytes of the samples at hand are among those read. *)
InputOK ==
  /\ carryLen <= got
  /\ pc = "delay" => sampleBytes * left + carryLen <= got

(* How much went where, however the reads cut the input. *)
CountInv == PcmTypeOK /\ CountsOK /\ InputOK /\ CompleteAtEof

(* And which samples they are. *)
LineInv ==
  /\ CountInv /\ RingOK
  /\ OutIsDelayedInput
  /\ \A i \in 1..Len(buf) : buf[i] = Expected(Len(out) + i)

BytesInv ==
  /\ sampleBytes \in {2, 4} /\ MinRead >= sampleBytes - 1
  /\ conv \in Nat /\ carryLen \in 0..(sampleBytes - 1)
  /\ AllBytesKept

-------------------------------------------------------------------------------
(* A read that completes the carried sample keeps every byte. *)
LEMMA ReadKeepsBytes ==
  ASSUME BytesInv, NEW n \in Nat, n >= MinRead
  PROVE  /\ Samples(n) \in Nat /\ CarryAfter(n) \in 0..(sampleBytes - 1)
         /\ carryLen + n = sampleBytes * Samples(n) + CarryAfter(n)
<1>. DEFINE done == IF Completes(n) THEN 1 ELSE 0
             rest == Rest(n)
<1>1. carryLen = 0 \/ Completes(n)
  BY TapAssumption DEF BytesInv, Completes
<1>2. done \in {0, 1} /\ rest \in Nat /\ carryLen + n = sampleBytes * done + rest
  BY <1>1 DEF BytesInv, Rest, Completes
<1>3. Samples(n) = done + (rest \div sampleBytes) /\ CarryAfter(n) = rest % sampleBytes
  BY DEF Samples, CarryAfter
<1>. HIDE DEF done, rest
<1>4. CASE sampleBytes = 2
  BY <1>2, <1>3, <1>4
<1>5. CASE sampleBytes = 4
  BY <1>2, <1>3, <1>5
<1>. QED BY <1>4, <1>5 DEF BytesInv

(* No read makes samples of bytes that were not read. *)
LEMMA ReadMakesNoBytes ==
  ASSUME sampleBytes \in {2, 4}, carryLen \in Nat, NEW n \in Nat
  PROVE  /\ Samples(n) \in Nat /\ CarryAfter(n) \in Nat
         /\ sampleBytes * Samples(n) + CarryAfter(n) <= carryLen + n
<1>. DEFINE done == IF Completes(n) THEN 1 ELSE 0
             rest == Rest(n)
<1>2. done \in {0, 1} /\ rest \in Nat /\ sampleBytes * done + rest <= carryLen + n
  BY DEF Rest, Completes
<1>3. Samples(n) = done + (rest \div sampleBytes) /\ CarryAfter(n) = rest % sampleBytes
  BY DEF Samples, CarryAfter
<1>. HIDE DEF done, rest
<1>4. CASE sampleBytes = 2
  BY <1>2, <1>3, <1>4
<1>5. CASE sampleBytes = 4
  BY <1>2, <1>3, <1>5
<1>. QED BY <1>4, <1>5

LEMMA InitBytes == ReadsComplete /\ PcmInit => BytesInv
BY TapAssumption DEF ReadsComplete, PcmInit, BytesInv, AllBytesKept

LEMMA BytesStep ==
  ASSUME BytesInv, [PcmNext]_pcmVars
  PROVE  BytesInv'
<1>1. CASE Read
  <2>1. PICK n \in MinRead..BufSize :
          /\ got' = got + n /\ carryLen' = CarryAfter(n) /\ conv' = conv + Samples(n)
    BY <1>1 DEF Read
  <2>2. n \in Nat /\ n >= MinRead
    BY <2>1, TapAssumption
  <2>3. /\ Samples(n) \in Nat /\ CarryAfter(n) \in 0..(sampleBytes - 1)
        /\ carryLen + n = sampleBytes * Samples(n) + CarryAfter(n)
    BY <2>2, ReadKeepsBytes
  <2>4. sampleBytes' = sampleBytes
    BY <1>1 DEF Read, options
  <2>5. CASE sampleBytes = 2
    BY <2>1, <2>2, <2>3, <2>4, <2>5 DEF BytesInv, AllBytesKept
  <2>6. CASE sampleBytes = 4
    BY <2>1, <2>2, <2>3, <2>4, <2>6 DEF BytesInv, AllBytesKept
  <2>. QED BY <2>5, <2>6 DEF BytesInv
<1>2. CASE UNCHANGED <<options, inputVars>>
  BY <1>2 DEF BytesInv, AllBytesKept, options, inputVars
<1>. QED BY <1>1, <1>2 DEF PcmNext, Step, Loop, ReadEof, DelaySample, Write, WriteFails,
         Flush, DrainSample, DrainWrite, Exit, Signal, SourceEnds, AplayEnds, Pass, Written,
         pcmVars, options, inputVars

(* No byte of the source is lost, however the reads cut the stream, as long as every read
   completes a carried sample. *)
THEOREM BytesKept == ReadsComplete /\ PcmSpec => []AllBytesKept
<1>1. BytesInv => AllBytesKept
  BY DEF BytesInv
<1>. QED BY <1>1, InitBytes, BytesStep, PTL DEF PcmSpec

-------------------------------------------------------------------------------
(* The delay line. *)

LEMMA SampleType == ASSUME conv \in Nat, NEW j \in Int PROVE Sample(j) \in Nat
BY DEF Sample

LEMMA ExpectedIsSample ==
  ASSUME PcmTypeOK, NEW i \in Nat
  PROVE  Expected(i) = Sample(i - delay)
BY DEF PcmTypeOK, Expected, Sample

(* One sample in, one out. *)
LEMMA PassCounts ==
  ASSUME PcmTypeOK, NEW x \in Nat, Pass(x), UNCHANGED pc
  PROVE  /\ PcmTypeOK'
         /\ Fed' = Fed + 1
         /\ buf' = Append(buf, IF delay = 0 THEN x ELSE ring[pos])
         /\ UNCHANGED <<sampleBytes, delay, conv, got, carryLen, out, remaining, keepRunning>>
<1>. /\ conv \in Nat /\ delay \in Nat /\ pos \in Nat /\ buf \in Seq(Nat) /\ out \in Seq(Nat)
     /\ Fed \in Nat /\ left \in Nat
  BY DEF PcmTypeOK, Fed
<1>1. PICK y \in Nat : buf' = Append(buf, y) /\ y = IF delay = 0 THEN x ELSE ring[pos]
  <2>1. CASE delay = 0
    BY <2>1 DEF Pass
  <2>2. CASE delay > 0
    <3>1. pos \in 0..(delay - 1)
      BY <2>2 DEF PcmTypeOK
    <3>. QED BY <3>1, <2>2 DEF Pass, PcmTypeOK
  <2>. QED BY <2>1, <2>2
<1>2. buf' \in Seq(Nat) /\ Len(buf') = Len(buf) + 1
  BY <1>1
<1>3. UNCHANGED <<sampleBytes, delay, conv, got, carryLen, out, remaining, keepRunning, ret,
                 eof, aplay>>
  BY DEF Pass, options, inputVars, world
<1>4. Fed' = Fed + 1
  BY <1>2, <1>3 DEF Fed
<1>5. PcmTypeOK'
  <2>1. ring' \in [0..(delay - 1) -> Nat] /\ sawInput' \in BOOLEAN
    BY DEF PcmTypeOK, Pass, lineVars
  <2>2. pos' \in Nat /\ (pos' < delay \/ pos' = 0)
    <3>1. pos' = pos \/ pos' = IF pos + 1 >= delay THEN 0 ELSE pos + 1
      BY DEF Pass, lineVars
    <3>. QED BY <3>1 DEF PcmTypeOK
  <2>3. left' \in Nat
    BY DEF Pass
  <2>. QED BY <1>2, <1>3, <2>1, <2>2, <2>3 DEF PcmTypeOK
<1>. QED BY <1>1, <1>3, <1>4, <1>5

(* What the buffer gets is what is due. *)
LEMMA PassLine ==
  ASSUME PcmTypeOK, RingOK, NEW x, Pass(x), x = Sample(Fed + 1), UNCHANGED pc,
         \A i \in 1..Len(buf) : buf[i] = Expected(Len(out) + i)
  PROVE  /\ RingOK'
         /\ \A i \in 1..Len(buf') : buf'[i] = Expected(Len(out) + i)
<1>. /\ conv \in Nat /\ delay \in Nat /\ pos \in Nat /\ buf \in Seq(Nat) /\ out \in Seq(Nat)
     /\ Fed \in Nat /\ left \in Nat
  BY DEF PcmTypeOK, Fed
<1>0. x \in Nat
  BY SampleType
<1>1. PICK y \in Nat : buf' = Append(buf, y) /\ y = Sample(Fed + 1 - delay)
  <2>1. CASE delay = 0
    BY <2>1, <1>0, PassCounts
  <2>2. CASE delay > 0
    <3>1. pos \in 0..(delay - 1)
      BY <2>2 DEF PcmTypeOK
    <3>2. ring[pos] = Sample(Fed - pos - delay + pos + 1)
      BY <3>1 DEF RingOK
    <3>3. ring[pos] = Sample(Fed + 1 - delay)
      BY <3>2, <3>1
    <3>4. ring[pos] \in Nat
      BY <3>1 DEF PcmTypeOK
    <3>5. buf' = Append(buf, ring[pos])
      BY <2>2, <1>0, PassCounts
    <3>. QED BY <3>3, <3>4, <3>5
  <2>. QED BY <2>1, <2>2
<1>2. /\ buf' \in Seq(Nat) /\ Len(buf') = Len(buf) + 1 /\ buf'[Len(buf) + 1] = y
      /\ \A i \in 1..Len(buf) : buf'[i] = buf[i]
  BY <1>1
<1>3. UNCHANGED <<delay, conv>> /\ Fed' = Fed + 1
  BY <1>0, PassCounts
<1>5. \A i \in 1..Len(buf') : buf'[i] = Expected(Len(out) + i)
  <2>1. Expected(Len(out) + Len(buf) + 1) = y
    BY <1>1, ExpectedIsSample DEF Fed
  <2>2. Len(out) + Len(buf) + 1 = Len(out) + (Len(buf) + 1)
    OBVIOUS
  <2>3. TAKE i \in 1..Len(buf')
  <2>4. CASE i = Len(buf) + 1
    BY <1>2, <2>1, <2>2, <2>4
  <2>5. CASE i \in 1..Len(buf)
    BY <1>2, <2>5
  <2>. QED BY <1>2, <2>4, <2>5
<1>7. RingOK'
  <2>1. \A j : Sample(j)' = Sample(j)
    BY <1>3 DEF Sample
  <2>2. CASE delay = 0
    BY <2>2, <1>3 DEF RingOK, Pass, lineVars
  <2>3. CASE delay > 0
    <3>1. pos \in 0..(delay - 1) /\ pos <= Fed
      BY <2>3 DEF PcmTypeOK, RingOK
    <3>2. /\ ring' = [ring EXCEPT ![pos] = x]
          /\ pos' = IF pos + 1 >= delay THEN 0 ELSE pos + 1
      BY <2>3 DEF Pass
    <3>3. \A i \in 0..(delay - 1) : ring'[i] = IF i = pos THEN x ELSE ring[i]
      BY <3>2 DEF PcmTypeOK
    <3>4. pos' <= Fed'
      BY <3>1, <3>2, <1>3
    <3>5. ASSUME NEW i \in 0..(delay - 1)
          PROVE  ring'[i] = IF i < pos' THEN Sample(Fed' - pos' + i + 1)
                            ELSE Sample(Fed' - pos' - delay + i + 1)
      <4>1. CASE i = pos
        BY <4>1, <3>1, <3>2, <3>3, <1>3
      <4>2. CASE i < pos
        <5>1. ring'[i] = Sample(Fed - pos + i + 1)
          BY <4>2, <3>1, <3>3 DEF RingOK
        <5>2. CASE pos + 1 >= delay
          <6>1. pos = delay - 1 /\ pos' = 0
            BY <5>2, <3>1, <3>2
          <6>2. Fed - pos + i + 1 = Fed' - pos' - delay + i + 1
            BY <6>1, <1>3
          <6>. QED BY <6>1, <6>2, <5>1
        <5>3. CASE pos + 1 < delay
          <6>1. pos' = pos + 1
            BY <5>3, <3>1, <3>2
          <6>2. Fed - pos + i + 1 = Fed' - pos' + i + 1
            BY <6>1, <1>3
          <6>. QED BY <4>2, <6>1, <6>2, <5>1, <3>1
        <5>. QED BY <5>2, <5>3, <3>1
      <4>3. CASE i > pos
        <5>1. ring'[i] = Sample(Fed - pos - delay + i + 1)
          BY <4>3, <3>1, <3>3 DEF RingOK
        <5>. QED BY <5>1, <4>3, <3>1, <3>2, <1>3
      <4>. QED BY <4>1, <4>2, <4>3, <3>1
    <3>. QED BY <3>4, <3>5, <2>1, <1>3 DEF RingOK
  <2>. QED BY <2>2, <2>3
<1>. QED BY <1>5, <1>7
-------------------------------------------------------------------------------
LEMMA InitLine == PcmInit => LineInv
<1>. SUFFICES ASSUME PcmInit PROVE LineInv
  OBVIOUS
<1>1. delay \in Nat
  <2>1. PICK ms \in Delays : delay = DelaySamples(ms)
    BY DEF PcmInit
  <2>2. ms \in Nat /\ Channels * 2 \in Nat \ {0}
    BY TapAssumption
  <2>3. CASE ms = 0
    BY <2>1, <2>3 DEF DelaySamples
  <2>4. CASE ms # 0
    <3>. DEFINE frame == Channels * 2
                bytes == (Rate * frame * ms) \div 1000
                atLeast == IF bytes < frame THEN frame ELSE bytes
    <3>1. frame \in Nat \ {0}
      BY <2>2
    <3>2. Rate * frame * ms \in Nat
      BY <2>2, <3>1, TapAssumption
    <3>3. bytes \in Nat
      BY <3>2
    <3>4. atLeast \in Nat
      BY <3>1, <3>3
    <3>5. delay = (atLeast - (atLeast % frame)) \div 2
      BY <2>1, <2>4 DEF DelaySamples
    <3>. HIDE DEF frame, bytes, atLeast
    <3>6. atLeast % frame \in Nat /\ atLeast % frame <= atLeast
      BY <3>1, <3>4
    <3>7. atLeast - (atLeast % frame) \in Nat
      BY <3>4, <3>6
    <3>. QED BY <3>5, <3>7
  <2>. QED BY <2>3, <2>4
<1>2. PcmTypeOK
  <2>1. ring \in [0..(delay - 1) -> Nat]
    BY <1>1 DEF PcmInit
  <2>2. buf \in Seq(Nat) /\ out \in Seq(Nat)
    BY DEF PcmInit
  <2>. QED BY <1>1, <2>1, <2>2 DEF PcmInit, PcmTypeOK
<1>3. RingOK
  BY <1>1 DEF PcmInit, RingOK, Fed, Sample
<1>. QED BY <1>1, <1>2, <1>3 DEF PcmInit, LineInv, CountInv, CountsOK, InputOK, OutIsDelayedInput,
         CompleteAtEof, Fed

LEMMA ReadCounts ==
  ASSUME CountInv, Read
  PROVE  /\ CountInv'
         /\ conv' \in Nat /\ conv' >= conv /\ Fed = conv /\ Len(out) = conv /\ Fed' = Fed
         /\ UNCHANGED <<delay, ring, pos, buf, out>> /\ buf = <<>>
<1>1. PICK n \in MinRead..BufSize :
        /\ got' = got + n /\ carryLen' = CarryAfter(n) /\ conv' = conv + Samples(n)
        /\ left' = Samples(n) /\ pc' = IF Samples(n) = 0 THEN "loop" ELSE "delay"
  BY DEF Read
<1>2. /\ n \in Nat /\ sampleBytes \in {2, 4} /\ carryLen \in Nat /\ conv \in Nat /\ got \in Nat
      /\ delay \in Nat /\ carryLen <= got
  BY <1>1, TapAssumption DEF CountInv, PcmTypeOK, InputOK
<1>4. /\ Samples(n) \in Nat /\ CarryAfter(n) \in Nat
      /\ sampleBytes * Samples(n) + CarryAfter(n) <= carryLen + n
  BY <1>2, ReadMakesNoBytes
<1>5. UNCHANGED <<sampleBytes, delay, ring, pos, sawInput, buf, remaining, keepRunning, ret,
                 eof, aplay, out>>
  BY DEF Read, options, lineVars, world
<1>6. pc = "read" /\ left = 0 /\ buf = <<>> /\ Fed = conv /\ Len(out) = conv
  BY DEF Read, CountInv, CountsOK, Fed, PcmTypeOK
<1>7. PcmTypeOK'
  <2>1. got' \in Nat /\ carryLen' \in Nat /\ conv' \in Nat /\ left' \in Nat
    BY <1>1, <1>2, <1>4
  <2>2. pc' \in {"loop", "delay"}
    BY <1>1
  <2>. QED BY <1>5, <2>1, <2>2 DEF CountInv, PcmTypeOK
<1>8. Fed' = Fed /\ Fed \in Nat
  BY <1>2, <1>5, <1>6 DEF Fed
<1>9. InputOK'
  <2>1. sampleBytes' * left' + carryLen' <= got'
    <3>1. sampleBytes' * left' + carryLen' = sampleBytes * Samples(n) + CarryAfter(n)
      BY <1>1, <1>5
    <3>2. sampleBytes * Samples(n) \in Nat
      BY <1>2, <1>4
    <3>. QED BY <1>1, <1>2, <1>4, <3>1, <3>2
  <2>2. carryLen' <= got'
    <3>1. sampleBytes * Samples(n) \in Nat
      BY <1>2, <1>4
    <3>. QED BY <1>1, <1>2, <1>4, <3>1
  <2>. QED BY <2>1, <2>2 DEF InputOK
<1>11. CountsOK'
  BY <1>1, <1>2, <1>4, <1>5, <1>6, <1>8 DEF CountInv, CountsOK
<1>12. CompleteAtEof'
  BY <1>1 DEF CompleteAtEof
<1>13. conv' \in Nat /\ conv' >= conv
  <2>1. conv' = conv + Samples(n)
    BY <1>1
  <2>2. conv \in Nat /\ Samples(n) \in Nat
    BY <1>2, <1>4
  <2>. QED BY <2>1, <2>2
<1>. QED BY <1>5, <1>6, <1>7, <1>8, <1>9, <1>11, <1>12, <1>13 DEF CountInv

(* Nothing that the line holds or has put out depends on samples still to come. *)
LEMMA ReadLine ==
  ASSUME LineInv, Read
  PROVE  LineInv'
<1>1. /\ CountInv' /\ conv' \in Nat /\ conv' >= conv /\ Fed = conv /\ Len(out) = conv
      /\ Fed' = Fed
      /\ UNCHANGED <<delay, ring, pos, buf, out>> /\ buf = <<>>
  BY ReadCounts DEF LineInv
<1>2. Fed \in Nat /\ delay \in Nat /\ pos \in Nat /\ conv \in Nat
  BY DEF Fed, LineInv, CountInv, PcmTypeOK
<1>3. \A j \in Int : j <= Fed => Sample(j)' = Sample(j)
  BY <1>1, <1>2 DEF Sample
<1>4. RingOK'
  <2>1. pos' <= Fed'
    BY <1>1 DEF LineInv, RingOK
  <2>2. ASSUME NEW i \in 0..(delay - 1)
        PROVE  (ring[i] = IF i < pos THEN Sample(Fed - pos + i + 1)
                          ELSE Sample(Fed - pos - delay + i + 1))'
    <3>1. ring[i] = IF i < pos THEN Sample(Fed - pos + i + 1)
                    ELSE Sample(Fed - pos - delay + i + 1)
      BY DEF LineInv, RingOK
    <3>2. CASE i < pos
      <4>1. Fed - pos + i + 1 \in Int /\ Fed - pos + i + 1 <= Fed
        BY <3>2, <1>2
      <4>. QED BY <3>1, <3>2, <4>1, <1>1, <1>3 DEF Sample
    <3>3. CASE ~(i < pos)
      <4>1. Fed - pos - delay + i + 1 \in Int /\ Fed - pos - delay + i + 1 <= Fed
        BY <3>3, <1>2
      <4>. QED BY <3>1, <3>3, <4>1, <1>1, <1>3 DEF Sample
    <3>. QED BY <3>2, <3>3
  <2>. QED BY <2>1, <2>2, <1>1 DEF RingOK
<1>5. OutIsDelayedInput'
  <2>1. ASSUME NEW i \in 1..Len(out) PROVE Expected(i)' = Expected(i)
    BY <1>1, <1>2 DEF Expected
  <2>. QED BY <2>1, <1>1 DEF LineInv, OutIsDelayedInput
<1>. QED BY <1>1, <1>4, <1>5 DEF LineInv

LEMMA NextSampleType == CountInv /\ pc = "delay" => NextSample \in Nat
<1>. SUFFICES ASSUME CountInv, pc = "delay" PROVE NextSample \in Nat
  OBVIOUS
<1>. DEFINE first == got - carryLen - sampleBytes * left
<1>1. sampleBytes \in {2, 4} /\ got \in Nat /\ carryLen \in Nat /\ left \in Nat /\ MaxBytes \in Nat
  BY TapAssumption DEF CountInv, PcmTypeOK
<1>2. sampleBytes * left \in Nat /\ sampleBytes * left + carryLen <= got
  BY <1>1 DEF CountInv, InputOK
<1>3. first \in Nat
  BY <1>1, <1>2
<1>4. NextSample = IF first % sampleBytes = 0 THEN (first \div sampleBytes) + 1 ELSE Garbled
  BY DEF NextSample
<1>. HIDE DEF first
<1>. QED BY <1>1, <1>3, <1>4 DEF Garbled

(* Where no byte was lost, the next sample of the buffer is the next one of the source. *)
LEMMA NextSampleIsDue ==
  ASSUME BytesInv, left \in Nat
  PROVE  NextSample = conv - left + 1
<1>. DEFINE first == got - carryLen - sampleBytes * left
<1>1. NextSample = IF first % sampleBytes = 0 THEN (first \div sampleBytes) + 1 ELSE Garbled
  BY DEF NextSample
<1>2. conv \in Nat /\ carryLen \in Nat /\ sampleBytes \in {2, 4}
  BY DEF BytesInv
<1>3. CASE sampleBytes = 2
  <2>1. first = 2 * (conv - left) /\ conv - left \in Int
    BY <1>2, <1>3 DEF BytesInv, AllBytesKept
  <2>. HIDE DEF first
  <2>2. ASSUME NEW k \in Int PROVE (2 * k) % 2 = 0 /\ (2 * k) \div 2 = k
    OBVIOUS
  <2>3. first % 2 = 0 /\ first \div 2 = conv - left
    BY <2>1, <2>2
  <2>. QED BY <1>1, <1>3, <2>3
<1>4. CASE sampleBytes = 4
  <2>1. first = 4 * (conv - left) /\ conv - left \in Int
    BY <1>2, <1>4 DEF BytesInv, AllBytesKept
  <2>. HIDE DEF first
  <2>2. ASSUME NEW k \in Int PROVE (4 * k) % 4 = 0 /\ (4 * k) \div 4 = k
    OBVIOUS
  <2>3. first % 4 = 0 /\ first \div 4 = conv - left
    BY <2>1, <2>2
  <2>. QED BY <1>1, <1>4, <2>3
<1>. QED BY <1>2, <1>3, <1>4

(* A sample of the source, or a silent one, goes through the line. *)
LEMMA DelayCounts ==
  ASSUME CountInv, DelaySample \/ DrainSample
  PROVE  CountInv'
<1>. DEFINE x == IF pc = "delay" THEN NextSample ELSE 0
<1>1. Pass(x) /\ UNCHANGED pc /\ pc \in {"delay", "drain"}
  BY DEF DelaySample, DrainSample
<1>2. /\ Fed \in Nat /\ conv \in Nat /\ left \in Nat /\ delay \in Nat /\ remaining \in Nat
      /\ left > 0 /\ sampleBytes \in {2, 4} /\ got \in Nat /\ carryLen \in Nat
  BY <1>1, TapAssumption DEF CountInv, PcmTypeOK, Fed, Pass
<1>3. x \in Nat
  BY NextSampleType
<1>. HIDE DEF x
<1>4. /\ PcmTypeOK' /\ Fed' = Fed + 1
      /\ UNCHANGED <<sampleBytes, delay, conv, got, carryLen, out, remaining, keepRunning>>
  BY <1>1, <1>3, PassCounts DEF CountInv
<1>5. left' = left - 1 /\ (delay > 0 => sawInput' = TRUE)
  BY <1>1, <1>2 DEF Pass
<1>6. CountsOK'
  BY <1>1, <1>2, <1>4, <1>5 DEF CountInv, CountsOK
<1>7. InputOK'
  BY <1>1, <1>2, <1>4, <1>5 DEF CountInv, InputOK
<1>. QED BY <1>1, <1>4, <1>6, <1>7 DEF CountInv, CompleteAtEof

LEMMA DelayLine ==
  ASSUME BytesInv, LineInv, DelaySample \/ DrainSample
  PROVE  LineInv'
<1>. DEFINE x == IF pc = "delay" THEN NextSample ELSE 0
<1>1. Pass(x) /\ UNCHANGED pc /\ pc \in {"delay", "drain"}
  BY DEF DelaySample, DrainSample
<1>2. Fed \in Nat /\ conv \in Nat /\ left \in Nat /\ delay \in Nat /\ remaining \in Nat /\ left > 0
  BY <1>1 DEF LineInv, CountInv, PcmTypeOK, Fed, Pass
<1>3. x = Sample(Fed + 1)
  <2>1. CASE pc = "delay"
    <3>1. Fed + left = conv
      BY <2>1 DEF LineInv, CountInv, CountsOK
    <3>. QED BY <1>2, <2>1, <3>1, NextSampleIsDue DEF Sample
  <2>2. CASE pc = "drain"
    BY <1>2, <2>2 DEF LineInv, CountInv, CountsOK, Sample
  <2>. QED BY <1>1, <2>1, <2>2
<1>. HIDE DEF x
<1>4. RingOK' /\ \A i \in 1..Len(buf') : buf'[i] = Expected(Len(out) + i)
  BY <1>1, <1>3, PassLine DEF LineInv, CountInv
<1>5. CountInv'
  BY DelayCounts DEF LineInv
<1>6. UNCHANGED <<delay, conv, out>>
  BY <1>1 DEF Pass, options, inputVars
<1>. QED BY <1>4, <1>5, <1>6 DEF LineInv, OutIsDelayedInput, Expected

(* The buffer joins what aplay has received. *)
LEMMA WriteCounts ==
  ASSUME CountInv, Write \/ DrainWrite
  PROVE  /\ CountInv' /\ Fed' = Fed
         /\ out' = out \o buf /\ buf' = <<>> /\ UNCHANGED <<delay, conv, ring, pos>>
<1>1. /\ out' = out \o buf /\ buf' = <<>> /\ left = 0
      /\ \/ pc = "delay" /\ pc' = "loop"
         \/ pc = "drain" /\ pc' = "flush"
      /\ UNCHANGED <<sampleBytes, delay, carryLen, got, conv, ring, pos, sawInput, left,
                     remaining, keepRunning, ret, eof, aplay>>
  BY DEF Write, DrainWrite, Written, options, inputVars, lineVars, world
<1>2. out \in Seq(Nat) /\ buf \in Seq(Nat) /\ delay \in Nat /\ remaining \in Nat /\ conv \in Nat
  BY DEF CountInv, PcmTypeOK
<1>3. out' \in Seq(Nat) /\ Len(out') = Len(out) + Len(buf)
  BY <1>1, <1>2
<1>4. Fed' = Fed /\ Fed \in Nat
  BY <1>1, <1>2, <1>3 DEF Fed
<1>5. PcmTypeOK'
  BY <1>1, <1>3 DEF CountInv, PcmTypeOK
<1>7. CountsOK'
  <2>1. CASE pc = "delay"
    BY <1>1, <1>2, <1>4, <2>1 DEF CountInv, CountsOK
  <2>2. CASE pc = "drain"
    <3>1. Fed' >= conv
      BY <1>4, <2>2 DEF CountInv, CountsOK
    <3>2. keepRunning => Fed' + left + remaining = IF conv = 0 THEN 0 ELSE conv + delay
      BY <1>4, <2>2 DEF CountInv, CountsOK
    <3>3. remaining > 0 => delay > 0
      BY <2>2 DEF CountInv, CountsOK
    <3>. QED BY <1>1, <1>2, <1>4, <2>2, <3>1, <3>2, <3>3 DEF CountInv, CountsOK
  <2>. QED BY <1>1, <2>1, <2>2
<1>8. InputOK'
  BY <1>1 DEF CountInv, InputOK
<1>. QED BY <1>1, <1>4, <1>5, <1>7, <1>8 DEF CountInv, CompleteAtEof

LEMMA WriteLine ==
  ASSUME LineInv, Write \/ DrainWrite
  PROVE  LineInv'
<1>1. /\ CountInv' /\ Fed' = Fed
      /\ out' = out \o buf /\ buf' = <<>> /\ UNCHANGED <<delay, conv, ring, pos>>
  BY WriteCounts DEF LineInv
<1>2. out \in Seq(Nat) /\ buf \in Seq(Nat)
  BY DEF LineInv, CountInv, PcmTypeOK
<1>3. /\ Len(out') = Len(out) + Len(buf)
      /\ \A i \in 1..Len(out') : out'[i] = IF i <= Len(out) THEN out[i] ELSE buf[i - Len(out)]
  BY <1>1, <1>2
<1>6. RingOK'
  BY <1>1 DEF LineInv, RingOK, Sample
<1>8. OutIsDelayedInput'
  <2>1. ASSUME NEW i \in 1..Len(out') PROVE out'[i] = Expected(i)
    <3>1. CASE i <= Len(out)
      <4>1. i \in 1..Len(out) /\ out'[i] = out[i]
        BY <3>1, <1>2, <1>3
      <4>. QED BY <4>1 DEF LineInv, OutIsDelayedInput
    <3>2. CASE i > Len(out)
      <4>1. i - Len(out) \in 1..Len(buf) /\ Len(out) + (i - Len(out)) = i
        BY <3>2, <1>2, <1>3
      <4>2. out'[i] = buf[i - Len(out)]
        BY <3>2, <1>2, <1>3
      <4>. QED BY <4>1, <4>2 DEF LineInv
    <3>. QED BY <3>1, <3>2, <1>2, <1>3
  <2>. QED BY <2>1, <1>1 DEF OutIsDelayedInput, Expected
<1>. QED BY <1>1, <1>6, <1>8 DEF LineInv

(* The steps that move no sample. *)
LEMMA ControlCounts ==
  ASSUME CountInv, UNCHANGED <<options, inputVars, lineVars, buf, out>>, ret' \in {0, 1},
         eof' \in BOOLEAN, aplay' \in BOOLEAN,
         Loop \/ ReadEof \/ WriteFails \/ Flush \/ Exit \/ Signal
         \/ UNCHANGED <<pc, left, remaining, keepRunning>>
  PROVE  CountInv'
<1>1. UNCHANGED <<sampleBytes, delay, carryLen, got, conv, ring, pos, sawInput, buf, out>>
  BY DEF options, inputVars, lineVars
<1>2. Fed' = Fed /\ Fed \in Nat /\ delay \in Nat /\ remaining \in Nat /\ left \in Nat /\ conv \in Nat
      /\ BufSize \div 2 \in Nat \ {0}
  BY <1>1, TapAssumption DEF Fed, CountInv, PcmTypeOK
<1>3. PcmTypeOK'
  <2>1. left' \in Nat /\ remaining' \in Nat
    <3>1. CASE Flush
      BY <3>1, <1>2 DEF Flush, Chunk
    <3>. QED BY <3>1, <1>2 DEF Loop, ReadEof, WriteFails, Exit, Signal
  <2>2. keepRunning' \in BOOLEAN
    BY DEF CountInv, PcmTypeOK, Loop, ReadEof, WriteFails, Flush, Exit, Signal
  <2>3. pc' \in {"loop", "read", "delay", "flush", "drain", "done"}
    BY DEF CountInv, PcmTypeOK, Loop, ReadEof, WriteFails, Flush, Exit, Signal
  <2>. QED BY <1>1, <2>1, <2>2, <2>3 DEF CountInv, PcmTypeOK
<1>5. CountsOK' /\ CompleteAtEof'
  <2>0. buf = <<>> => Fed = Len(out)
    BY DEF Fed, CountInv, PcmTypeOK
  <2>1. CASE Loop
    BY <1>1, <1>2, <2>0, <2>1 DEF CountInv, CountsOK, CompleteAtEof, Loop
  <2>2. CASE ReadEof
    BY <1>1, <1>2, <2>0, <2>2 DEF CountInv, CountsOK, CompleteAtEof, ReadEof
  <2>3. CASE WriteFails
    BY <1>1, <1>2, <2>0, <2>3 DEF CountInv, CountsOK, CompleteAtEof, WriteFails
  <2>4. CASE Flush
    <3>1. left' \in Nat /\ remaining' \in Nat /\ left' + remaining' = remaining
      BY <1>2, <2>4 DEF Flush, Chunk
    <3>2. pc = "flush" /\ pc' = "drain" /\ remaining > 0 /\ left = 0 /\ UNCHANGED keepRunning
      BY <2>4 DEF Flush, CountInv, CountsOK
    <3>3. /\ Fed >= conv /\ Fed + remaining <= conv + delay /\ delay > 0
          /\ keepRunning => Fed + remaining = IF conv = 0 THEN 0 ELSE conv + delay
      BY <1>2, <3>2 DEF CountInv, CountsOK
    <3>4. Fed' + left' + remaining' = Fed + remaining
      <4>1. Fed' = Fed /\ Fed \in Nat
        BY <1>2
      <4>2. Fed + left' + remaining' = Fed + remaining
        BY <3>1, <4>1
      <4>. QED BY <4>1, <4>2
    <3>5. (delay > 0 => (sawInput <=> Fed > 0))'
      BY <1>1, <1>2 DEF CountInv, CountsOK
    <3>6. Fed' >= conv' /\ delay' > 0 /\ Fed' + left' + remaining' <= conv' + delay'
      BY <1>1, <1>2, <3>3, <3>4
    <3>7. keepRunning' => Fed' + left' + remaining' = IF conv' = 0 THEN 0 ELSE conv' + delay'
      BY <1>1, <3>2, <3>3, <3>4
    <3>. QED BY <3>2, <3>5, <3>6, <3>7 DEF CountsOK, CompleteAtEof
  <2>5. CASE Exit
    BY <1>1, <1>2, <2>0, <2>5 DEF CountInv, CountsOK, CompleteAtEof, Exit
  <2>6. CASE Signal
    BY <1>1, <1>2, <2>0, <2>6 DEF CountInv, CountsOK, CompleteAtEof, Signal
  <2>7. CASE UNCHANGED <<pc, left, remaining, keepRunning>>
    BY <1>1, <1>2, <2>0, <2>7 DEF CountInv, CountsOK, CompleteAtEof
  <2>. QED BY <2>1, <2>2, <2>3, <2>4, <2>5, <2>6, <2>7
<1>6. InputOK'
  BY <1>1 DEF CountInv, InputOK, Loop, ReadEof, WriteFails, Flush, Exit, Signal
<1>. QED BY <1>3, <1>5, <1>6 DEF CountInv

LEMMA ControlLine ==
  ASSUME LineInv, CountInv', UNCHANGED <<options, inputVars, lineVars, buf, out>>
  PROVE  LineInv'
<1>1. UNCHANGED <<delay, conv, ring, pos, buf, out>> /\ Fed' = Fed
  BY DEF options, inputVars, lineVars, Fed
<1>2. RingOK'
  BY <1>1 DEF LineInv, RingOK, Sample
<1>. QED BY <1>1, <1>2 DEF LineInv, OutIsDelayedInput, Expected

(* The filter moves samples, or only itself. *)
LEMMA KindsOfStep ==
  ASSUME PcmTypeOK, [PcmNext]_pcmVars
  PROVE  \/ Read \/ DelaySample \/ DrainSample \/ Write \/ DrainWrite
         \/ /\ UNCHANGED <<options, inputVars, lineVars, buf, out>>
            /\ ret' \in {0, 1} /\ eof' \in BOOLEAN /\ aplay' \in BOOLEAN
            /\ \/ Loop \/ ReadEof \/ WriteFails \/ Flush \/ Exit \/ Signal
               \/ UNCHANGED <<pc, left, remaining, keepRunning>>
<1>1. CASE Loop \/ ReadEof \/ WriteFails \/ Flush \/ Exit \/ Signal
  BY <1>1 DEF PcmTypeOK, Loop, ReadEof, WriteFails, Flush, Exit, Signal, world
<1>2. CASE SourceEnds \/ AplayEnds \/ UNCHANGED pcmVars
  BY <1>2 DEF PcmTypeOK, SourceEnds, AplayEnds, pcmVars, options, inputVars, lineVars
<1>. QED BY <1>1, <1>2 DEF PcmNext, Step

LEMMA CountStep == CountInv /\ [PcmNext]_pcmVars => CountInv'
<1>. SUFFICES ASSUME CountInv, [PcmNext]_pcmVars PROVE CountInv'
  OBVIOUS
<1>1. PcmTypeOK
  BY DEF CountInv
<1>. QED BY <1>1, KindsOfStep, ReadCounts, DelayCounts, WriteCounts, ControlCounts

LEMMA LineStep == BytesInv /\ LineInv /\ [PcmNext]_pcmVars => LineInv'
<1>. SUFFICES ASSUME BytesInv, LineInv, [PcmNext]_pcmVars PROVE LineInv'
  OBVIOUS
<1>1. PcmTypeOK /\ CountInv /\ CountInv'
  BY CountStep DEF LineInv, CountInv
<1>. QED BY <1>1, KindsOfStep, ReadLine, DelayLine, WriteLine, ControlLine

LEMMA InitCounts == PcmInit => CountInv
BY InitLine DEF LineInv

(* The type invariant of the filter. *)
THEOREM TypeCorrect == PcmSpec => []PcmTypeOK
<1>1. CountInv => PcmTypeOK
  BY DEF CountInv
<1>. QED BY <1>1, InitCounts, CountStep, PTL DEF PcmSpec

(* aplay hears the samples of the source in order behind the silence of the delay, none of
   them put together from two, for every delay, every buffer size and every cut of the input
   into reads that complete a carried sample. *)
THEOREM OutputCorrect == ReadsComplete /\ PcmSpec => []OutIsDelayedInput
<1>1. LineInv => OutIsDelayedInput
  BY DEF LineInv
<1>. QED BY <1>1, InitLine, LineStep, InitBytes, BytesStep, PTL DEF PcmSpec

(* When a source ends by itself, as much is heard as the filter has converted, and the delay,
   whatever the reads. *)
THEOREM CompleteWhenDone == PcmSpec => []CompleteAtEof
<1>1. CountInv => CompleteAtEof
  BY DEF CountInv
<1>. QED BY <1>1, InitCounts, CountStep, PTL DEF PcmSpec

(* What the listener has heard is the delayed stream, and never more of it than was due. *)
LEMMA WriteHears ==
  ASSUME LineInv, LineInv', Write \/ DrainWrite
  PROVE  Stream!Hears
<1>1. /\ out' = out \o buf /\ left = 0 /\ UNCHANGED <<delay, conv, keepRunning>>
      /\ \/ pc = "delay" /\ pc' = "loop"
         \/ pc = "drain" /\ pc' = "flush"
  BY DEF Write, DrainWrite, Written, options, inputVars
<1>2. out \in Seq(Nat) /\ buf \in Seq(Nat) /\ delay \in Nat /\ conv \in Nat /\ remaining \in Nat
  BY DEF LineInv, CountInv, PcmTypeOK
<1>3. out' \in Seq(Nat) /\ Len(out') = Fed
      /\ \A i \in 1..Len(out) : out'[i] = out[i]
  BY <1>1, <1>2 DEF Fed
<1>4. Len(out') >= Len(out)
  BY <1>2, <1>3 DEF Fed
<1>5. Len(out') <= IF pc = "delay" THEN conv ELSE conv + delay
  BY <1>1, <1>2, <1>3 DEF LineInv, CountInv, CountsOK, Fed
<1>6. ASSUME NEW n \in 1..Len(out')
      PROVE  out'[n] = IF n <= Len(out) THEN out[n] ELSE Stream!Delayed(n, conv)
  <2>1. out'[n] = Expected(n)
    BY <1>1 DEF LineInv, OutIsDelayedInput, Expected
  <2>2. Stream!Delayed(n, conv) = Expected(n)
    BY DEF Stream!Delayed, Expected
  <2>. QED BY <1>2, <1>3, <2>1, <2>2
<1>. QED BY <1>1, <1>3, <1>4, <1>5, <1>6 DEF Stream!Hears

LEMMA StepOfStream ==
  ASSUME LineInv, LineInv', [PcmNext]_pcmVars
  PROVE  [Stream!StreamNext]_(Stream!streamVars)
<1>. USE DEF options, inputVars, lineVars, world
<1>1. CASE Read
  <2>1. PICK n \in MinRead..BufSize :
          conv' = conv + Samples(n) /\ pc' = IF Samples(n) = 0 THEN "loop" ELSE "delay"
    BY <1>1 DEF Read
  <2>2. conv' \in Nat /\ conv' >= conv
    <3>1. n \in Nat /\ sampleBytes \in {2, 4} /\ carryLen \in Nat /\ conv \in Nat
      BY <2>1, TapAssumption DEF LineInv, CountInv, PcmTypeOK
    <3>2. Rest(n) \in Nat
      BY <3>1 DEF Rest, Completes
    <3>3. Samples(n) \in Nat
      BY <3>1, <3>2 DEF Samples
    <3>. QED BY <2>1, <3>1, <3>3
  <2>. QED BY <1>1, <2>1, <2>2 DEF Read, Stream!StreamNext, Stream!Sends
<1>2. CASE Write \/ DrainWrite
  BY <1>2, WriteHears DEF Stream!StreamNext
<1>3. CASE Loop \/ ReadEof
  BY <1>3 DEF Loop, ReadEof, Stream!StreamNext, Stream!Drains, Stream!streamVars
<1>4. CASE WriteFails
  BY <1>4 DEF WriteFails, Stream!StreamNext, Stream!Ends
<1>5. CASE Exit
  <2>1. keepRunning' => Len(out) = IF conv = 0 THEN 0 ELSE conv + delay
    BY <1>5 DEF Exit, LineInv, CountInv, CompleteAtEof
  <2>. QED BY <1>5, <2>1 DEF Exit, Stream!StreamNext, Stream!Ends
<1>6. CASE Signal
  BY <1>6 DEF Signal, Stream!StreamNext, Stream!Breaks
<1>7. CASE DelaySample \/ DrainSample \/ Flush \/ SourceEnds \/ AplayEnds \/ UNCHANGED pcmVars
  BY <1>7 DEF DelaySample, DrainSample, Pass, Flush, SourceEnds, AplayEnds, pcmVars, Stream!streamVars
<1>. QED BY <1>1, <1>2, <1>3, <1>4, <1>5, <1>6, <1>7 DEF PcmNext, Step

(* The filter implements the delayed stream: every step of it is one that its listener can
   tell, or hides behind the stream, for every delay and buffer and every cut of the input into
   reads that complete a carried sample. *)
THEOREM ImplementsDelayedStream == ReadsComplete /\ PcmSpec => IsDelayedStream
<1>1. PcmInit => Stream!StreamInit
  BY InitLine DEF PcmInit, Stream!StreamInit, LineInv, CountInv, PcmTypeOK
<1>. QED BY <1>1, InitLine, LineStep, InitBytes, BytesStep, StepOfStream, PTL DEF PcmSpec, IsDelayedStream, Stream!StreamSpec
===============================================================================
