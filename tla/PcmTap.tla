-------------------------------- MODULE PcmTap --------------------------------
(***************************************************************************)
(* nq-pcm-level-tap, the filter between a decoder and aplay: it converts   *)
(* its input to 16-bit samples, passes them through a delay line, so that  *)
(* the LED ring can be ahead of the sound, and writes them out.  A sample  *)
(* is named by the bytes of the input it was made of: the first one the    *)
(* source sent is 1, the next is 2, ..., whether the filter converts it or *)
(* not, and 0 is silence.  The startup gate and the chime change a sample  *)
(* in place and the meter only looks at it, so they are left out here.     *)
(***************************************************************************)
EXTENDS Naturals, Sequences

CONSTANTS
  Formats,          \* the sizes in bytes of an input sample: 2 (S16), 4 (S24, S32)
  Rate, Channels,   \* of the stream
  Delays,           \* values of --audio-delay-ms
  BufSize,          \* READ_BUF_SIZE
  MinRead,          \* the fewest bytes a read returns
  MaxBytes          \* bound on the length of the input

ASSUME TapAssumption ==
  /\ Formats \subseteq {2, 4}
  /\ Rate \in Nat \ {0} /\ Channels \in Nat \ {0} /\ Delays \subseteq Nat
  /\ BufSize \in Nat \ {0, 1} /\ MinRead \in Nat \ {0} /\ MaxBytes \in Nat

VARIABLES
  sampleBytes,   \* input_sample_bytes
  delay,         \* the length of the delay line in samples, 0 without one
  pc,            \* where main is
  carryLen,      \* bytes of an incomplete sample kept for the next read
  ring, pos,     \* the delay line, and the index of its oldest sample
  sawInput,      \* a sample went into the delay line
  left,          \* samples of the buffer that have not gone through the delay line yet
  buf,           \* those that have
  remaining,     \* samples flush_pcm_delay still has to push out
  keepRunning,
  ret,           \* main's exit status
  eof,           \* the source has closed the pipe
  aplay,         \* aplay still reads
  got, conv,     \* history: bytes read, and samples converted
  out            \* history: the samples aplay received

pcmVars == <<sampleBytes, delay, pc, carryLen, ring, pos, sawInput, left, buf, remaining,
          keepRunning, ret, eof, aplay, got, conv, out>>
options == <<sampleBytes, delay>>
lineVars == <<ring, pos, sawInput>>
inputVars == <<carryLen, got, conv>>
world == <<eof, aplay>>

-------------------------------------------------------------------------------
(* init_pcm_delay: the delay in samples, whole frames, at least one. *)
DelaySamples(ms) ==
  LET frameBytes == Channels * 2
      bytes == (Rate * frameBytes * ms) \div 1000
      atLeast == IF bytes < frameBytes THEN frameBytes ELSE bytes
  IN  IF ms = 0 THEN 0 ELSE (atLeast - (atLeast % frameBytes)) \div 2

(* convert_input_to_s16, which first completes the carried sample and then keeps what is
   left of the read.  A read too short to complete the carried sample loses it: the carry
   is cleared before the (empty) rest is kept. *)
Completes(n) == carryLen > 0 /\ carryLen + n >= sampleBytes
Rest(n) == CASE carryLen = 0 -> n
             [] Completes(n) -> n - (sampleBytes - carryLen)
             [] OTHER        -> 0
Samples(n) == (IF Completes(n) THEN 1 ELSE 0) + Rest(n) \div sampleBytes
(* A mutant of CarryAfter: the bytes behind the last whole sample are not kept. *)
CarryAfterForgets(n) == 0
CarryAfter(n) == Rest(n) % sampleBytes

(* The next sample of the buffer, by the byte of the input it begins at. One that begins
   inside a sample of the source is none that the source sent. *)
Garbled == MaxBytes + 1
NextSample ==
  LET first == got - carryLen - sampleBytes * left
  IN  IF first % sampleBytes = 0 THEN (first \div sampleBytes) + 1 ELSE Garbled

Loop ==
  /\ pc = "loop"
  /\ pc' = IF keepRunning THEN "read" ELSE "flush"
  /\ remaining' = IF keepRunning \/ ~sawInput THEN 0 ELSE delay
  /\ UNCHANGED <<options, inputVars, lineVars, left, buf, keepRunning, ret, world, out>>

Read ==
  /\ pc = "read" /\ ~eof
  /\ \E n \in MinRead..BufSize :
       /\ got + n <= MaxBytes
       /\ got' = got + n
       /\ carryLen' = CarryAfter(n)
       /\ conv' = conv + Samples(n)
       /\ left' = Samples(n)
       /\ pc' = IF Samples(n) = 0 THEN "loop" ELSE "delay"
  /\ UNCHANGED <<options, lineVars, buf, remaining, keepRunning, ret, world, out>>

(* A mutant of ReadEof: the end of the input is taken for an interrupted read. *)
ReadEofRetries ==
  /\ pc = "read" /\ eof
  /\ pc' = "loop"
  /\ UNCHANGED <<options, inputVars, lineVars, left, buf, remaining, keepRunning, ret, world,
                 out>>

(* A signal does not interrupt a blocked read: signal() restarts it. *)
ReadEof ==
  /\ pc = "read" /\ eof
  /\ pc' = "flush"
  /\ remaining' = IF sawInput THEN delay ELSE 0
  /\ UNCHANGED <<options, inputVars, lineVars, left, buf, keepRunning, ret, world, out>>

(* Mutants of Pass: the sample goes in before the oldest one is taken out; the line is
   never seen to have had input. *)
PassTooEarly(sample) ==
  /\ left > 0
  /\ left' = left - 1
  /\ IF delay = 0
     THEN /\ buf' = Append(buf, sample)
          /\ UNCHANGED lineVars
     ELSE /\ ring' = [ring EXCEPT ![pos] = sample]
          /\ buf' = Append(buf, ring'[pos])
          /\ pos' = IF pos + 1 >= delay THEN 0 ELSE pos + 1
          /\ sawInput' = TRUE
  /\ UNCHANGED <<options, inputVars, remaining, keepRunning, ret, world, out>>
PassUnseen(sample) ==
  /\ left > 0
  /\ left' = left - 1
  /\ buf' = Append(buf, IF delay = 0 THEN sample ELSE ring[pos])
  /\ ring' = IF delay = 0 THEN ring ELSE [ring EXCEPT ![pos] = sample]
  /\ pos' = IF pos + 1 >= delay THEN 0 ELSE pos + 1
  /\ UNCHANGED <<options, inputVars, sawInput, remaining, keepRunning, ret, world, out>>
(* apply_pcm_delay, one sample: swapped with the oldest one in the line. *)
Pass(sample) ==
  /\ left > 0
  /\ left' = left - 1
  /\ IF delay = 0
     THEN /\ buf' = Append(buf, sample)
          /\ UNCHANGED lineVars
     ELSE /\ buf' = Append(buf, ring[pos])
          /\ ring' = [ring EXCEPT ![pos] = sample]
          /\ pos' = IF pos + 1 >= delay THEN 0 ELSE pos + 1
          /\ sawInput' = TRUE
  /\ UNCHANGED <<options, inputVars, remaining, keepRunning, ret, world, out>>

DelaySample == pc = "delay" /\ Pass(NextSample) /\ UNCHANGED pc

Written(next) ==
  /\ left = 0 /\ aplay
  /\ pc' = next
  /\ out' = out \o buf
  /\ buf' = <<>>
  /\ UNCHANGED <<options, inputVars, lineVars, left, remaining, keepRunning, ret, world>>

Write == pc = "delay" /\ Written("loop")

(* A write that fails, with SIGPIPE caught; flush_pcm_delay is skipped or given up. *)
WriteFails ==
  /\ pc \in {"delay", "drain"} /\ left = 0 /\ ~aplay
  /\ pc' = "done"
  /\ keepRunning' = FALSE
  /\ ret' = 1
  /\ UNCHANGED <<options, inputVars, lineVars, left, buf, remaining, world, out>>

(* flush_pcm_delay: silence through the line, a buffer at a time. *)
Chunk == IF remaining < BufSize \div 2 THEN remaining ELSE BufSize \div 2

Flush ==
  /\ pc = "flush" /\ remaining > 0 /\ keepRunning
  /\ left' = Chunk
  /\ remaining' = remaining - Chunk
  /\ pc' = "drain"
  /\ UNCHANGED <<options, inputVars, lineVars, buf, keepRunning, ret, world, out>>

DrainSample == pc = "drain" /\ Pass(0) /\ UNCHANGED pc

DrainWrite == pc = "drain" /\ Written("flush")

Exit ==
  /\ pc = "flush" /\ (remaining = 0 \/ ~keepRunning)
  /\ pc' = "done"
  /\ UNCHANGED <<options, inputVars, lineVars, left, buf, remaining, keepRunning, ret,
                 world, out>>

(* SIGINT, SIGTERM or SIGHUP; the end of the source; the end of aplay. *)
Signal ==
  /\ keepRunning /\ pc # "done"
  /\ keepRunning' = FALSE
  /\ UNCHANGED <<options, pc, inputVars, lineVars, left, buf, remaining, ret, world, out>>

SourceEnds ==
  /\ ~eof
  /\ eof' = TRUE
  /\ UNCHANGED <<options, pc, inputVars, lineVars, left, buf, remaining, keepRunning, ret,
                 aplay, out>>

AplayEnds ==
  /\ aplay
  /\ aplay' = FALSE
  /\ UNCHANGED <<options, pc, inputVars, lineVars, left, buf, remaining, keepRunning, ret,
                 eof, out>>

-------------------------------------------------------------------------------
Step ==
  \/ Loop \/ ReadEof \/ DelaySample \/ Write \/ WriteFails
  \/ Flush \/ DrainSample \/ DrainWrite \/ Exit

PcmNext == Step \/ Read \/ Signal \/ SourceEnds \/ AplayEnds

PcmInit ==
  /\ sampleBytes \in Formats
  /\ delay \in {DelaySamples(ms) : ms \in Delays}
  /\ pc = "loop"
  /\ carryLen = 0
  /\ ring = [i \in 0..(delay - 1) |-> 0] /\ pos = 0 /\ sawInput = FALSE
  /\ left = 0 /\ buf = <<>> /\ remaining = 0
  /\ keepRunning = TRUE /\ ret = 0
  /\ eof = FALSE /\ aplay = TRUE
  /\ got = 0 /\ conv = 0 /\ out = <<>>

PcmSpec == PcmInit /\ [][PcmNext]_pcmVars

(* The kernel runs the process; nothing makes the source send or the listener stop. *)
PcmFairSpec == PcmSpec /\ WF_pcmVars(Step)
-------------------------------------------------------------------------------
PcmTypeOK ==
  /\ sampleBytes \in Formats /\ delay \in Nat
  /\ pc \in {"loop", "read", "delay", "flush", "drain", "done"}
  /\ carryLen \in Nat
  /\ ring \in [0..(delay - 1) -> Nat] /\ sawInput \in BOOLEAN
  /\ pos \in Nat /\ (pos < delay \/ pos = 0)
  /\ left \in Nat /\ buf \in Seq(Nat) /\ remaining \in Nat
  /\ keepRunning \in BOOLEAN /\ ret \in {0, 1} /\ eof \in BOOLEAN /\ aplay \in BOOLEAN
  /\ got \in Nat /\ conv \in Nat /\ out \in Seq(Nat)

(* Every byte read is in a converted sample or kept for the next one, so that the samples
   stay aligned however the reads cut the stream. *)
AllBytesKept == got = sampleBytes * conv + carryLen

(* aplay hears the delay's silence, then the source's samples in order, none twice, none left
   out and none put together from the bytes of two, and silence again once the line is
   flushed: as long as no read is too short to complete a carried sample. *)
Expected(i) == IF delay < i /\ i - delay <= conv THEN i - delay ELSE 0
OutIsDelayedInput == \A i \in 1..Len(out) : out[i] = Expected(i)

(* When the source ends by itself aplay has received every sample that was converted, the
   delayed ones too. *)
CompleteAtEof ==
  pc = "done" /\ keepRunning =>
    Len(out) = IF conv = 0 THEN 0 ELSE conv + delay

(* What the programs at its ends see of the filter: a delayed stream. The bytes it carries, its
   buffer and its ring are hidden. *)
Stream == INSTANCE DelayedStream WITH
  silence <- delay, sent <- conv, heard <- out,
  phase <- IF pc = "done" THEN "over" ELSE IF pc \in {"flush", "drain"} THEN "draining" ELSE "open",
  cut <- ~keepRunning

(* The filter implements the delayed stream, through every cut of the input into reads that
   complete a carried sample, every wrap of the ring, and every signal. *)
IsDelayedStream == Stream!StreamSpec

(* The filter ends after its source, whatever it still has to push out. *)
EndsAfterSource == eof ~> (pc = "done")
===============================================================================
