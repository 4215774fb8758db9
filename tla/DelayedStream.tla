----------------------------- MODULE DelayedStream -----------------------------
(***************************************************************************)
(* What nq-pcm-level-tap promises to the programs at the ends of its       *)
(* pipes: a listener hears the samples of a source, each once and in       *)
(* order, behind a fixed delay of silence, and when the source ends by     *)
(* itself the delayed rest as well.  It says nothing of reads, carries,    *)
(* buffers and rings.                                                      *)
(***************************************************************************)
EXTENDS Naturals, Sequences

VARIABLES
  silence,   \* samples of silence before the first one
  sent,      \* samples the source has sent
  heard,     \* samples the listener has heard
  phase,     \* the source is open, the rest is drained, the stream is over
  cut        \* it was cut short: by a signal, or a listener that has left

streamVars == <<silence, sent, heard, phase, cut>>

(* The n-th sample of the delayed stream. *)
Delayed(n, count) == IF silence < n /\ n - silence <= count THEN n - silence ELSE 0

StreamInit ==
  /\ silence \in Nat /\ sent = 0 /\ heard = <<>> /\ phase = "open" /\ cut = FALSE

(* The source sends; the listener is never ahead of an open source. *)
Sends ==
  /\ phase = "open" /\ sent' \in Nat /\ sent' >= sent
  /\ UNCHANGED <<silence, heard, phase, cut>>

(* The listener hears more of the delayed stream. *)
Hears ==
  /\ phase # "over"
  /\ heard' \in Seq(Nat) /\ Len(heard') >= Len(heard)
  /\ Len(heard') <= IF phase = "open" THEN sent ELSE sent + silence
  /\ \A n \in 1..Len(heard') : heard'[n] = IF n <= Len(heard) THEN heard[n] ELSE Delayed(n, sent)
  /\ UNCHANGED <<silence, sent, phase, cut>>

Drains ==
  /\ phase = "open" /\ phase' = "draining"
  /\ UNCHANGED <<silence, sent, heard, cut>>

Breaks ==
  /\ phase # "over" /\ ~cut /\ cut' = TRUE
  /\ UNCHANGED <<silence, sent, heard, phase>>

(* A stream that nobody has cut short ends when everything was heard. *)
Ends ==
  /\ phase # "over" /\ phase' = "over"
  /\ ~cut' => phase = "draining" /\ Len(heard) = (IF sent = 0 THEN 0 ELSE sent + silence)
  /\ cut => cut'
  /\ UNCHANGED <<silence, sent, heard>>

StreamNext == Sends \/ Hears \/ Drains \/ Breaks \/ Ends

StreamSpec == StreamInit /\ [][StreamNext]_streamVars
===============================================================================
