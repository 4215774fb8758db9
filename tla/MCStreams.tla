------------------------------ MODULE MCStreams ------------------------------
(* The two programs that a stream passes through, for TLC: the proxy that keeps stations
   warm and the filter in front of aplay, one of them per behaviour. *)
EXTENDS PcmTap, SomaProxy

CONSTANTS drone, groove    \* a station that streams longer than its buffer, one that may not

VARIABLE which

(* Both sample sizes, without a delay and with delays shorter and longer than a buffer. *)
MCFormats == {2, 4}
MCDelays == {0, 1, 3}

MCMaxChunks == drone :> 3 @@ groove :> 1

StreamsInit ==
  /\ which \in {"tap", "proxy"}
  /\ PcmInit /\ ProxyInit
  /\ which = "tap" \/ (sampleBytes = 2 /\ delay = 0)

StreamsNext ==
  /\ UNCHANGED which
  /\ \/ which = "tap" /\ PcmNext /\ UNCHANGED proxyVars
     \/ which = "proxy" /\ ProxyNext /\ UNCHANGED pcmVars

StreamsSpec ==
  /\ StreamsInit /\ [][StreamsNext]_<<which, pcmVars, proxyVars>>
  /\ ProxyFairness /\ WF_pcmVars(which = "tap" /\ Step)

TypesOK == PcmTypeOK /\ ProxyTypeOK
===============================================================================
