------------------------------ MODULE MCPcmTap ------------------------------
(* Instances of PcmTap for TLC: both sample sizes, without a delay and with delays
   shorter and longer than a buffer. *)
EXTENDS PcmTap

MCFormats == {2, 4}
MCDelays == {0, 1, 3}
===============================================================================
