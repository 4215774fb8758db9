------------------------- MODULE MCAudioArbitration -------------------------
(* Instances of AudioArbitration for TLC: which programs are run is the cfg's. *)
EXTENDS AudioArbitration

MCClients == Plays \cup Stops \cup Starters \cup Viewers \cup {Tap}
MCPids == Plays
===============================================================================
