---------------------------- MODULE MCAdbTransport ----------------------------
(* AdbTransport for TLC: what the sync stream of the host sends. *)
EXTENDS AdbTransport

(* A push of a file, a LIST, a push of an empty file, QUIT. *)
MCScript == <<"send", "data", "done", "ask", "send", "done", "quit">>
===============================================================================
