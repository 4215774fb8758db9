------------------------------ MODULE AudioOwner ------------------------------
(***************************************************************************)
(* nq-audio-owner, the command through which the playback programs of the  *)
(* appliance share one record of who owns the amplifier.  The record is    *)
(* the file /run/nexusq-audio-owner; there is no lock.  A claim replaces   *)
(* the file with one rename, and is one step here.  release, check-free    *)
(* and status first drop a stale record and then read it again: the test   *)
(* for staleness, the removal, the second read and the final removal are   *)
(* different commands of the script, so they are different steps here and  *)
(* commands of other clients may come between them.                        *)
(***************************************************************************)
EXTENDS Naturals

CONSTANTS
  Clients,   \* the processes that run nq-audio-owner, one command at a time
  Pids,      \* the process ids a claim may carry
  NoPid      \* the empty pid field of a claim made without one

ASSUME OwnerAssumption == NoPid \notin Pids

VARIABLES
  claim,     \* the owner and pid fields of the record, NoClaim when there is no file
  live,      \* the pids for which pid_live succeeds
  cmd        \* the nq-audio-owner command each client is waiting for

NoOwner == "nobody"
Owners == {"bluetooth", "somafm"}
Requesters == Owners \cup {"squeezelite"}

NoClaim == [owner |-> NoOwner, pid |-> NoPid]
ClaimType == [owner : Owners \cup {NoOwner}, pid : Pids \cup {NoPid}]

Idle == [op |-> "none", who |-> NoOwner, step |-> "idle"]
CmdType == [op : {"none", "release", "check-free", "status"},
            who : Requesters \cup {NoOwner},
            step : {"idle", "drop", "read", "remove", "done", "free", "busy"}]

(* drop_if_stale removes only a record that has a pid, and whose pid is dead. *)
Stale(c) == c.pid \notin live \cup {NoPid}

(* claim OWNER STATE PID: write_claim renames a complete file over the record,
   whatever the record says. *)
WriteClaim(owner, pid) == claim' = [owner |-> owner, pid |-> pid]

(* release, check-free and status begin with the test of drop_if_stale. *)
Begin(c, op, who) ==
  cmd' = [cmd EXCEPT ![c] = [op |-> op, who |-> who,
                             step |-> IF Stale(claim) THEN "drop" ELSE "read"]]

AtStep(c, step, next) ==
  /\ cmd[c].step = step
  /\ cmd' = [cmd EXCEPT ![c].step = next]

(* The rm of drop_if_stale: it removes the file there is by now. *)
DropStale(c) ==
  /\ AtStep(c, "drop", "read")
  /\ claim' = NoClaim

(* Mutant of Verdict: release leaves a record of its own and removes any other. *)
VerdictReversed(c) ==
  CASE cmd[c].op = "release"    -> IF claim.owner # cmd[c].who THEN "remove" ELSE "done"
    [] cmd[c].op = "check-free" -> IF claim.owner = "bluetooth" /\ cmd[c].who # "bluetooth"
                                   THEN "busy" ELSE "free"
    [] OTHER                    -> "done"

(* What the second read of the record makes the command do. *)
Verdict(c) ==
  CASE cmd[c].op = "release"    -> IF claim.owner = cmd[c].who THEN "remove" ELSE "done"
    [] cmd[c].op = "check-free" -> IF claim.owner = "bluetooth" /\ cmd[c].who # "bluetooth"
                                   THEN "busy" ELSE "free"
    [] OTHER                    -> "done"

ReadOwner(c) ==
  /\ AtStep(c, "read", Verdict(c))
  /\ UNCHANGED claim

RemoveOwn(c) ==
  /\ AtStep(c, "remove", "done")
  /\ claim' = NoClaim

OwnerStep(c) == DropStale(c) \/ ReadOwner(c) \/ RemoveOwn(c)

(* The client takes the command's exit status and goes on. *)
Return(c, step) == AtStep(c, step, "idle")

OwnerInit ==
  /\ claim = NoClaim
  /\ cmd = [c \in Clients |-> Idle]

OwnerTypeOK ==
  /\ claim \in ClaimType
  /\ cmd \in [Clients -> CmdType]
===============================================================================
