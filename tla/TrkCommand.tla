------------------------------ MODULE TrkCommand ------------------------------
(***************************************************************************)
(* What the sequence numbers of the TRK protocol promise the debugger: it  *)
(* issues one command at a time, the target executes each of them at most  *)
(* once, "answered" means executed, and a command the debugger has given   *)
(* up on is never executed behind its back.  TrkFraming implements this.   *)
(***************************************************************************)
CONSTANT Commands

VARIABLE fate

Init == fate = [c \in Commands |-> "unsent"]

Open(c) == fate[c] \in {"sent", "executed"}

Move(c, from, to) == fate[c] \in from /\ fate' = [fate EXCEPT ![c] = to]

Issue(c) == (\A d \in Commands : ~Open(d)) /\ Move(c, {"unsent"}, "sent")

Execute(c) == Move(c, {"sent"}, "executed")

Answer(c) == Move(c, {"executed"}, "answered")

(* The debugger is told of an error, or hears nothing and gives up: the    *)
(* command may or may not have been executed, but it will not be any more. *)
Abandon(c) == Move(c, {"sent", "executed"}, "abandoned")

Next == \E c \in Commands : Issue(c) \/ Execute(c) \/ Answer(c) \/ Abandon(c)

Spec == Init /\ [][Next]_fate
===============================================================================
