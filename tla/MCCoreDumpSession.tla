--------------------------- MODULE MCCoreDumpSession ---------------------------
(* Event types a client sets in the run of CoreDumpSession.                *)
EXTENDS CoreDumpSession

BothOrExceptions == {{"exc", "kill"}, {"exc"}}
===============================================================================
