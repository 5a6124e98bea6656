------------------------------ MODULE MCOstRouter ------------------------------
(* Constants of OstRouter for TLC: two packets for protocol 4, the second  *)
(* with a body that looks like the header of one for protocol 5.           *)
EXTENDS OstRouter

CleanFeed == <<[prot |-> 4, body |-> <<1>>, junk |-> <<>>],
               [prot |-> 4, body |-> <<1, 5>>, junk |-> <<>>]>>
===============================================================================
