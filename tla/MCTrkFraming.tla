----------------------------- MODULE MCTrkFraming -----------------------------
(* TrkFraming on small instances.                                          *)
EXTENDS TrkFraming

TwoConnects == {1, 3}
===============================================================================
