---------------------------- MODULE MCLlmBudget ----------------------------
(* Instances of LlmBudget for TLC.                                         *)
EXTENDS LlmBudget

CONSTANTS t1, t2, t3

TwoThreads   == {t1, t2}
ThreeThreads == {t1, t2, t3}
=============================================================================
