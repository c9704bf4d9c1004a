---------------------------- MODULE MCRunControl ----------------------------
(* Instances of RunControl for TLC: a set of interchangeable HTTP threads.   *)
EXTENDS RunControl

CONSTANTS h1, h2
=============================================================================
