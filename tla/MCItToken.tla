------------------------------ MODULE MCItToken ------------------------------
(* Instances of ItToken for TLC.                                            *)
EXTENDS ItToken, TLC

CONSTANTS t1, t2, c1

TwoUses  == [t \in Tokens |-> 2]
SameCase == [t \in Tokens |-> c1]

UploadSymmetry == Permutations(Uploads)
=============================================================================
