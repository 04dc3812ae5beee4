---------------------------- MODULE MCWorkspace ----------------------------
(* Workspace with two datasets whose first event has the same id, as after a  *)
(* separate import, and one event that can be added to the first dataset.     *)
EXTENDS Workspace, TLC

CONSTANTS d1, d2, a, b, m, t1, t2, t3

MCHome == t1 :> d1 @@ t2 :> d2 @@ t3 :> d1

MCHomePair == t1 :> d1 @@ t2 :> d2

MCFresh == t1 :> a @@ t2 :> a @@ t3 :> m

MCFreshPair == t1 :> a @@ t2 :> a

MCInitial == d1 :> {[id |-> a, trade |-> t1]} @@ d2 :> {[id |-> a, trade |-> t2]}

MCSymmetry == Permutations(Call)
=============================================================================
