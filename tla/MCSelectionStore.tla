-------------------------- MODULE MCSelectionStore --------------------------
(* SelectionStore on a small instance: two events, one of them with           *)
(* controlled research rows, and one or two uploads.                          *)
EXTENDS SelectionStoreInvariants, TLC

CONSTANTS e1, e2, s1, s2, x1, x2

MCEvent == {e1, e2}
MCSelection == {s1, s2}
MCResearch == {x1, x2}

Snap(s, c) == [structure |-> s, research |-> x1, controlledFor |-> c]

(* The first file holds e1 alone. *)
MCSeeds == {[version |-> 1, events |-> (e1 :> Snap(s1, NoEvent)) @@ (e2 :> NoEvent)]}

(* A plain upload, and one whose research rows belong to e1. *)
MCUploads == {Snap(s2, NoEvent), Snap(s1, e1)}

Symmetric == Permutations(Req)
=============================================================================
