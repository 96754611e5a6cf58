--------------------------- MODULE MCChangeDrafts ---------------------------
(* Instances of ChangeDrafts for TLC: a path is open when both the policy  *)
(* and the resources hold document d2.                                     *)
EXTENDS ChangeDrafts, TLC

CONSTANTS d1, d2

Propose(p, n, r) ==
  [s \in Surfaces |-> CASE s = "policy" -> p [] s = "dns" -> n [] OTHER -> r]

MCProposals ==
  {Propose(d2, NoDoc, d2), Propose(d1, d1, NoDoc)}
MCOpens == {<<d2, d2>>}
EditorSymmetry == Permutations(Editors)
=============================================================================
