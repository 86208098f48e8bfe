---------------------------- MODULE MCCreditHold ----------------------------
(* CreditHold for TLC: two calls of one organisation and one of another. *)
EXTENDS CreditHold, TLC

CONSTANTS c1, c2, c3, o1, o2

MCOrgOf == (c1 :> o1) @@ (c2 :> o1) @@ (c3 :> o2)

MCOpening == (o1 :> 4) @@ (o2 :> 2)

(* The two calls of o1 are interchangeable. *)
MCSymmetry == Permutations({c1, c2})
=============================================================================
