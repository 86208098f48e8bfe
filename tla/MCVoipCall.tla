----------------------------- MODULE MCVoipCall -----------------------------
(* VoipCall for TLC: calls of one organisation, each with a user of its own. *)
EXTENDS VoipCall, TLC

CONSTANTS org, Pool

MCOrgOf == [c \in Calls |-> org]

MCUserOf == [c \in Calls |-> c]

MCOpening == [o \in Orgs |-> Pool]

MCSymmetry == Permutations(Calls)
=============================================================================
