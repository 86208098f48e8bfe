------------------------------ MODULE MCAiJobs ------------------------------
(* AiJobs for TLC: both kinds of request, twice the same and one of each. *)
EXTENDS AiJobs

CONSTANTS k1, k2

MCWanted ==
  {w \in [Clicks -> {"structured", "sentiment"}] :
     w[k2] = "sentiment" \/ w[k1] = "structured"}
=============================================================================
