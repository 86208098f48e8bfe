--------------------------- MODULE CallStateProofs ---------------------------
(***************************************************************************)
(* Facts about the lifecycle function of a call (state.rs `next`), cited   *)
(* by the proofs of the modules that move one.                             *)
(***************************************************************************)
EXTENDS CallState, TLAPS

(* "Terminal absorbs everything". *)
LEMMA TerminalAbsorbs ==
  ASSUME NEW s, NEW v, is_terminal(s)
  PROVE  next(s, v) = NoMove
  BY DEF next

(* The lifecycle only ever goes up in rank, and to a state of the enum. *)
LEMMA NextClimbs ==
  ASSUME NEW s \in CallStates, NEW v \in CallEvents, next(s, v) # NoMove
  PROVE  next(s, v) \in CallStates /\ rank(next(s, v)) > rank(s)
  BY DEF next, rank, Candidate, is_terminal, was_answered, CallStates,
         CallEvents, NoMove

(* The ranks of the states a call passes through here. *)
LEMMA Ranks ==
  /\ rank("created") = 0 /\ rank("dialing") = 1 /\ rank("ringing") = 2
  /\ rank("answered") = 3 /\ rank("bridged") = 4
  BY DEF rank

(* The ranks of the states a call ends in. *)
LEMMA LastRanks ==
  rank("ending") = 5 /\ rank("completed") = 6 /\ rank("failed") = 6
  BY DEF rank

(* The states the lifecycle events ask for. *)
LEMMA Candidates ==
  /\ Candidate("Dialed") = "dialing" /\ Candidate("Ringing") = "ringing"
  /\ Candidate("Answered") = "answered"
  /\ Candidate("MediaEstablished") = "bridged"
  BY DEF Candidate

(* An event that asks for a state moves an open call up to it or nowhere. *)
LEMMA NextAsksFor ==
  ASSUME NEW s \in {"created", "dialing", "ringing", "answered", "bridged"},
         NEW v \in {"Dialed", "Ringing", "Answered", "MediaEstablished"}
  PROVE  next(s, v) = IF rank(Candidate(v)) > rank(s) THEN Candidate(v)
                      ELSE NoMove
  BY DEF next, is_terminal
=============================================================================
