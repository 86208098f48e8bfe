----------------------------- MODULE CallState -----------------------------
(***************************************************************************)
(* The lifecycle function of a telephone call, server/src/voip/state.rs.   *)
(*                                                                         *)
(* A pure module: every component that moves a call (the webhook consumer, *)
(* the sweeps, the dialer, the media bridge) either goes through `next` or *)
(* writes a status of its own, and the difference between the two is what  *)
(* the modules that extend this one are about.                             *)
(***************************************************************************)
EXTENDS Naturals

(* voip_calls.status; the wire names are those of CallState::as_str. *)
CallStates == {"created", "dialing", "ringing", "answered", "bridged",
               "ending", "completed", "failed"}

(* A lifecycle-relevant thing that happened (enum CallEvent). *)
CallEvents == {"Dialed", "Ringing", "Answered", "MediaEstablished", "Ending",
               "Hangup", "Failed"}

(* The None of `next`: the event moves nothing. *)
NoMove == "none"

(* Both terminal states share the top rank, so neither can follow the other. *)
rank(s) == CASE s = "created"  -> 0
             [] s = "dialing"  -> 1
             [] s = "ringing"  -> 2
             [] s = "answered" -> 3
             [] s = "bridged"  -> 4
             [] s = "ending"   -> 5
             [] OTHER          -> 6

is_terminal(s) == s \in {"completed", "failed"}

was_answered(s) == rank(s) >= rank("answered") /\ ~is_terminal(s)

(* The state an event asks for, before the rank check. *)
Candidate(e) == CASE e = "Dialed"           -> "dialing"
                  [] e = "Ringing"          -> "ringing"
                  [] e = "Answered"         -> "answered"
                  [] e = "MediaEstablished" -> "bridged"
                  [] e = "Ending"           -> "ending"
                  [] OTHER                  -> "failed"

(* Mutant: the rank check alone, which a hangup and a failure bypass. *)
nextUnabsorbed(s, e) ==
  IF e = "Hangup" THEN IF was_answered(s) THEN "completed" ELSE "failed"
  ELSE IF e = "Failed" THEN "failed"
  ELSE IF rank(Candidate(e)) > rank(s) THEN Candidate(e) ELSE NoMove

(* Mutant: the latest event wins. *)
nextLatest(s, e) ==
  IF is_terminal(s) THEN NoMove
  ELSE IF e = "Hangup" THEN IF was_answered(s) THEN "completed" ELSE "failed"
  ELSE Candidate(e)

next(s, e) == IF is_terminal(s) THEN NoMove
              ELSE IF e = "Hangup"
                   THEN IF was_answered(s) THEN "completed" ELSE "failed"
              ELSE IF e = "Failed" THEN "failed"
              ELSE IF rank(Candidate(e)) > rank(s) THEN Candidate(e)
              ELSE NoMove
=============================================================================
