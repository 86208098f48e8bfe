--------------------------- MODULE MCConsentGate ---------------------------
(* ConsentGate for TLC: a gate with either answer to a refusal and each    *)
(* kind of capture, a notice, a policy that is switched off while the call *)
(* is recorded, and a call that keeps nothing.                             *)
EXTENDS ConsentGate

As(p, r, audio, words) ==
  [policy |-> p, refused |-> r, recording |-> audio, transcription |-> words]

MCSetups == {As("press_key", "continue_unrecorded", TRUE, TRUE),
             As("verbal", "end", FALSE, TRUE),
             As("notice_only", "end", TRUE, TRUE),
             As("disabled", "end", TRUE, FALSE),
             As("press_key", "end", FALSE, FALSE)}
=============================================================================
