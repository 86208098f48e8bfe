---------------------------- MODULE ConsentGate ----------------------------
(***************************************************************************)
(* Disclosure, consent and what is kept of one outbound call:              *)
(* server/src/voip/consent.rs and disclosure.rs, with the follow-ups of    *)
(* the carrier's webhooks (routes.rs), the arming of the media (session.rs)*)
(* and the retention sweep (business/retention.rs).                        *)
(*                                                                         *)
(* Three kinds of task work on the row at once: the handler of the answer, *)
(* a handler per keypad digit, and the sweep that closes gates nobody      *)
(* answered.  Each reads the row, awaits the carrier and then writes what  *)
(* it decided from the row it read; every await is a step boundary.        *)
(***************************************************************************)
EXTENDS CallState, FiniteSets

CONSTANTS
  Setups,      (* what a call may be dialled with: policy, refused, intent *)
  Digits,      (* the keypad digits the recipient presses, one event each *)
  answerer,    (* the task that handles the answer *)
  sweep,       (* the task that closes the gates nobody answered *)
  MaxMishaps   (* bound: database errors and restarts in a behaviour *)

(* A task is the handler of one webhook, or the sweep. *)
Tasks == {answerer, sweep} \cup Digits

Policies == {"notice_only", "press_key", "verbal", "disabled"}

ConsentStatuses == {"not_required", "pending", "granted", "denied", "timeout"}

ASSUME ConsentAssumption ==
  /\ Setups \subseteq [policy : Policies,
                       refused : {"continue_unrecorded", "end"},
                       recording : BOOLEAN, transcription : BOOLEAN]
  /\ answerer # sweep /\ {answerer, sweep} \cap Digits = {}
  /\ MaxMishaps \in Nat

VARIABLES
  setup,          (* the columns the dial wrote for good *)
  (* the row *)
  status,         (* voip_calls.status *)
  consent,        (* consent_status *)
  stamped,        (* disclosure_played_at IS NOT NULL *)
  recording,      (* recording_status *)
  transcription,  (* transcription_status *)
  started,        (* transcription_started_at IS NOT NULL *)
  (* the server *)
  pc,             (* what each task does next *)
  read,           (* the row as each task last loaded it *)
  parked,         (* the leg is in LiveCalls *)
  session,        (* the engine session: "keeping" holds a transcript service *)
  purge,          (* the retention sweep has deleted and not yet noted it *)
  (* the carrier *)
  leg, told, recorder, events,
  overtaken,      (* history: a saved recording was overwritten in the row *)
  mishaps

rowVars == <<setup, status, consent, stamped, recording, transcription, started>>
taskVars == <<pc, read>>
mediaVars == <<parked, session, overtaken>>
carrierVars == <<leg, told, recorder, events>>

vars == <<rowVars, taskVars, mediaVars, purge, carrierVars, mishaps>>

Steps == {"idle", "speak", "stamp", "gather", "silence", "waive", "reload",
          "resolve", "capture", "accepted", "rejected", "permit", "decline",
          "hangup", "arm", "over"}

-----------------------------------------------------------------------------
(* consent.rs.                                                             *)

(* A transcript or a recording was asked for; analysis needs a transcript, *)
(* so it adds nothing.                                                     *)
Captures(r, t) == r \/ t

(* `plan`: a disabled policy is raised to a notice when something is kept, *)
(* and only a capture is worth a question.                                 *)
Gate(policy, r, t) == Captures(r, t) /\ policy \in {"press_key", "verbal"}

InitialStatus(policy, r, t) ==
  IF Gate(policy, r, t) THEN "pending" ELSE "not_required"

on_digit(digit) == IF digit = "1" THEN "granted" ELSE "denied"

(* The task's next step once the gate is resolved (`after`, `act`). *)
after(s) == IF s \in {"granted", "not_required"} THEN "capture"
            ELSE IF s = "pending" \/ setup.refused = "continue_unrecorded"
                 THEN "decline"
            ELSE "hangup"

Gated == Gate(setup.policy, setup.recording, setup.transcription)

-----------------------------------------------------------------------------
Load == [recording     |-> recording = "pending",
         transcription |-> transcription = "live",
         consent       |-> consent,
         stamped       |-> stamped]

Init ==
  /\ setup \in Setups
  /\ status = "ringing"
  /\ consent = InitialStatus(setup.policy, setup.recording, setup.transcription)
  /\ stamped = FALSE
  /\ recording = IF setup.recording THEN "pending" ELSE "none"
  /\ transcription = IF setup.transcription THEN "live" ELSE "none"
  /\ started = FALSE
  /\ pc = [t \in Tasks |-> "idle"]
  /\ read = [t \in Tasks |-> Load]
  /\ parked = TRUE
  /\ session = "none"
  /\ purge = FALSE
  /\ leg = "ringing"
  /\ told = FALSE
  /\ recorder = "off"
  /\ events = {}
  /\ overtaken = FALSE
  /\ mishaps = 0

At(t, step) == pc[t] = step
Goto(t, step) == pc' = [pc EXCEPT ![t] = step]

(* A handler returns for good; the sweep runs again. *)
Done(t) == IF t = sweep THEN "idle" ELSE "over"

-----------------------------------------------------------------------------
(* The answer: announce_on_answer, called from inbound_webhook.            *)

Answer ==
  /\ At(answerer, "idle")
  /\ "answered" \in events
  /\ events' = events \ {"answered"}
  /\ IF is_terminal(status)
     THEN /\ Goto(answerer, "over")
          /\ UNCHANGED <<status, read>>
     ELSE /\ status' = "answered"
          /\ read' = [read EXCEPT ![answerer] = Load]
          /\ Goto(answerer, "speak")
  /\ UNCHANGED <<setup, consent, stamped, recording, transcription, started,
                 mediaVars, purge, leg, told, recorder, mishaps>>

(* `deliver`: the plan speaks in every case, if only about the voice.  A   *)
(* carrier that cannot speak, or fails to, leaves the recipient untold.    *)
Speak ==
  /\ At(answerer, "speak")
  /\ \/ leg = "up" /\ told' = TRUE /\ Goto(answerer, "stamp")
     \/ told' = told /\ Goto(answerer, "silence")
  /\ UNCHANGED <<rowVars, read, mediaVars, purge, leg, recorder, events, mishaps>>

Stamp ==
  /\ At(answerer, "stamp")
  /\ stamped' = TRUE
  /\ LET row == read[answerer]
     IN  Goto(answerer, IF Gate(setup.policy, row.recording, row.transcription)
                        THEN "gather" ELSE "reload")
  /\ UNCHANGED <<setup, status, consent, recording, transcription, started,
                 read, mediaVars, purge, carrierVars, mishaps>>

(* With the gate open the handler returns and arms nothing. *)
Gather ==
  /\ At(answerer, "gather")
  /\ \/ leg = "up" /\ Goto(answerer, "over")
     \/ Goto(answerer, "silence")
  /\ UNCHANGED <<rowVars, read, mediaVars, purge, carrierVars, mishaps>>

(* NotAnnounced: nothing is wanted any more, and nobody is asked. *)
Silence ==
  /\ At(answerer, "silence")
  /\ recording' = IF recording = "pending" THEN "none" ELSE recording
  /\ transcription' = "none"
  /\ Goto(answerer, "waive")
  /\ UNCHANGED <<setup, status, consent, stamped, started, read, mediaVars,
                 purge, carrierVars, mishaps>>

Waive ==
  /\ At(answerer, "waive")
  /\ consent' = IF consent = "pending" THEN "not_required" ELSE consent
  /\ Goto(answerer, "arm")
  /\ UNCHANGED <<setup, status, stamped, recording, transcription, started,
                 read, mediaVars, purge, carrierVars, mishaps>>

(* Announced without a gate: the row is loaded again, with its stamp. *)
Reload ==
  /\ At(answerer, "reload")
  /\ read' = [read EXCEPT ![answerer] = Load]
  /\ Goto(answerer, "capture")
  /\ UNCHANGED <<rowVars, mediaVars, purge, carrierVars, mishaps>>

-----------------------------------------------------------------------------
(* The gate: on_dtmf per digit, time_out_pending_consent in the sweep.     *)

(* A digit is a webhook of its own: it may overtake the answer's, and be   *)
(* handled when the leg is gone.                                           *)
DigitLoad(d) ==
  /\ At(d, "idle")
  /\ leg # "ringing"
  /\ read' = [read EXCEPT ![d] = Load]
  /\ Goto(d, IF consent = "pending" THEN "resolve" ELSE "over")
  /\ UNCHANGED <<rowVars, mediaVars, purge, carrierVars, mishaps>>

(* The stamp is some seconds old; how many is up to the clock. *)
SweepSelect ==
  /\ At(sweep, "idle")
  /\ consent = "pending" /\ stamped /\ status \in {"answered", "bridged"}
  /\ read' = [read EXCEPT ![sweep] = Load]
  /\ Goto(sweep, "resolve")
  /\ UNCHANGED <<rowVars, mediaVars, purge, carrierVars, mishaps>>

(* Mutant: a gate nobody answered is taken for an assent. *)
VerdictsSilenceAssents(t) ==
  IF t = sweep THEN {"granted"} ELSE {on_digit(digit) : digit \in {"1", "2"}}

Verdicts(t) == IF t = sweep THEN {"timeout"}
               ELSE {on_digit(digit) : digit \in {"1", "2"}}

(* Mutant: the row that was read as pending is not looked at again. *)
ResolveStale(t) ==
  /\ At(t, "resolve")
  /\ \E s \in Verdicts(t) : consent' = s /\ Goto(t, after(s))
  /\ UNCHANGED <<setup, status, stamped, recording, transcription, started,
                 read, mediaVars, purge, carrierVars, mishaps>>

(* UPDATE ... WHERE consent_status = 'pending': the first decision stands. *)
Resolve(t) ==
  /\ At(t, "resolve")
  /\ IF consent = "pending"
     THEN \E s \in Verdicts(t) : consent' = s /\ Goto(t, after(s))
     ELSE consent' = consent /\ Goto(t, Done(t))
  /\ UNCHANGED <<setup, status, stamped, recording, transcription, started,
                 read, mediaVars, purge, carrierVars, mishaps>>

(* Mutant: only a grant opens the audio path. *)
DeclineMute(t) ==
  /\ At(t, "decline")
  /\ recording' = IF recording = "pending" THEN "none" ELSE recording
  /\ transcription' = "none"
  /\ Goto(t, Done(t))
  /\ UNCHANGED <<setup, status, consent, stamped, started, read, mediaVars,
                 purge, carrierVars, mishaps>>

(* stop_wanting_capture, and the call goes on. *)
Decline(t) ==
  /\ At(t, "decline")
  /\ recording' = IF recording = "pending" THEN "none" ELSE recording
  /\ transcription' = "none"
  /\ Goto(t, "arm")
  /\ UNCHANGED <<setup, status, consent, stamped, started, read, mediaVars,
                 purge, carrierVars, mishaps>>

(* The carrier ends the leg, keeps what it recorded and says both. *)
HungUp(kept) ==
  /\ leg' = "down"
  /\ recorder' = IF recorder = "on" THEN "kept" ELSE recorder
  /\ events' = events \cup {"hangup"} \cup kept

Ending == HungUp(IF recorder = "on" THEN {"saved"} ELSE {})

(* EndCall: a hangup that fails is logged. *)
HangUp(t) ==
  /\ At(t, "hangup")
  /\ IF leg = "up" THEN Ending \/ UNCHANGED <<leg, recorder, events>>
     ELSE UNCHANGED <<leg, recorder, events>>
  /\ Goto(t, Done(t))
  /\ UNCHANGED <<rowVars, read, mediaVars, purge, told, mishaps>>

-----------------------------------------------------------------------------
(* start_capture, of the answer or of a digit.                             *)

(* Mutant: the stamp is left to the caller. *)
MayRecordRegardless(row) == TRUE

(* "The last gate before audio is kept" is asked of the row read earlier. *)
MayRecord(row) == row.stamped \/ row.consent = "not_required"

(* The carrier starts the recorder or does not, and its answer may be lost. *)
StartCapture(t) ==
  /\ At(t, "capture")
  /\ LET row == read[t]
     IN  \/ /\ row.recording /\ ~MayRecord(row)
            /\ Goto(t, "arm")
            /\ UNCHANGED <<recorder, events>>
         \/ /\ row.recording /\ MayRecord(row) /\ leg = "up"
            /\ recorder' = "on"
            /\ events' = events \cup {"recording_started"}
            /\ \E answer \in {"accepted", "rejected"} : Goto(t, answer)
         \/ /\ row.recording /\ MayRecord(row)
            /\ Goto(t, "rejected")
            /\ UNCHANGED <<recorder, events>>
         \/ /\ ~row.recording
            /\ Goto(t, "permit")
            /\ UNCHANGED <<recorder, events>>
  /\ UNCHANGED <<rowVars, read, mediaVars, purge, leg, told, mishaps>>

Overtake == overtaken' = (overtaken \/ recording = "saved")

(* The row is written with what the carrier answered, whatever it says by now. *)
NoteRecorder(t) ==
  /\ pc[t] \in {"accepted", "rejected"}
  /\ recording' = IF At(t, "accepted") THEN "recording" ELSE "failed"
  /\ Overtake
  /\ Goto(t, "permit")
  /\ UNCHANGED <<setup, status, consent, stamped, transcription, started, read,
                 parked, session, purge, carrierVars, mishaps>>

Permit(t) ==
  /\ At(t, "permit")
  /\ started' = (started \/ read[t].transcription)
  /\ Goto(t, "arm")
  /\ UNCHANGED <<setup, status, consent, stamped, recording, transcription,
                 read, mediaVars, purge, carrierVars, mishaps>>

-----------------------------------------------------------------------------
(* The audio path, session.rs.                                             *)

(* A stream that cannot be started takes the parked leg away, also one an  *)
(* earlier request had already armed.                                      *)
Arm(t) ==
  /\ At(t, "arm")
  /\ \/ /\ parked /\ leg = "up"
        /\ session' = "armed"
        /\ parked' = parked
     \/ parked' = FALSE /\ session' = session
  /\ Goto(t, Done(t))
  /\ UNCHANGED <<rowVars, read, purge, carrierVars, overtaken, mishaps>>

Mishap == mishaps < MaxMishaps /\ mishaps' = mishaps + 1

(* The socket claims the leg and the engine session is opened with or      *)
(* without a transcript service, once for the whole conversation.          *)
OpenSession ==
  /\ session = "armed" /\ parked
  /\ parked' = FALSE
  /\ \/ session' = (IF started THEN "keeping" ELSE "mute") /\ mishaps' = mishaps
     \/ session' = "mute" /\ Mishap
  /\ UNCHANGED <<rowVars, taskVars, purge, carrierVars, overtaken>>

-----------------------------------------------------------------------------
(* The carrier and its other webhooks, in any order.                       *)

LegAnswers ==
  /\ leg = "ringing"
  /\ leg' = "up"
  /\ events' = events \cup {"answered"}
  /\ UNCHANGED <<rowVars, taskVars, mediaVars, purge, told, recorder, mishaps>>

LegDrops ==
  /\ leg # "down"
  /\ Ending
  /\ UNCHANGED <<rowVars, taskVars, mediaVars, purge, told, mishaps>>

(* A terminal call gives its parked leg back (`reclaim`). *)
Hangup ==
  /\ "hangup" \in events
  /\ events' = events \ {"hangup"}
  /\ status' = IF is_terminal(status) THEN status ELSE next(status, "Hangup")
  /\ parked' = FALSE
  /\ UNCHANGED <<setup, consent, stamped, recording, transcription, started,
                 taskVars, session, purge, leg, told, recorder, overtaken,
                 mishaps>>

RecordingStarted ==
  /\ "recording_started" \in events
  /\ events' = events \ {"recording_started"}
  /\ recording' = "recording"
  /\ Overtake
  /\ UNCHANGED <<setup, status, consent, stamped, transcription, started,
                 taskVars, parked, session, purge, leg, told, recorder, mishaps>>

(* Mutant: a recording that lands after the hangup is too late. *)
RecordingSavedIfLive ==
  /\ "saved" \in events
  /\ events' = events \ {"saved"}
  /\ recording' = IF is_terminal(status) THEN recording ELSE "saved"
  /\ UNCHANGED <<setup, status, consent, stamped, transcription, started,
                 taskVars, mediaVars, purge, leg, told, recorder, mishaps>>

RecordingSaved ==
  /\ "saved" \in events
  /\ events' = events \ {"saved"}
  /\ recording' = "saved"
  /\ UNCHANGED <<setup, status, consent, stamped, transcription, started,
                 taskVars, mediaVars, purge, leg, told, recorder, mishaps>>

-----------------------------------------------------------------------------
(* Retention: sweep_voip_recordings_once.                                  *)

(* Days have passed: no handler of the call runs any more. *)
Quiet == events = {} /\ \A t \in Tasks : pc[t] \in {"idle", "over"}

(* Mutant: the carrier's refusal to delete is only logged. *)
PurgeAskOnly ==
  /\ ~purge /\ recording = "saved" /\ Quiet
  /\ purge' = TRUE
  /\ recorder' \in {recorder, "deleted"}
  /\ UNCHANGED <<rowVars, taskVars, mediaVars, leg, told, events, mishaps>>

(* The bytes first.  A delete that fails changes nothing and is tried      *)
(* again; one that finds nothing to delete succeeds.                       *)
PurgeAsk ==
  /\ ~purge /\ recording = "saved" /\ Quiet
  /\ purge' = TRUE
  /\ recorder' = "deleted"
  /\ UNCHANGED <<rowVars, taskVars, mediaVars, leg, told, events, mishaps>>

(* The pointer second. *)
PurgeNote ==
  /\ purge
  /\ purge' = FALSE
  /\ recording' = "deleted"
  /\ UNCHANGED <<setup, status, consent, stamped, transcription, started,
                 taskVars, mediaVars, carrierVars, mishaps>>

-----------------------------------------------------------------------------
(* What may go wrong here.                                                 *)

(* A database error ends the task where it stands; the answer's handler    *)
(* takes it for an announcement that was not made, and arms the media.     *)
DatabaseError(t) ==
  /\ pc[t] \in Steps \ {"idle", "arm", "hangup", "over"}
  /\ Mishap
  /\ Goto(t, IF t = answerer THEN "arm" ELSE Done(t))
  /\ UNCHANGED <<rowVars, read, mediaVars, purge, carrierVars>>

(* A restart loses the tasks, the parked leg and the session. *)
Crash ==
  /\ Mishap
  /\ pc' = [t \in Tasks |-> IF At(t, "idle") THEN "idle" ELSE Done(t)]
  /\ parked' = FALSE
  /\ session' = "none"
  /\ purge' = FALSE
  /\ UNCHANGED <<rowVars, read, carrierVars, overtaken>>

-----------------------------------------------------------------------------
Announcing == Speak \/ Stamp \/ Gather \/ Silence \/ Waive \/ Reload

Running(t) ==
  Resolve(t) \/ Decline(t) \/ HangUp(t) \/ StartCapture(t) \/ NoteRecorder(t)
    \/ Permit(t) \/ Arm(t)

Webhook == Answer \/ Hangup \/ RecordingStarted \/ RecordingSaved

Next ==
  \/ Announcing \/ SweepSelect \/ OpenSession \/ Webhook
  \/ \E d \in Digits : DigitLoad(d)
  \/ \E t \in Tasks : Running(t) \/ DatabaseError(t)
  \/ LegAnswers \/ LegDrops \/ PurgeAsk \/ PurgeNote \/ Crash

(* A spawned task runs on, the carrier delivers a webhook until it is      *)
(* accepted and connects a socket it was told of, the sweeps run, and the  *)
(* carrier deletes a recording in the end.                                 *)
Fairness ==
  /\ WF_vars(Announcing) /\ WF_vars(SweepSelect) /\ WF_vars(OpenSession)
  /\ WF_vars(Answer) /\ WF_vars(Hangup)
  /\ WF_vars(RecordingStarted) /\ WF_vars(RecordingSaved)
  /\ \A t \in Tasks : WF_vars(Running(t))
  /\ WF_vars(PurgeAsk) /\ WF_vars(PurgeNote)

Spec == Init /\ [][Next]_vars

LiveSpec == Spec /\ Fairness

-----------------------------------------------------------------------------
Rows == [recording : BOOLEAN, transcription : BOOLEAN,
         consent : ConsentStatuses, stamped : BOOLEAN]

(* Every variable has its type; the sweep never reaches start_capture. *)
TypeOK ==
  /\ setup \in Setups
  /\ status \in {"ringing", "answered", "completed", "failed"}
  /\ consent \in ConsentStatuses
  /\ {stamped, started, parked, purge, told, overtaken} \subseteq BOOLEAN
  /\ recording \in {"none", "pending", "recording", "failed", "saved", "deleted"}
  /\ transcription \in {"none", "live"}
  /\ pc \in [Tasks -> Steps]
  /\ pc[sweep] \in {"idle", "resolve", "decline", "hangup", "arm"}
  /\ read \in [Tasks -> Rows]
  /\ session \in {"none", "armed", "keeping", "mute"}
  /\ leg \in {"ringing", "up", "down"}
  /\ recorder \in {"off", "on", "kept", "deleted"}
  /\ events \subseteq {"answered", "hangup", "recording_started", "saved"}
  /\ mishaps \in 0 .. MaxMishaps

(* "Capture is never silent": the carrier's recorder runs only when the    *)
(* recipient has been told and, where the policy asks, has said yes; words *)
(* are kept only with that yes, or after a notice that needs none.  The    *)
(* model has no stamp to demand of a gated transcript: a digit pressed     *)
(* before the announcement is accepted as consent for it, not for audio.   *)
NothingKeptUnasked ==
  /\ recorder # "off" => told /\ (Gated => consent = "granted")
  /\ started => IF Gated THEN consent = "granted" ELSE stamped /\ told
  /\ session = "keeping" => started

(* "Bytes first, pointer second": the row never forgets a recording the    *)
(* carrier still has, also when a restart separates the two.               *)
PointerOutlivesBytes == recording = "deleted" => recorder = "deleted"

(* "A redelivered digit webhook cannot turn a denial into a grant": digits,*)
(* the sweep and a failing announcement race, and the first one decides.   *)
ConsentDecidedOnce == [][consent # "pending" => UNCHANGED consent]_vars

Refused == consent \in {"denied", "timeout"} /\ setup.refused = "end"

(* An answered call gets its audio path whatever becomes of its gate: the  *)
(* leg is claimed by the media socket, or given up because the stream      *)
(* could not be started or the call ended, unless the call is to end for   *)
(* want of consent.  A restart or a database error may leave it silent.    *)
AudioOpens == status = "answered" ~> ~parked \/ Refused \/ mishaps > 0

(* A recording the carrier keeps is deleted in the end, also when the sweep*)
(* dies between the two.  The exception is a row that 'saved' reached      *)
(* before start_capture, or the webhook of the start, wrote its own value  *)
(* over it: the sweep looks for 'saved' only.                              *)
KeptIsPurged == recorder = "kept" ~> recording = "deleted" \/ overtaken
=============================================================================
