------------------------- MODULE ConsentGateProofs -------------------------
(***************************************************************************)
(* Proofs about ConsentGate: its types, that a decision stands, that a     *)
(* pointer is not dropped before the bytes, that nothing is kept without   *)
(* asking, and that neither a recording nor the audio path is forgotten,   *)
(* for any setups, digits and number of mishaps.                           *)
(***************************************************************************)
EXTENDS ConsentGate, CallStateProofs

LEMMA TasksDiffer ==
  /\ answerer \in Tasks /\ sweep \in Tasks /\ answerer # sweep
  /\ answerer \notin Digits /\ sweep \notin Digits /\ Digits \subseteq Tasks
  BY ConsentAssumption DEF Tasks

(* What a digit or the sweep may decide and where it leads. *)
LEMMA VerdictsLead ==
  ASSUME NEW t, NEW s \in Verdicts(t)
  PROVE  /\ s \in {"granted", "denied", "timeout"}
         /\ after(s) \in {"capture", "decline", "hangup"}
         /\ after(s) = "capture" => s = "granted"
         /\ t = sweep => after(s) # "capture"
  BY DEF Verdicts, on_digit, after

(* A gate exists for what is wanted: when the row that was read wants less *)
(* than the dial did, it wants nothing at all or the gate is the same.     *)
LEMMA GateGrows ==
  ASSUME NEW r \in BOOLEAN, NEW w \in BOOLEAN, Gated,
         ~Gate(setup.policy, r, w)
  PROVE  ~r /\ ~w
  BY DEF Gated, Gate, Captures

LEMMA MishapIsCounted ==
  ASSUME TypeOK, Mishap PROVE mishaps' \in 0 .. MaxMishaps
  BY ConsentAssumption DEF TypeOK, Mishap

LEMMA GotoIsTyped ==
  ASSUME TypeOK, NEW t \in Tasks, NEW s \in Steps, Goto(t, s),
         t = sweep => s \in {"idle", "resolve", "decline", "hangup", "arm"}
  PROVE  /\ pc' \in [Tasks -> Steps]
         /\ pc'[sweep] \in {"idle", "resolve", "decline", "hangup", "arm"}
  BY TasksDiffer DEF TypeOK, Goto

LEMMA LoadIsTyped ==
  ASSUME TypeOK PROVE Load \in Rows
  BY DEF TypeOK, Load, Rows

LEMMA DoneIsTyped ==
  ASSUME NEW t \in Tasks
  PROVE  Done(t) \in Steps /\ (t = sweep => Done(t) = "idle")
         /\ Done(t) \in {"idle", "over"} /\ (t # sweep => Done(t) = "over")
  BY DEF Done, Steps

LEMMA EndingIsTyped ==
  ASSUME TypeOK, Ending
  PROVE  /\ leg' = "down" /\ recorder' \in {"off", "on", "kept", "deleted"}
         /\ events' \subseteq {"answered", "hangup", "recording_started",
                               "saved"}
         /\ events \subseteq events'
         /\ "saved" \in events' => "saved" \in events \/ recorder = "on"
         /\ (recorder' = "off") = (recorder = "off")
         /\ recorder = "deleted" => recorder' = "deleted"
  BY DEF TypeOK, Ending, HungUp

-----------------------------------------------------------------------------
LEMMA TypeInit ==
  ASSUME Init PROVE TypeOK
<1>1. setup \in Setups /\ setup.recording \in BOOLEAN
        /\ setup.transcription \in BOOLEAN
  BY ConsentAssumption DEF Init
<1>2. consent \in ConsentStatuses
  BY DEF Init, InitialStatus, ConsentStatuses
<1>3. Load \in Rows
  BY <1>2 DEF Init, Load, Rows
<1>4. pc \in [Tasks -> Steps] /\ pc[sweep] = "idle"
  BY TasksDiffer DEF Init, Steps
<1>5. read \in [Tasks -> Rows]
  BY <1>3 DEF Init
<1>6. mishaps \in 0 .. MaxMishaps
  BY ConsentAssumption DEF Init
<1>7. {stamped, started, parked, purge, told, overtaken} \subseteq BOOLEAN
  BY DEF Init
<1>. QED
  BY <1>1, <1>2, <1>4, <1>5, <1>6, <1>7 DEF Init, TypeOK

(* The steps of the announcement. *)
LEMMA AnnouncingTyped ==
  ASSUME TypeOK, Announcing PROVE TypeOK'
<1>1. CASE Speak
  <2>1. pc' \in [Tasks -> Steps]
          /\ pc'[sweep] \in {"idle", "resolve", "decline", "hangup", "arm"}
    BY <1>1, GotoIsTyped, TasksDiffer DEF Speak, Steps
  <2>2. told' \in BOOLEAN
    BY <1>1 DEF Speak, TypeOK
  <2>. QED
    BY <1>1, <2>1, <2>2 DEF Speak, TypeOK, rowVars, mediaVars
<1>2. CASE Stamp
  BY <1>2, GotoIsTyped, TasksDiffer
     DEF Stamp, TypeOK, Steps, mediaVars, carrierVars
<1>3. CASE Gather
  BY <1>3, GotoIsTyped, TasksDiffer
     DEF Gather, TypeOK, Steps, rowVars, mediaVars, carrierVars
<1>4. CASE Silence
  BY <1>4, GotoIsTyped, TasksDiffer
     DEF Silence, TypeOK, Steps, mediaVars, carrierVars
<1>5. CASE Waive
  BY <1>5, GotoIsTyped, TasksDiffer
     DEF Waive, TypeOK, Steps, ConsentStatuses, mediaVars, carrierVars
<1>6. CASE Reload
  BY <1>6, GotoIsTyped, LoadIsTyped, TasksDiffer
     DEF Reload, TypeOK, Steps, rowVars, mediaVars, carrierVars
<1>. QED
  BY <1>1, <1>2, <1>3, <1>4, <1>5, <1>6 DEF Announcing

(* The steps that load the row. *)
LEMMA LoadsTyped ==
  ASSUME TypeOK, Answer \/ SweepSelect \/ (\E d \in Digits : DigitLoad(d))
  PROVE  TypeOK'
<1>1. CASE Answer
  BY <1>1, GotoIsTyped, LoadIsTyped, TasksDiffer
     DEF Answer, TypeOK, Steps, mediaVars
<1>2. CASE SweepSelect
  BY <1>2, GotoIsTyped, LoadIsTyped, TasksDiffer
     DEF SweepSelect, TypeOK, Steps, rowVars, mediaVars, carrierVars
<1>3. CASE \E d \in Digits : DigitLoad(d)
  BY <1>3, GotoIsTyped, LoadIsTyped, TasksDiffer
     DEF DigitLoad, TypeOK, Steps, rowVars, mediaVars, carrierVars
<1>. QED
  BY <1>1, <1>2, <1>3

LEMMA RunningTyped ==
  ASSUME TypeOK, NEW t \in Tasks, Running(t) PROVE TypeOK'
<1>1. CASE Resolve(t)
  <2>1. CASE consent = "pending"
    <3>1. PICK s \in Verdicts(t) : consent' = s /\ Goto(t, after(s))
      BY <1>1, <2>1 DEF Resolve
    <3>. QED
      BY <1>1, <3>1, GotoIsTyped, VerdictsLead
         DEF Resolve, TypeOK, Steps, ConsentStatuses, mediaVars, carrierVars
  <2>2. CASE consent # "pending"
    BY <1>1, <2>2, GotoIsTyped, DoneIsTyped
       DEF Resolve, TypeOK, mediaVars, carrierVars
  <2>. QED
    BY <2>1, <2>2
<1>2. CASE Decline(t)
  BY <1>2, GotoIsTyped DEF Decline, TypeOK, Steps, mediaVars, carrierVars
<1>3. CASE HangUp(t)
  <2>1. leg' \in {"ringing", "up", "down"}
          /\ recorder' \in {"off", "on", "kept", "deleted"}
          /\ events' \subseteq {"answered", "hangup", "recording_started",
                                "saved"}
    BY <1>3, EndingIsTyped DEF HangUp, TypeOK
  <2>2. pc' \in [Tasks -> Steps]
          /\ pc'[sweep] \in {"idle", "resolve", "decline", "hangup", "arm"}
    BY <1>3, GotoIsTyped, DoneIsTyped DEF HangUp
  <2>. QED
    BY <1>3, <2>1, <2>2 DEF HangUp, TypeOK, rowVars, mediaVars
<1>4. CASE StartCapture(t)
  <2>1. PICK s \in {"arm", "accepted", "rejected", "permit"} : Goto(t, s)
    BY <1>4 DEF StartCapture
  <2>2. t # sweep
    BY <1>4 DEF StartCapture, At, TypeOK
  <2>3. pc' \in [Tasks -> Steps]
          /\ pc'[sweep] \in {"idle", "resolve", "decline", "hangup", "arm"}
    BY <2>1, <2>2, GotoIsTyped DEF Steps
  <2>4. recorder' \in {"off", "on", "kept", "deleted"}
          /\ events' \subseteq {"answered", "hangup", "recording_started",
                                "saved"}
    BY <1>4 DEF StartCapture, TypeOK
  <2>. QED
    BY <1>4, <2>3, <2>4 DEF StartCapture, TypeOK, rowVars, mediaVars
<1>5. CASE NoteRecorder(t)
  BY <1>5, GotoIsTyped
     DEF NoteRecorder, Overtake, TypeOK, Steps, carrierVars
<1>6. CASE Permit(t)
  BY <1>6, GotoIsTyped
     DEF Permit, At, TypeOK, Steps, Rows, mediaVars, carrierVars
<1>7. CASE Arm(t)
  <2>1. pc' \in [Tasks -> Steps]
          /\ pc'[sweep] \in {"idle", "resolve", "decline", "hangup", "arm"}
    BY <1>7, GotoIsTyped, DoneIsTyped DEF Arm
  <2>2. parked' \in BOOLEAN /\ session' \in {"none", "armed", "keeping", "mute"}
    BY <1>7 DEF Arm, TypeOK
  <2>3. UNCHANGED <<rowVars, read, purge, carrierVars, overtaken, mishaps>>
    BY <1>7 DEF Arm
  <2>. QED
    BY <2>1, <2>2, <2>3 DEF TypeOK, rowVars, carrierVars
<1>. QED
  BY <1>1, <1>2, <1>3, <1>4, <1>5, <1>6, <1>7 DEF Running

(* A hangup takes the row to an end of the lifecycle or leaves it there. *)
LEMMA HangupIsTyped ==
  ASSUME TypeOK, Hangup
  PROVE  status' \in {"ringing", "answered", "completed", "failed"}
  BY DEF TypeOK, Hangup, next, is_terminal, was_answered, rank, Candidate,
         NoMove

LEMMA OthersTyped ==
  ASSUME TypeOK,
         OpenSession \/ Hangup \/ RecordingStarted \/ RecordingSaved
           \/ LegAnswers \/ LegDrops \/ PurgeAsk \/ PurgeNote
  PROVE  TypeOK'
<1>1. CASE OpenSession
  <2>1. mishaps' \in 0 .. MaxMishaps
    BY <1>1, MishapIsCounted DEF OpenSession, TypeOK
  <2>2. session' \in {"none", "armed", "keeping", "mute"} /\ parked' \in BOOLEAN
    BY <1>1 DEF OpenSession
  <2>3. UNCHANGED <<rowVars, taskVars, purge, carrierVars, overtaken>>
    BY <1>1 DEF OpenSession
  <2>. QED
    BY <2>1, <2>2, <2>3 DEF TypeOK, rowVars, taskVars, carrierVars
<1>2. CASE Hangup
  <2>1. {stamped', started', parked', purge', told', overtaken'} \subseteq BOOLEAN
    BY <1>2 DEF Hangup, TypeOK
  <2>2. events' \subseteq {"answered", "hangup", "recording_started", "saved"}
    BY <1>2 DEF Hangup, TypeOK
  <2>3. UNCHANGED <<setup, consent, recording, transcription, pc, read, session,
                    leg, recorder, mishaps>>
    BY <1>2 DEF Hangup, taskVars
  <2>. QED
    BY <1>2, <2>1, <2>2, <2>3, HangupIsTyped DEF TypeOK
<1>3. CASE RecordingStarted
  <2>1. overtaken' \in BOOLEAN /\ recording' = "recording"
          /\ events' \subseteq events
    BY <1>3 DEF RecordingStarted, Overtake
  <2>2. UNCHANGED <<setup, status, consent, stamped, transcription, started,
                    taskVars, parked, session, purge, leg, told, recorder,
                    mishaps>>
    BY <1>3 DEF RecordingStarted
  <2>. QED
    BY <2>1, <2>2 DEF TypeOK, taskVars
<1>4. CASE RecordingSaved
  BY <1>4 DEF RecordingSaved, TypeOK, taskVars, mediaVars
<1>5. CASE LegAnswers
  BY <1>5 DEF LegAnswers, TypeOK, rowVars, taskVars, mediaVars
<1>6. CASE LegDrops
  BY <1>6, EndingIsTyped DEF LegDrops, TypeOK, rowVars, taskVars, mediaVars
<1>7. CASE PurgeAsk
  <2>1. purge' \in BOOLEAN /\ recorder' \in {"off", "on", "kept", "deleted"}
    BY <1>7 DEF PurgeAsk
  <2>2. UNCHANGED <<rowVars, taskVars, mediaVars, leg, told, events, mishaps>>
    BY <1>7 DEF PurgeAsk
  <2>. QED
    BY <2>1, <2>2 DEF TypeOK, rowVars, taskVars, mediaVars
<1>8. CASE PurgeNote
  <2>1. /\ purge' \in BOOLEAN
        /\ recording' \in {"none", "pending", "recording", "failed", "saved",
                           "deleted"}
    BY <1>8 DEF PurgeNote
  <2>2. UNCHANGED <<setup, status, consent, stamped, transcription, started,
                    taskVars, mediaVars, carrierVars, mishaps>>
    BY <1>8 DEF PurgeNote
  <2>. QED
    BY <2>1, <2>2 DEF TypeOK, taskVars, mediaVars, carrierVars
<1>. QED
  BY <1>1, <1>2, <1>3, <1>4, <1>5, <1>6, <1>7, <1>8

LEMMA MishapsTyped ==
  ASSUME TypeOK, Crash \/ (\E t \in Tasks : DatabaseError(t)) PROVE TypeOK'
<1>1. CASE Crash
  <2>1. \A t \in Tasks : (IF At(t, "idle") THEN "idle" ELSE Done(t)) \in Steps
    BY DoneIsTyped DEF Steps
  <2>2. pc' \in [Tasks -> Steps] /\ pc'[sweep] = "idle"
    BY <1>1, <2>1, TasksDiffer, DoneIsTyped DEF Crash
  <2>3. /\ parked' \in BOOLEAN /\ purge' \in BOOLEAN /\ session' = "none"
        /\ mishaps' \in 0 .. MaxMishaps
    BY <1>1, MishapIsCounted DEF Crash
  <2>4. UNCHANGED <<rowVars, read, carrierVars, overtaken>>
    BY <1>1 DEF Crash
  <2>. QED
    BY <2>2, <2>3, <2>4 DEF TypeOK, rowVars, carrierVars
<1>2. CASE \E t \in Tasks : DatabaseError(t)
  BY <1>2, GotoIsTyped, DoneIsTyped, MishapIsCounted, TasksDiffer
     DEF DatabaseError, TypeOK, Steps, rowVars, mediaVars, carrierVars
<1>. QED
  BY <1>1, <1>2

LEMMA TypeStep ==
  ASSUME TypeOK, [Next]_vars PROVE TypeOK'
<1>1. CASE Next
  BY <1>1, AnnouncingTyped, LoadsTyped, RunningTyped, OthersTyped, MishapsTyped
     DEF Next, Webhook
<1>2. CASE UNCHANGED vars
  BY <1>2 DEF vars, rowVars, taskVars, mediaVars, carrierVars, TypeOK
<1>. QED
  BY <1>1, <1>2

(* Every variable keeps its type, and the sweep never starts a capture. *)
THEOREM ConsentTypes == Spec => []TypeOK
<1>1. Init => TypeOK
  BY TypeInit
<1>2. TypeOK /\ [Next]_vars => TypeOK'
  BY TypeStep
<1>. QED
  BY <1>1, <1>2, PTL DEF Spec

-----------------------------------------------------------------------------
CaptureSteps == {"capture", "accepted", "rejected", "permit"}

(* What no step takes back: the decision, the setup, the stamp, what the   *)
(* recipient was told; and what no step asks for once it was given up.     *)
LEMMA OneWay ==
  ASSUME TypeOK, [Next]_vars
  PROVE  /\ setup' = setup
         /\ consent # "pending" => consent' = consent
         /\ stamped => stamped'
         /\ told => told'
         /\ recording' = "pending" => recording = "pending"
         /\ transcription' = "live" => transcription = "live"
<1>1. CASE Announcing
  BY <1>1 DEF Announcing, Speak, Stamp, Gather, Silence, Waive, Reload, TypeOK,
              rowVars, carrierVars
<1>2. CASE Answer \/ SweepSelect \/ OpenSession \/ (\E d \in Digits : DigitLoad(d))
  BY <1>2 DEF Answer, SweepSelect, OpenSession, DigitLoad, rowVars, carrierVars
<1>3. CASE Hangup \/ RecordingStarted \/ RecordingSaved
  BY <1>3 DEF Hangup, RecordingStarted, RecordingSaved
<1>4. ASSUME NEW t \in Tasks, Resolve(t) \/ Decline(t) \/ HangUp(t)
      PROVE  /\ setup' = setup /\ (consent # "pending" => consent' = consent)
             /\ stamped' = stamped /\ told' = told
             /\ recording' = "pending" => recording = "pending"
             /\ transcription' = "live" => transcription = "live"
  BY <1>4 DEF Resolve, Decline, HangUp, rowVars, carrierVars
<1>5. ASSUME NEW t \in Tasks,
             StartCapture(t) \/ NoteRecorder(t) \/ Permit(t) \/ Arm(t)
      PROVE  /\ UNCHANGED <<setup, consent, stamped, told, transcription>>
             /\ recording' = "pending" => recording = "pending"
  BY <1>5 DEF StartCapture, NoteRecorder, Permit, Arm, rowVars, carrierVars
<1>6. CASE (\E t \in Tasks : DatabaseError(t)) \/ Crash
  BY <1>6 DEF DatabaseError, Crash, rowVars, carrierVars
<1>7. CASE LegAnswers \/ LegDrops \/ PurgeAsk \/ PurgeNote
  BY <1>7 DEF LegAnswers, LegDrops, PurgeAsk, PurgeNote, rowVars, carrierVars
<1>8. CASE UNCHANGED vars
  BY <1>8 DEF vars, rowVars, carrierVars
<1>. QED
  BY <1>1, <1>2, <1>3, <1>4, <1>5, <1>6, <1>7, <1>8 DEF Next, Webhook, Running

(* A second digit, the sweep and a failing announcement cannot turn a      *)
(* decision round (disclosure.rs, resolve: only a pending row is updated). *)
THEOREM DecisionStands == Spec => ConsentDecidedOnce
<1>1. TypeOK /\ [Next]_vars =>
        [consent # "pending" => UNCHANGED consent]_vars
  BY OneWay
<1>2. Spec => []TypeOK
  BY ConsentTypes
<1>. QED
  BY <1>1, <1>2, PTL DEF Spec, ConsentDecidedOnce

-----------------------------------------------------------------------------
(* Until the leg is down the carrier keeps nothing, so no sweep deletes.   *)
BytesInv ==
  /\ leg # "down" => /\ recorder \in {"off", "on"} /\ "saved" \notin events
                     /\ recording \notin {"saved", "deleted"} /\ ~purge
  /\ purge \/ recording = "deleted" => recorder = "deleted"

LEMMA BytesStep ==
  ASSUME TypeOK, BytesInv, [Next]_vars PROVE BytesInv'
<1>1. CASE Announcing
  BY <1>1 DEF Announcing, Speak, Stamp, Gather, Silence, Waive, Reload, BytesInv,
              rowVars, mediaVars, carrierVars
<1>2. CASE Answer \/ SweepSelect \/ OpenSession \/ (\E d \in Digits : DigitLoad(d))
  BY <1>2 DEF Answer, SweepSelect, OpenSession, DigitLoad, BytesInv, rowVars,
              mediaVars, carrierVars
<1>3. CASE Hangup
  BY <1>3 DEF Hangup, BytesInv
<1>4. CASE RecordingStarted \/ RecordingSaved
  BY <1>4 DEF RecordingStarted, RecordingSaved, BytesInv, mediaVars
<1>5. ASSUME NEW t \in Tasks, Resolve(t) \/ Decline(t) \/ Permit(t) \/ Arm(t)
      PROVE  BytesInv'
  BY <1>5 DEF Resolve, Decline, Permit, Arm, BytesInv, rowVars, mediaVars,
              carrierVars
<1>6. ASSUME NEW t \in Tasks, HangUp(t) PROVE BytesInv'
  BY <1>6, EndingIsTyped DEF HangUp, BytesInv, rowVars
<1>7. ASSUME NEW t \in Tasks, StartCapture(t) PROVE BytesInv'
  BY <1>7 DEF StartCapture, BytesInv, rowVars
<1>8. ASSUME NEW t \in Tasks, NoteRecorder(t) PROVE BytesInv'
  BY <1>8 DEF NoteRecorder, BytesInv, carrierVars
<1>9. CASE LegAnswers \/ PurgeAsk \/ PurgeNote
  BY <1>9 DEF LegAnswers, PurgeAsk, PurgeNote, BytesInv, TypeOK, rowVars,
              carrierVars
<1>10. CASE LegDrops
  BY <1>10, EndingIsTyped DEF LegDrops, BytesInv, rowVars
<1>11. CASE (\E t \in Tasks : DatabaseError(t)) \/ Crash
  BY <1>11 DEF DatabaseError, Crash, BytesInv, rowVars, carrierVars
<1>12. CASE UNCHANGED vars
  BY <1>12 DEF vars, rowVars, carrierVars, BytesInv
<1>. QED
  BY <1>1, <1>2, <1>3, <1>4, <1>5, <1>6, <1>7, <1>8, <1>9, <1>10, <1>11, <1>12
     DEF Next, Webhook, Running

(* The row never forgets a recording the carrier still has (retention.rs,  *)
(* sweep_voip_recordings_once: "bytes first, pointer second").             *)
THEOREM PointerNeverDangles == Spec => []PointerOutlivesBytes
<1>1. Init => BytesInv
  BY DEF Init, BytesInv
<1>2. TypeOK /\ BytesInv /\ [Next]_vars => BytesInv'
  BY BytesStep
<1>3. BytesInv => PointerOutlivesBytes
  BY DEF BytesInv, PointerOutlivesBytes
<1>4. Spec => []TypeOK
  BY ConsentTypes
<1>. QED
  BY <1>1, <1>2, <1>3, <1>4, PTL DEF Spec

-----------------------------------------------------------------------------
(* Why nothing is kept unasked.  A task acts on the row it read, so the    *)
(* invariant says what of that row can be relied on at each of its steps.  *)

(* What was read is no newer than the row: a stamp in it is a stamp, and   *)
(* whatever is still wanted was wanted then.                               *)
ReadsInv ==
  \A t \in Tasks :
    /\ read[t].stamped => stamped
    /\ recording = "pending" => read[t].recording
    /\ transcription = "live" => read[t].transcription

(* The handler of the answer has told the recipient when it captures, and  *)
(* captures nothing that a gate holds back.                                *)
AnswererOK ==
  LET p == pc[answerer] IN
  /\ p \notin {"resolve", "decline", "hangup"}
  /\ p = "stamp" => told
  /\ p \in {"gather", "reload"} \cup CaptureSteps => stamped
  /\ p = "reload" /\ Gated => recording # "pending" /\ transcription # "live"
  /\ p \in CaptureSteps /\ Gated =>
       ~read[answerer].recording /\ ~read[answerer].transcription

(* A digit, or the sweep, captures only behind a gate that was granted.    *)
GateOK(t) ==
  /\ pc[t] \in {"resolve"} \cup CaptureSteps =>
       Gated /\ read[t].consent # "not_required"
  /\ pc[t] \in CaptureSteps => consent = "granted"

TaskOK(t) == IF t = answerer THEN AnswererOK ELSE GateOK(t)

(* The carrier reports a saved recording only of a leg it recorded. *)
SavedInv == "saved" \in events \/ recording = "saved" => recorder # "off"

AskedInv ==
  /\ TypeOK
  /\ ReadsInv
  /\ Gated \/ consent = "not_required"
  /\ stamped => told
  /\ \A t \in Tasks : TaskOK(t)
  /\ SavedInv
  /\ NothingKeptUnasked

LEMMA LoadFields ==
  /\ Load.recording = (recording = "pending")
  /\ Load.transcription = (transcription = "live")
  /\ Load.consent = consent
  /\ Load.stamped = stamped
  BY Zenon DEF Load

LEMMA AskedInit ==
  ASSUME Init PROVE AskedInv
<1>1. TypeOK
  BY TypeInit
<1>2. \A t \in Tasks : read[t] = Load /\ pc[t] = "idle"
  BY DEF Init
<1>3. ReadsInv
  BY <1>2, LoadFields, Zenon DEF ReadsInv
<1>4. Gated \/ consent = "not_required"
  BY DEF Init, Gated, InitialStatus
<1>5. \A t \in Tasks : TaskOK(t)
  BY <1>2, TasksDiffer DEF TaskOK, AnswererOK, GateOK, CaptureSteps
<1>. QED
  BY <1>1, <1>3, <1>4, <1>5 DEF Init, AskedInv, SavedInv, NothingKeptUnasked

LEMMA GotoMoves ==
  ASSUME TypeOK, NEW t \in Tasks, NEW s, Goto(t, s)
  PROVE  pc'[t] = s /\ \A u \in Tasks : u # t => pc'[u] = pc[u]
  BY DEF TypeOK, Goto

LEMMA GateStands ==
  ASSUME AskedInv, [Next]_vars
  PROVE  Gated' = Gated /\ (Gated' \/ consent' = "not_required")
<1>1. setup' = setup /\ (consent # "pending" => consent' = consent)
  BY OneWay DEF AskedInv
<1>. QED
  BY <1>1 DEF AskedInv, Gated

(* A step leaves what a task read alone, or loads the row. *)
LEMMA ReadsMove ==
  ASSUME TypeOK, [Next]_vars, NEW t \in Tasks
  PROVE  read'[t] = read[t] \/ read'[t] = Load
<1>1. CASE Announcing \/ Webhook \/ SweepSelect \/ (\E d \in Digits : DigitLoad(d))
  BY <1>1 DEF Announcing, Speak, Stamp, Gather, Silence, Waive, Reload, Webhook,
              Answer, Hangup, RecordingStarted, RecordingSaved, SweepSelect,
              DigitLoad, TypeOK, taskVars
<1>2. CASE OpenSession \/ LegAnswers \/ LegDrops \/ PurgeAsk \/ PurgeNote \/ Crash
  BY <1>2 DEF OpenSession, LegAnswers, LegDrops, PurgeAsk, PurgeNote, Crash,
              taskVars
<1>3. CASE \E u \in Tasks : Running(u) \/ DatabaseError(u)
  BY <1>3 DEF Running, Resolve, Decline, HangUp, StartCapture, NoteRecorder,
              Permit, Arm, DatabaseError
<1>4. CASE UNCHANGED vars
  BY <1>4 DEF vars, taskVars
<1>. QED
  BY <1>1, <1>2, <1>3, <1>4 DEF Next

LEMMA ReadsStep ==
  ASSUME AskedInv, [Next]_vars PROVE ReadsInv'
<1>. SUFFICES ASSUME NEW t \in Tasks
     PROVE  /\ read'[t].stamped => stamped'
            /\ recording' = "pending" => read'[t].recording
            /\ transcription' = "live" => read'[t].transcription
  BY DEF ReadsInv
<1>1. /\ stamped => stamped'
      /\ recording' = "pending" => recording = "pending"
      /\ transcription' = "live" => transcription = "live"
  BY OneWay DEF AskedInv
<1>2. CASE read'[t] = read[t]
  BY <1>1, <1>2, Zenon DEF AskedInv, ReadsInv
<1>3. CASE read'[t] = Load
  BY <1>1, <1>3, LoadFields, Zenon
<1>. QED
  BY <1>2, <1>3, ReadsMove DEF AskedInv

-----------------------------------------------------------------------------
(* A task that stays where it is, goes from one step of a capture to the   *)
(* next, or lets go of it, relies on nothing new.                          *)
Quietly(t) ==
  \/ read'[t] = read[t] /\ pc'[t] = pc[t]
  \/ read'[t] = read[t] /\ pc[t] \in CaptureSteps /\ pc'[t] \in CaptureSteps
  \/ pc'[t] \in {"idle", "speak", "silence", "waive", "arm", "over"}
  \/ t # answerer /\ pc'[t] \in {"decline", "hangup"}

LEMMA QuietlyKeeps ==
  ASSUME AskedInv, [Next]_vars, NEW t \in Tasks, Quietly(t)
  PROVE  TaskOK(t)'
<1>1. /\ Gated' = Gated
      /\ stamped => stamped'
      /\ told => told'
      /\ consent # "pending" => consent' = consent
      /\ recording' = "pending" => recording = "pending"
      /\ transcription' = "live" => transcription = "live"
  BY OneWay, GateStands DEF AskedInv
<1>2. TaskOK(t)
  BY DEF AskedInv
<1>3. CASE t = answerer
  <2>1. AnswererOK
    BY <1>2, <1>3 DEF TaskOK
  <2>2. AnswererOK'
    BY <1>1, <1>3, <2>1 DEF AnswererOK, Quietly, CaptureSteps
  <2>. QED
    BY <1>3, <2>2 DEF TaskOK
<1>4. CASE t # answerer
  <2>1. GateOK(t)
    BY <1>2, <1>4 DEF TaskOK
  <2>2. GateOK(t)'
    BY <1>1, <1>4, <2>1 DEF GateOK, Quietly, CaptureSteps
  <2>. QED
    BY <1>4, <2>2 DEF TaskOK
<1>. QED
  BY <1>3, <1>4

(* The announcement is the one that tells, stamps and reads again. *)
LEMMA AnnouncingAsks ==
  ASSUME AskedInv, Announcing, [Next]_vars, NEW t \in Tasks
  PROVE  TaskOK(t)'
<1>. USE DEF AskedInv
<1>0. TypeOK /\ answerer \in Tasks /\ TaskOK(answerer) /\ AnswererOK
  BY TasksDiffer DEF TaskOK
<1>1. CASE t # answerer
  <2>1. pc'[t] = pc[t] /\ read'[t] = read[t]
    BY <1>0, <1>1, GotoMoves DEF Announcing, Speak, Stamp, Gather, Silence,
                                 Waive, Reload, TypeOK
  <2>. QED
    BY <2>1, QuietlyKeeps DEF Quietly
<1>2. CASE t = answerer
  <2>1. CASE Gather \/ Silence \/ Waive
    <3>1. pc'[t] \in {"over", "silence", "waive", "arm"}
      BY <1>0, <1>2, <2>1, GotoMoves DEF Gather, Silence, Waive
    <3>. QED
      BY <3>1, QuietlyKeeps DEF Quietly
  <2>2. CASE Speak
    <3>1. pc'[t] = "silence" \/ (pc'[t] = "stamp" /\ told')
      BY <1>0, <1>2, <2>2, GotoMoves DEF Speak
    <3>2. CASE pc'[t] = "silence"
      BY <3>2, QuietlyKeeps DEF Quietly
    <3>3. CASE pc'[t] = "stamp" /\ told'
      BY <1>2, <3>3 DEF TaskOK, AnswererOK, CaptureSteps
    <3>. QED
      BY <3>1, <3>2, <3>3
  <2>3. CASE Stamp
    <3>. DEFINE row == read[answerer]
    <3>1. /\ row.recording \in BOOLEAN /\ row.transcription \in BOOLEAN
          /\ recording = "pending" => row.recording
          /\ transcription = "live" => row.transcription
      BY <1>0, Zenon DEF TypeOK, Rows, ReadsInv
    <3>2. stamped' = TRUE /\ UNCHANGED <<setup, recording, transcription>>
      BY <2>3 DEF Stamp
    <3>3. CASE Gate(setup.policy, row.recording, row.transcription)
      <4>1. pc'[answerer] = "gather"
        BY <1>0, <2>3, <3>3, GotoMoves DEF Stamp
      <4>. QED
        BY <1>2, <3>2, <4>1 DEF TaskOK, AnswererOK, CaptureSteps
    <3>4. CASE ~Gate(setup.policy, row.recording, row.transcription)
      <4>1. pc'[answerer] = "reload"
        BY <1>0, <2>3, <3>4, GotoMoves DEF Stamp
      <4>2. Gated => recording # "pending" /\ transcription # "live"
        <5>. SUFFICES ASSUME Gated
             PROVE  recording # "pending" /\ transcription # "live"
          OBVIOUS
        <5>1. ~row.recording /\ ~row.transcription
          BY <3>1, <3>4, GateGrows
        <5>. QED
          BY <3>1, <5>1
      <4>3. Gated' = Gated
        BY <3>2 DEF Gated
      <4>. QED
        BY <1>2, <3>2, <4>1, <4>2, <4>3 DEF TaskOK, AnswererOK, CaptureSteps
    <3>. QED
      BY <3>3, <3>4
  <2>4. CASE Reload
    <3>1. At(answerer, "reload") /\ pc'[answerer] = "capture"
            /\ read'[answerer] = Load /\ UNCHANGED rowVars
      BY <1>0, <2>4, GotoMoves DEF Reload, TypeOK
    <3>2. stamped /\ (Gated => recording # "pending" /\ transcription # "live")
      BY <1>0, <3>1 DEF AnswererOK, At
    <3>3. Gated' => ~read'[answerer].recording /\ ~read'[answerer].transcription
      BY <3>1, <3>2, GateStands, LoadFields, Zenon
    <3>. QED
      BY <1>2, <3>1, <3>2, <3>3 DEF TaskOK, AnswererOK, CaptureSteps, rowVars
  <2>. QED
    BY <2>1, <2>2, <2>3, <2>4 DEF Announcing
<1>. QED
  BY <1>1, <1>2

(* The steps that load a pending row take its gate with it. *)
LEMMA LoadsAsk ==
  ASSUME AskedInv, Answer \/ SweepSelect \/ (\E d \in Digits : DigitLoad(d)),
         [Next]_vars, NEW t \in Tasks
  PROVE  TaskOK(t)'
<1>. USE DEF AskedInv
<1>1. CASE Answer
  <2>1. Quietly(t)
    BY <1>1, GotoMoves, TasksDiffer DEF Answer, Quietly, TypeOK
  <2>. QED
    BY <2>1, QuietlyKeeps
<1>2. ASSUME NEW u \in Tasks, u # answerer, read' = [read EXCEPT ![u] = Load],
             UNCHANGED rowVars,
             Goto(u, "over") \/ (Goto(u, "resolve") /\ consent = "pending")
      PROVE  TaskOK(t)'
  <2>1. CASE t # u \/ Goto(u, "over")
    <3>1. Quietly(t)
      BY <1>2, <2>1, GotoMoves DEF Quietly, TypeOK
    <3>. QED
      BY <3>1, QuietlyKeeps
  <2>2. CASE t = u /\ Goto(u, "resolve") /\ consent = "pending"
    <3>1. pc'[t] = "resolve" /\ read'[t] = Load
      BY <1>2, <2>2, GotoMoves DEF TypeOK
    <3>2. Gated' /\ read'[t].consent # "not_required"
      BY <2>2, <3>1, GateStands, LoadFields
    <3>. QED
      BY <1>2, <2>2, <3>1, <3>2 DEF TaskOK, GateOK, CaptureSteps
  <2>. QED
    BY <1>2, <2>1, <2>2
<1>3. CASE SweepSelect
  BY <1>2, <1>3, TasksDiffer DEF SweepSelect
<1>4. CASE \E d \in Digits : DigitLoad(d)
  BY <1>2, <1>4, TasksDiffer DEF DigitLoad
<1>. QED
  BY <1>1, <1>3, <1>4

(* A task that decides, declines, hangs up, captures or arms. *)
LEMMA RunningAsks ==
  ASSUME AskedInv, NEW u \in Tasks, Running(u), [Next]_vars, NEW t \in Tasks
  PROVE  TaskOK(t)'
<1>. USE DEF AskedInv
<1>0. read' = read
  BY DEF Running, Resolve, Decline, HangUp, StartCapture, NoteRecorder, Permit,
         Arm
<1>1. CASE t # u
  <2>1. \E s : Goto(u, s)
    BY DEF Running, Resolve, Decline, HangUp, StartCapture, NoteRecorder, Permit,
           Arm
  <2>2. Quietly(t)
    BY <1>0, <1>1, <2>1, GotoMoves DEF Quietly
  <2>. QED
    BY <2>2, QuietlyKeeps
<1>2. CASE t = u
  <2>1. CASE Resolve(u) /\ consent = "pending"
    <3>1. u # answerer
      BY <2>1 DEF Resolve, At, TaskOK, AnswererOK
    <3>2. PICK s \in Verdicts(u) : consent' = s /\ Goto(u, after(s))
      BY <2>1 DEF Resolve
    <3>3. CASE after(s) = "capture"
      <4>1. pc'[u] = "capture" /\ consent' = "granted"
        BY <3>2, <3>3, VerdictsLead, GotoMoves
      <4>2. Gated /\ read[u].consent # "not_required"
        BY <2>1, <3>1 DEF Resolve, At, TaskOK, GateOK
      <4>. QED
        BY <1>0, <1>2, <3>1, <4>1, <4>2, GateStands
           DEF TaskOK, GateOK, CaptureSteps
    <3>4. CASE after(s) # "capture"
      <4>1. Quietly(t)
        BY <1>2, <3>1, <3>2, <3>4, VerdictsLead, GotoMoves DEF Quietly
      <4>. QED
        BY <4>1, QuietlyKeeps
    <3>. QED
      BY <3>3, <3>4
  <2>2. CASE ~(Resolve(u) /\ consent = "pending")
    <3>1. CASE Resolve(u) \/ Decline(u) \/ HangUp(u) \/ Arm(u)
      <4>1. pc'[u] \in {"arm", "idle", "over"}
        BY <2>2, <3>1, GotoMoves, DoneIsTyped
           DEF Resolve, Decline, HangUp, Arm
      <4>. QED
        BY <1>2, <4>1, QuietlyKeeps DEF Quietly
    <3>2. CASE StartCapture(u) \/ NoteRecorder(u) \/ Permit(u)
      <4>1. pc[u] \in CaptureSteps
        BY <3>2 DEF StartCapture, NoteRecorder, Permit, At, CaptureSteps
      <4>2. pc'[u] \in CaptureSteps \cup {"arm"}
        BY <3>2, GotoMoves
           DEF StartCapture, NoteRecorder, Permit, CaptureSteps
      <4>. QED
        BY <1>0, <1>2, <4>1, <4>2, QuietlyKeeps DEF Quietly
    <3>. QED
      BY <3>1, <3>2 DEF Running
  <2>. QED
    BY <2>1, <2>2
<1>. QED
  BY <1>1, <1>2

(* Everything else leaves the tasks alone or ends them. *)
LEMMA OthersAsk ==
  ASSUME AskedInv, [Next]_vars, NEW t \in Tasks,
         \/ OpenSession \/ Hangup \/ RecordingStarted \/ RecordingSaved
         \/ LegAnswers \/ LegDrops \/ PurgeAsk \/ PurgeNote
         \/ Crash \/ (\E u \in Tasks : DatabaseError(u)) \/ UNCHANGED vars
  PROVE  TaskOK(t)'
<1>. USE DEF AskedInv
<1>1. CASE Crash
  BY <1>1, DoneIsTyped, QuietlyKeeps DEF Crash, Quietly
<1>2. CASE \E u \in Tasks : DatabaseError(u)
  <2>1. PICK u \in Tasks : DatabaseError(u)
    BY <1>2
  <2>2. read' = read /\ (Goto(u, "arm") \/ Goto(u, Done(u)))
    BY <2>1 DEF DatabaseError
  <2>3. Quietly(t)
    BY <2>2, GotoMoves, DoneIsTyped DEF Quietly
  <2>. QED
    BY <2>3, QuietlyKeeps
<1>3. CASE ~Crash /\ ~(\E u \in Tasks : DatabaseError(u))
  <2>1. UNCHANGED taskVars
    BY <1>3 DEF OpenSession, Hangup, RecordingStarted, RecordingSaved, LegAnswers,
                LegDrops, PurgeAsk, PurgeNote, vars
  <2>. QED
    BY <2>1, QuietlyKeeps DEF Quietly, taskVars
<1>. QED
  BY <1>1, <1>2, <1>3

-----------------------------------------------------------------------------
(* A recorder that is started was announced and, behind a gate, granted. *)
LEMMA CaptureAsks ==
  ASSUME AskedInv, NEW t \in Tasks, StartCapture(t), recorder' # recorder
  PROVE  told /\ (Gated => consent = "granted")
<1>1. pc[t] = "capture" /\ read[t].recording
        /\ (read[t].stamped \/ read[t].consent = "not_required")
  BY DEF StartCapture, At, MayRecord
<1>2. TaskOK(t) /\ (read[t].stamped => stamped) /\ (stamped => told)
  BY DEF AskedInv, ReadsInv
<1>3. CASE t = answerer
  BY <1>1, <1>2, <1>3 DEF TaskOK, AnswererOK, CaptureSteps
<1>4. CASE t # answerer
  BY <1>1, <1>2, <1>4 DEF TaskOK, GateOK, CaptureSteps
<1>. QED
  BY <1>3, <1>4

(* So is a transcript that is allowed. *)
LEMMA PermitAsks ==
  ASSUME AskedInv, NEW t \in Tasks, Permit(t), ~started, started'
  PROVE  IF Gated THEN consent = "granted" ELSE stamped /\ told
<1>1. pc[t] = "permit" /\ read[t].transcription
  BY DEF Permit, At
<1>2. TaskOK(t) /\ (stamped => told)
  BY DEF AskedInv
<1>3. CASE t = answerer
  BY <1>1, <1>2, <1>3 DEF TaskOK, AnswererOK, CaptureSteps
<1>4. CASE t # answerer
  BY <1>1, <1>2, <1>4 DEF TaskOK, GateOK, CaptureSteps
<1>. QED
  BY <1>3, <1>4

(* The recorder starts with a capture, and nothing turns it back to off. *)
LEMMA RecorderMoves ==
  ASSUME TypeOK, SavedInv, [Next]_vars
  PROVE  /\ recorder # "off" => recorder' # "off"
         /\ recorder' # "off" =>
              recorder # "off" \/ \E t \in Tasks : StartCapture(t)
         /\ SavedInv'
<1>1. CASE \E t \in Tasks : StartCapture(t)
  BY <1>1 DEF StartCapture, SavedInv, rowVars
<1>2. CASE LegDrops
  BY <1>2, EndingIsTyped DEF LegDrops, SavedInv, rowVars
<1>3. CASE \E t \in Tasks : HangUp(t)
  BY <1>3, EndingIsTyped DEF HangUp, SavedInv, rowVars
<1>4. CASE PurgeAsk
  BY <1>4 DEF PurgeAsk, SavedInv, rowVars
<1>5. CASE Announcing \/ Webhook \/ SweepSelect \/ (\E d \in Digits : DigitLoad(d))
  BY <1>5 DEF Announcing, Speak, Stamp, Gather, Silence, Waive, Reload, Webhook,
              Answer, Hangup, RecordingStarted, RecordingSaved, SweepSelect,
              DigitLoad, SavedInv, rowVars, carrierVars
<1>6. CASE OpenSession \/ LegAnswers \/ PurgeNote \/ Crash
             \/ (\E t \in Tasks : DatabaseError(t)) \/ UNCHANGED vars
  BY <1>6 DEF OpenSession, LegAnswers, PurgeNote, Crash, DatabaseError, vars,
              SavedInv, rowVars, carrierVars
<1>7. CASE \E t \in Tasks : Resolve(t) \/ Decline(t) \/ NoteRecorder(t)
                              \/ Permit(t) \/ Arm(t)
  BY <1>7 DEF Resolve, Decline, NoteRecorder, Permit, Arm, SavedInv, rowVars,
              carrierVars
<1>. QED
  BY <1>1, <1>2, <1>3, <1>4, <1>5, <1>6, <1>7 DEF Next, Running

(* Only `start_capture` allows a transcript, and only an allowed one is    *)
(* kept by a session.                                                      *)
LEMMA StartedMoves ==
  ASSUME TypeOK, [Next]_vars
  PROVE  /\ started => started'
         /\ started' => started \/ \E t \in Tasks : Permit(t)
         /\ session' = "keeping" => session = "keeping" \/ started
<1>1. CASE \E t \in Tasks : Permit(t)
  BY <1>1 DEF Permit, TypeOK, mediaVars
<1>2. CASE OpenSession
  BY <1>2 DEF OpenSession, rowVars
<1>3. CASE Announcing \/ Webhook \/ SweepSelect \/ (\E d \in Digits : DigitLoad(d))
  BY <1>3 DEF Announcing, Speak, Stamp, Gather, Silence, Waive, Reload, Webhook,
              Answer, Hangup, RecordingStarted, RecordingSaved, SweepSelect,
              DigitLoad, rowVars, mediaVars
<1>4. CASE LegAnswers \/ LegDrops \/ PurgeAsk \/ PurgeNote \/ Crash
             \/ (\E t \in Tasks : DatabaseError(t)) \/ UNCHANGED vars
  BY <1>4 DEF LegAnswers, LegDrops, PurgeAsk, PurgeNote, Crash, DatabaseError,
              vars, rowVars, mediaVars
<1>5. CASE \E t \in Tasks : Resolve(t) \/ Decline(t) \/ HangUp(t)
                              \/ StartCapture(t) \/ NoteRecorder(t) \/ Arm(t)
  BY <1>5 DEF Resolve, Decline, HangUp, StartCapture, NoteRecorder, Arm, rowVars,
              mediaVars
<1>. QED
  BY <1>1, <1>2, <1>3, <1>4, <1>5 DEF Next, Running

(* What the recipient is told is stamped afterwards, never before. *)
LEMMA StampFollows ==
  ASSUME AskedInv, [Next]_vars PROVE stamped' => told'
<1>1. (stamped => told) /\ (told => told')
  BY OneWay DEF AskedInv
<1>2. CASE Stamp
  BY <1>2, TasksDiffer DEF Stamp, At, AskedInv, TaskOK, AnswererOK, carrierVars
<1>3. CASE ~Stamp
  <2>1. stamped' => stamped
    <3>1. CASE Announcing \/ Webhook \/ SweepSelect
                 \/ (\E d \in Digits : DigitLoad(d))
      BY <1>3, <3>1 DEF Announcing, Speak, Gather, Silence, Waive, Reload,
                        Webhook, Answer, Hangup, RecordingStarted,
                        RecordingSaved, SweepSelect, DigitLoad, rowVars
    <3>2. CASE OpenSession \/ LegAnswers \/ LegDrops \/ PurgeAsk \/ PurgeNote
                 \/ Crash \/ (\E t \in Tasks : DatabaseError(t))
                 \/ UNCHANGED vars
      BY <3>2 DEF OpenSession, LegAnswers, LegDrops, PurgeAsk, PurgeNote, Crash,
                  DatabaseError, vars, rowVars
    <3>3. CASE \E t \in Tasks : Running(t)
      BY <3>3 DEF Running, Resolve, Decline, HangUp, StartCapture, NoteRecorder,
                  Permit, Arm, rowVars
    <3>. QED
      BY <3>1, <3>2, <3>3 DEF Next
  <2>. QED
    BY <1>1, <2>1
<1>. QED
  BY <1>2, <1>3

LEMMA KeptStep ==
  ASSUME AskedInv, [Next]_vars PROVE NothingKeptUnasked'
<1>1. /\ Gated' = Gated /\ (consent # "pending" => consent' = consent)
      /\ stamped => stamped'
      /\ told => told'
      /\ (stamped => told) /\ TypeOK /\ SavedInv /\ NothingKeptUnasked
  BY OneWay, GateStands DEF AskedInv
<1>2. recorder' # "off" => told /\ (Gated => consent = "granted")
  <2>1. CASE recorder # "off"
    BY <1>1, <2>1 DEF NothingKeptUnasked
  <2>2. CASE recorder = "off"
    BY <1>1, <2>2, RecorderMoves, CaptureAsks
  <2>. QED
    BY <2>1, <2>2
<1>3. started' => IF Gated THEN consent = "granted" ELSE stamped /\ told
  <2>1. CASE started
    BY <1>1, <2>1 DEF NothingKeptUnasked
  <2>2. CASE ~started
    BY <1>1, <2>2, StartedMoves, PermitAsks
  <2>. QED
    BY <2>1, <2>2
<1>4. session' = "keeping" => started'
  BY <1>1, StartedMoves DEF NothingKeptUnasked
<1>. QED
  BY <1>1, <1>2, <1>3, <1>4 DEF NothingKeptUnasked

LEMMA AskedStep ==
  ASSUME AskedInv, [Next]_vars PROVE AskedInv'
<1>1. TypeOK' /\ SavedInv'
  BY TypeStep, RecorderMoves DEF AskedInv
<1>2. ReadsInv' /\ (Gated' \/ consent' = "not_required") /\ (stamped' => told')
  BY ReadsStep, GateStands, StampFollows
<1>3. \A t \in Tasks : TaskOK(t)'
  BY AnnouncingAsks, LoadsAsk, RunningAsks, OthersAsk DEF Next, Webhook
<1>4. NothingKeptUnasked'
  BY KeptStep
<1>5. Tasks' = Tasks
  BY DEF Tasks
<1>. QED
  BY <1>1, <1>2, <1>3, <1>4, <1>5 DEF AskedInv

(* The carrier's recorder runs only when the recipient was told and, where *)
(* the policy asks, has said yes; words are kept only with that yes, which *)
(* may come before the announcement was stamped, or after a stamped notice *)
(* (disclosure.rs, start_capture; consent.rs, may_record).                 *)
THEOREM NothingIsKeptUnasked == Spec => []NothingKeptUnasked
<1>1. Init => AskedInv
  BY AskedInit
<1>2. AskedInv /\ [Next]_vars => AskedInv'
  BY AskedStep
<1>3. AskedInv => NothingKeptUnasked
  BY DEF AskedInv
<1>. QED
  BY <1>1, <1>2, <1>3, PTL DEF Spec
-----------------------------------------------------------------------------
(* A recording the carrier keeps can be found again: the safety half of    *)
(* KeptIsPurged, whose sweep looks for rows that say 'saved'.              *)
KeptInv ==
  recorder = "kept" =>
    "saved" \in events \/ recording = "saved" \/ overtaken

LEMMA EndingKeeps ==
  ASSUME Ending, KeptInv
  PROVE  recorder' = "kept" =>
           "saved" \in events' \/ recording = "saved" \/ overtaken
  BY DEF Ending, HungUp, KeptInv

LEMMA KeptKeeps ==
  ASSUME TypeOK, BytesInv, KeptInv, [Next]_vars PROVE KeptInv'
<1>. USE DEF KeptInv
<1>1. CASE Announcing
  BY <1>1 DEF Announcing, Speak, Stamp, Gather, Silence, Waive, Reload, rowVars,
              mediaVars, carrierVars
<1>2. CASE Answer \/ SweepSelect \/ OpenSession \/ (\E d \in Digits : DigitLoad(d))
  BY <1>2 DEF Answer, SweepSelect, OpenSession, DigitLoad, rowVars, mediaVars,
              carrierVars
<1>3. CASE Hangup
  BY <1>3 DEF Hangup
<1>4. CASE RecordingStarted
  BY <1>4, Zenon DEF RecordingStarted, Overtake
<1>5. CASE RecordingSaved
  BY <1>5 DEF RecordingSaved
<1>6. ASSUME NEW t \in Tasks, Resolve(t) \/ Decline(t) \/ Permit(t) \/ Arm(t)
      PROVE  KeptInv'
  BY <1>6 DEF Resolve, Decline, Permit, Arm, rowVars, mediaVars, carrierVars
<1>7. ASSUME NEW t \in Tasks, HangUp(t) PROVE KeptInv'
  BY <1>7, EndingKeeps DEF HangUp, rowVars, mediaVars
<1>8. ASSUME NEW t \in Tasks, StartCapture(t) PROVE KeptInv'
  BY <1>8 DEF StartCapture, rowVars, mediaVars
<1>9. ASSUME NEW t \in Tasks, NoteRecorder(t) PROVE KeptInv'
  BY <1>9, Zenon DEF NoteRecorder, Overtake, carrierVars
<1>10. CASE LegDrops
  BY <1>10, EndingKeeps DEF LegDrops, rowVars, mediaVars
<1>11. CASE LegAnswers \/ PurgeAsk
  BY <1>11 DEF LegAnswers, PurgeAsk, rowVars, mediaVars
<1>12. CASE PurgeNote
  BY <1>12 DEF PurgeNote, BytesInv, carrierVars
<1>13. CASE (\E t \in Tasks : DatabaseError(t)) \/ Crash
  BY <1>13 DEF DatabaseError, Crash, rowVars, mediaVars, carrierVars
<1>14. CASE UNCHANGED vars
  BY <1>14 DEF vars, rowVars, mediaVars, carrierVars
<1>. QED
  BY <1>1, <1>2, <1>3, <1>4, <1>5, <1>6, <1>7, <1>8, <1>9, <1>10, <1>11, <1>12,
     <1>13, <1>14 DEF Next, Webhook, Running

(* The bytes the carrier keeps are never out of the sweep's reach: their   *)
(* 'saved' is on its way or in the row, unless start_capture, or the       *)
(* webhook of the start, wrote over it (disclosure.rs, start_capture;      *)
(* retention.rs, sweep_voip_recordings_once), whatever fails or restarts.  *)
THEOREM KeptIsAlwaysFound == Spec => []KeptInv
<1>1. Init => BytesInv /\ KeptInv
  BY DEF Init, BytesInv, KeptInv
<1>2. TypeOK /\ BytesInv /\ KeptInv /\ [Next]_vars => (BytesInv /\ KeptInv)'
  BY BytesStep, KeptKeeps
<1>3. Spec => []TypeOK
  BY ConsentTypes
<1>. QED
  BY <1>1, <1>2, <1>3, PTL DEF Spec

-----------------------------------------------------------------------------
(* Nobody forgets the audio path: the safety half of AudioOpens.           *)

(* The steps of a task that leads to `arm`, before and after the gate. *)
Due == {"reload", "capture", "accepted", "rejected", "permit", "decline", "arm"}

Ahead == Due \cup {"speak", "stamp", "gather", "silence", "waive"}

(* The media socket is expected, or a task is on its way to ask for it. *)
LedIn(steps) == session = "armed" \/ \E t \in Tasks : pc[t] \in steps

Wanting == mishaps = 0 /\ parked /\ ~Refused

(* An answered call whose leg is parked is on its way to its audio, or its *)
(* gate is open and stamped: a row time_out_pending_consent will select.   *)
AudioInHand ==
  status = "answered" /\ Wanting =>
    LedIn(Ahead) \/ (consent = "pending" /\ stamped)

(* Only what the dial asked for is wanted, by the row or in what was read. *)
WantInv ==
  /\ recording = "pending" => setup.recording
  /\ transcription = "live" => setup.transcription
  /\ \A t \in Tasks : /\ read[t].recording => setup.recording
                      /\ read[t].transcription => setup.transcription

(* A gate that was decided is past `gather`: whoever decided it leads on.  *)
(* The answer's handler may leave the gate open because it is stamped.     *)
AudioInv ==
  /\ AudioInHand
  /\ Wanting /\ Gated /\ consent # "pending" => LedIn(Due)
  /\ At(answerer, "gather") => stamped /\ Gated
  /\ \A t \in Tasks : At(t, "hangup") => Refused

LEMMA AudioInit ==
  ASSUME Init PROVE WantInv /\ AudioInv
<1>1. \A t \in Tasks : read[t] = Load /\ pc[t] = "idle"
  BY DEF Init
<1>2. recording = "pending" => setup.recording
  BY DEF Init
<1>3. transcription = "live" => setup.transcription
  BY DEF Init
<1>4. WantInv
  BY <1>1, <1>2, <1>3, LoadFields, Zenon DEF WantInv
<1>5. Gated => consent = "pending"
  BY DEF Init, Gated, InitialStatus
<1>6. AudioInv
  BY <1>1, <1>5, TasksDiffer DEF Init, AudioInv, AudioInHand, At
<1>. QED
  BY <1>4, <1>6

LEMMA WantStep ==
  ASSUME TypeOK, WantInv, [Next]_vars PROVE WantInv'
<1>1. /\ setup' = setup
      /\ recording' = "pending" => recording = "pending"
      /\ transcription' = "live" => transcription = "live"
  BY OneWay
<1>2. ASSUME NEW t \in Tasks
      PROVE  /\ read'[t].recording => setup'.recording
             /\ read'[t].transcription => setup'.transcription
  <2>1. CASE read'[t] = read[t]
    BY <1>1, <2>1, Zenon DEF WantInv
  <2>2. CASE read'[t] = Load
    BY <1>1, <2>2, LoadFields, Zenon DEF WantInv
  <2>. QED
    BY <2>1, <2>2, ReadsMove
<1>3. Tasks' = Tasks
  BY DEF Tasks
<1>. QED
  BY <1>1, <1>2, <1>3, Zenon DEF WantInv

(* A task on its way goes on until the media is armed, or the leg is given *)
(* up; only the handler of the answer stops, at a gate that is open.       *)
GoesOn(t) ==
  /\ pc'[t] \in Ahead
  /\ pc[t] \in Due => pc'[t] \in Due

LEMMA TaskGoesOn ==
  ASSUME TypeOK, [Next]_vars, NEW t \in Tasks, pc[t] \in Ahead,
         mishaps' = 0, parked'
  PROVE  session' = "armed" \/ GoesOn(t) \/ (t = answerer /\ Gather)
<1>0. ~Mishap
  BY DEF TypeOK, Mishap
<1>1. CASE pc' = pc
  BY <1>1 DEF GoesOn
<1>2. CASE Speak \/ Stamp \/ Silence \/ Waive \/ Reload
  BY <1>2, GotoMoves, TasksDiffer
     DEF Speak, Stamp, Silence, Waive, Reload, GoesOn, Ahead, Due, At, TypeOK
<1>3. CASE Gather
  BY <1>3, GotoMoves, TasksDiffer DEF Gather, GoesOn
<1>4. CASE Answer
  BY <1>4, GotoMoves, TasksDiffer DEF Answer, GoesOn, Ahead, Due, At
<1>5. CASE SweepSelect \/ (\E d \in Digits : DigitLoad(d))
  BY <1>5, GotoMoves, TasksDiffer
     DEF SweepSelect, DigitLoad, GoesOn, Ahead, Due, At
<1>6. ASSUME NEW u \in Tasks, Resolve(u)
      PROVE  GoesOn(t)
  <2>1. u # t
    BY <1>6 DEF Resolve, At, Ahead, Due
  <2>2. pc'[t] = pc[t]
    BY <1>6, <2>1 DEF Resolve, Goto, TypeOK
  <2>. QED
    BY <2>2 DEF GoesOn
<1>7. ASSUME NEW u \in Tasks, HangUp(u)
      PROVE  GoesOn(t)
  <2>1. u # t
    BY <1>7 DEF HangUp, At, Ahead, Due
  <2>2. pc'[t] = pc[t]
    BY <1>7, <2>1 DEF HangUp, Goto, TypeOK
  <2>. QED
    BY <2>2 DEF GoesOn
<1>8. ASSUME NEW u \in Tasks,
             Decline(u) \/ StartCapture(u) \/ NoteRecorder(u) \/ Permit(u)
      PROVE  GoesOn(t)
  BY <1>8, GotoMoves
     DEF Decline, StartCapture, NoteRecorder, Permit, GoesOn, Ahead, Due
<1>9. ASSUME NEW u \in Tasks, Arm(u)
      PROVE  session' = "armed" \/ GoesOn(t)
  BY <1>9 DEF Arm
<1>10. CASE (\E u \in Tasks : DatabaseError(u)) \/ Crash
  BY <1>0, <1>10 DEF DatabaseError, Crash
<1>11. CASE OpenSession
  BY <1>11 DEF OpenSession
<1>12. CASE \/ Hangup \/ RecordingStarted \/ RecordingSaved \/ LegAnswers
            \/ LegDrops \/ PurgeAsk \/ PurgeNote \/ UNCHANGED vars
  <2>. pc' = pc
    BY <1>12 DEF Hangup, RecordingStarted, RecordingSaved, LegAnswers, LegDrops,
                 PurgeAsk, PurgeNote, vars, taskVars
  <2>. QED
    BY <1>1
<1>. QED
  BY <1>2, <1>3, <1>4, <1>5, <1>6, <1>7, <1>8, <1>9, <1>10, <1>11, <1>12
     DEF Next, Announcing, Webhook, Running

(* What a step without a mishap leaves of the leg's prospects. *)
LEMMA WantingWas ==
  ASSUME TypeOK, [Next]_vars, Wanting'
  PROVE  Wanting /\ (session = "armed" => session' = "armed")
<1>0. ~Mishap /\ mishaps' = 0 /\ parked'
  BY DEF TypeOK, Mishap, Wanting
<1>1. ~Refused
  BY OneWay DEF Wanting, Refused
<1>2. CASE Announcing \/ SweepSelect \/ (\E d \in Digits : DigitLoad(d))
  BY <1>0, <1>1, <1>2
     DEF Announcing, Speak, Stamp, Gather, Silence, Waive, Reload, SweepSelect,
         DigitLoad, mediaVars, Wanting
<1>3. CASE OpenSession
  BY <1>0, <1>3 DEF OpenSession
<1>4. CASE Webhook
  BY <1>0, <1>1, <1>4 DEF Webhook, Answer, Hangup, RecordingStarted,
                          RecordingSaved, mediaVars, Wanting
<1>5. ASSUME NEW t \in Tasks, Running(t)
      PROVE  Wanting /\ (session = "armed" => session' = "armed")
  BY <1>0, <1>1, <1>5
     DEF Running, Resolve, Decline, HangUp, StartCapture, NoteRecorder, Permit,
         Arm, mediaVars, Wanting
<1>6. CASE (\E t \in Tasks : DatabaseError(t)) \/ Crash
  BY <1>0, <1>6 DEF DatabaseError, Crash
<1>7. CASE LegAnswers \/ LegDrops \/ PurgeAsk \/ PurgeNote \/ UNCHANGED vars
  BY <1>0, <1>1, <1>7 DEF LegAnswers, LegDrops, PurgeAsk, PurgeNote, vars,
                          mediaVars, Wanting
<1>. QED
  BY <1>2, <1>3, <1>4, <1>5, <1>6, <1>7 DEF Next

LEMMA LedGoesOn ==
  ASSUME TypeOK, [Next]_vars, Wanting'
  PROVE  /\ LedIn(Due) => LedIn(Due)'
         /\ LedIn(Ahead) => LedIn(Ahead)' \/ Gather
<1>0. mishaps' = 0 /\ parked' /\ Tasks' = Tasks /\ Due \subseteq Ahead
      /\ (session = "armed" => session' = "armed")
  BY WantingWas DEF Wanting, Tasks, Ahead
<1>1. ASSUME NEW t \in Tasks, pc[t] \in Due PROVE LedIn(Due)'
  <2>1. ~(t = answerer /\ Gather)
    BY <1>1 DEF Gather, At, Due
  <2>. QED
    BY <1>0, <1>1, <2>1, TaskGoesOn DEF GoesOn, LedIn
<1>2. ASSUME NEW t \in Tasks, pc[t] \in Ahead PROVE LedIn(Ahead)' \/ Gather
  BY <1>0, <1>2, TaskGoesOn DEF GoesOn, LedIn
<1>. QED
  BY <1>0, <1>1, <1>2 DEF LedIn

(* Whoever decides a gate leads on, unless the call is to end for want of  *)
(* consent.                                                                *)
LEMMA DecisionLeads ==
  ASSUME TypeOK, [Next]_vars, consent = "pending", consent' # "pending"
  PROVE  LedIn(Due)' \/ Refused'
<1>0. Tasks' = Tasks /\ setup' = setup
  BY OneWay DEF Tasks
<1>1. CASE Waive
  <2>. pc'[answerer] = "arm"
    BY <1>1, GotoMoves, TasksDiffer DEF Waive
  <2>. QED
    BY <1>0, TasksDiffer DEF LedIn, Due
<1>2. ASSUME NEW t \in Tasks, Resolve(t) PROVE LedIn(Due)' \/ Refused'
  <2>1. PICK s \in Verdicts(t) : consent' = s /\ Goto(t, after(s))
    BY <1>2 DEF Resolve
  <2>2. pc'[t] = after(s)
    BY <2>1, GotoMoves
  <2>3. CASE after(s) # "hangup"
    BY <1>0, <2>2, <2>3, VerdictsLead DEF LedIn, Due
  <2>4. CASE after(s) = "hangup"
    BY <1>0, <2>1, <2>4, VerdictsLead, ConsentAssumption
       DEF Refused, after, TypeOK
  <2>. QED
    BY <2>3, <2>4
<1>3. CASE Speak \/ Stamp \/ Gather \/ Silence \/ Reload \/ SweepSelect
             \/ OpenSession \/ Webhook \/ (\E d \in Digits : DigitLoad(d))
  BY <1>3 DEF Speak, Stamp, Gather, Silence, Reload, SweepSelect, OpenSession,
              Webhook, Answer, Hangup, RecordingStarted, RecordingSaved,
              DigitLoad, rowVars
<1>4. ASSUME NEW t \in Tasks,
             \/ Decline(t) \/ HangUp(t) \/ StartCapture(t) \/ NoteRecorder(t)
             \/ Permit(t) \/ Arm(t) \/ DatabaseError(t)
      PROVE  FALSE
  BY <1>4 DEF Decline, HangUp, StartCapture, NoteRecorder, Permit, Arm,
              DatabaseError, rowVars
<1>5. CASE LegAnswers \/ LegDrops \/ PurgeAsk \/ PurgeNote \/ Crash
             \/ UNCHANGED vars
  BY <1>5 DEF LegAnswers, LegDrops, PurgeAsk, PurgeNote, Crash, vars, rowVars
<1>. QED
  BY <1>1, <1>2, <1>3, <1>4, <1>5 DEF Next, Announcing, Running

(* Who sends a task to `gather`, and who to `hangup`. *)
LEMMA SentBy ==
  ASSUME TypeOK, [Next]_vars, NEW t \in Tasks, pc'[t] # pc[t]
  PROVE  /\ pc'[t] = "gather" => Stamp
         /\ pc'[t] = "hangup" => Resolve(t)
<1>1. CASE Speak \/ Stamp \/ Gather \/ Silence \/ Waive \/ Reload \/ Answer
  BY <1>1, TasksDiffer
     DEF Speak, Stamp, Gather, Silence, Waive, Reload, Answer, Goto, TypeOK
<1>2. CASE SweepSelect \/ (\E d \in Digits : DigitLoad(d))
  BY <1>2 DEF SweepSelect, DigitLoad, Goto, TypeOK
<1>3. ASSUME NEW u \in Tasks, Resolve(u)
      PROVE  pc'[t] # "gather" /\ (pc'[t] = "hangup" => Resolve(t))
  <2>1. PICK s : Goto(u, s) /\ s # "gather"
    BY <1>3, VerdictsLead, DoneIsTyped DEF Resolve
  <2>2. t = u /\ pc'[t] = s
    BY <2>1, GotoMoves
  <2>. QED
    BY <1>3, <2>1, <2>2
<1>4. ASSUME NEW u \in Tasks,
             \/ Decline(u) \/ HangUp(u) \/ StartCapture(u) \/ NoteRecorder(u)
             \/ Permit(u) \/ Arm(u) \/ DatabaseError(u)
      PROVE  pc'[t] \notin {"gather", "hangup"}
  <2>1. PICK s \in {"arm", "accepted", "rejected", "permit", "idle", "over"} :
          Goto(u, s)
    BY <1>4, DoneIsTyped
       DEF Decline, HangUp, StartCapture, NoteRecorder, Permit, Arm,
           DatabaseError
  <2>2. t = u /\ pc'[t] = s
    BY <2>1, GotoMoves
  <2>. QED
    BY <2>1, <2>2
<1>5. CASE Crash
  BY <1>5, DoneIsTyped DEF Crash
<1>6. CASE \/ OpenSession \/ Hangup \/ RecordingStarted \/ RecordingSaved
           \/ LegAnswers \/ LegDrops \/ PurgeAsk \/ PurgeNote \/ UNCHANGED vars
  BY <1>6 DEF OpenSession, Hangup, RecordingStarted, RecordingSaved, LegAnswers,
              LegDrops, PurgeAsk, PurgeNote, vars, taskVars
<1>. QED
  BY <1>1, <1>2, <1>3, <1>4, <1>5, <1>6 DEF Next, Announcing, Webhook, Running

(* `gather` is reached with the stamp written, and only behind a gate. *)
LEMMA GatherIsGated ==
  ASSUME TypeOK, WantInv, AudioInv, [Next]_vars, At(answerer, "gather")'
  PROVE  stamped' /\ Gated'
<1>0. setup' = setup /\ (stamped => stamped') /\ Gated' = Gated
  BY OneWay DEF Gated
<1>1. pc'[answerer] = "gather"
  BY DEF At
<1>2. CASE pc[answerer] = "gather"
  BY <1>0, <1>2 DEF AudioInv, At
<1>3. CASE pc[answerer] # "gather"
  <2>1. Stamp
    BY <1>1, <1>3, SentBy, TasksDiffer
  <2>2. stamped'
    BY <2>1 DEF Stamp
  <2>3. Gate(setup.policy, read[answerer].recording, read[answerer].transcription)
    BY <1>1, <2>1, GotoMoves, TasksDiffer DEF Stamp
  <2>4. Gated
    BY <2>3, TasksDiffer DEF WantInv, Gated, Gate, Captures
  <2>. QED
    BY <1>0, <2>2, <2>4
<1>. QED
  BY <1>2, <1>3

(* A task that means to hang up decided so, and a decision stands. *)
LEMMA HangupIsRefusal ==
  ASSUME TypeOK, AudioInv, [Next]_vars, NEW t \in Tasks, At(t, "hangup")'
  PROVE  Refused'
<1>0. setup' = setup /\ (consent # "pending" => consent' = consent)
  BY OneWay
<1>1. pc'[t] = "hangup"
  BY DEF At
<1>2. CASE pc[t] = "hangup"
  BY <1>0, <1>2 DEF AudioInv, At, Refused
<1>3. CASE pc[t] # "hangup"
  <2>1. Resolve(t)
    BY <1>1, <1>3, SentBy
  <2>2. PICK s \in Verdicts(t) : consent' = s /\ Goto(t, after(s))
    BY <1>1, <2>1, GotoMoves, DoneIsTyped DEF Resolve
  <2>3. after(s) = "hangup"
    BY <1>1, <2>2, GotoMoves
  <2>. QED
    BY <1>0, <2>2, <2>3, VerdictsLead, ConsentAssumption
       DEF Refused, after, TypeOK
<1>. QED
  BY <1>2, <1>3

(* A call is answered by the webhook of the answer, whose handler leads. *)
LEMMA AnswerLeads ==
  ASSUME TypeOK, [Next]_vars, status # "answered", status' = "answered"
  PROVE  LedIn(Ahead)'
<1>1. Answer
  <2>1. CASE Announcing \/ SweepSelect \/ OpenSession \/ RecordingStarted
               \/ RecordingSaved \/ (\E d \in Digits : DigitLoad(d))
    BY <2>1 DEF Announcing, Speak, Stamp, Gather, Silence, Waive, Reload,
                SweepSelect, OpenSession, RecordingStarted, RecordingSaved,
                DigitLoad, rowVars
  <2>2. CASE Hangup
    BY <2>2 DEF Hangup, next
  <2>3. ASSUME NEW t \in Tasks, Running(t) \/ DatabaseError(t) PROVE FALSE
    BY <2>3 DEF Running, Resolve, Decline, HangUp, StartCapture, NoteRecorder,
                Permit, Arm, DatabaseError, rowVars
  <2>4. CASE LegAnswers \/ LegDrops \/ PurgeAsk \/ PurgeNote \/ Crash
               \/ UNCHANGED vars
    BY <2>4 DEF LegAnswers, LegDrops, PurgeAsk, PurgeNote, Crash, vars, rowVars
  <2>. QED
    BY <2>1, <2>2, <2>3, <2>4 DEF Next, Webhook
<1>2. Goto(answerer, "speak")
  BY <1>1 DEF Answer
<1>3. pc'[answerer] = "speak" /\ Tasks' = Tasks
  BY <1>2, GotoMoves, TasksDiffer DEF Tasks
<1>. QED
  BY <1>3, TasksDiffer DEF LedIn, Ahead

LEMMA AudioStep ==
  ASSUME TypeOK, WantInv, AudioInv, [Next]_vars PROVE AudioInv'
<1>0. Gated' = Gated /\ (stamped => stamped')
  BY OneWay DEF Gated
<1>1. LedIn(Due)' => LedIn(Ahead)'
  BY DEF LedIn, Ahead
<1>2. ASSUME Wanting', Gated', consent' # "pending" PROVE LedIn(Due)'
  <2>1. CASE consent = "pending"
    BY <1>2, <2>1, DecisionLeads DEF Wanting
  <2>2. CASE consent # "pending"
    BY <1>0, <1>2, <2>2, WantingWas, LedGoesOn DEF AudioInv
  <2>. QED
    BY <2>1, <2>2
<1>3. ASSUME status' = "answered", Wanting', ~LedIn(Ahead)'
      PROVE  consent' = "pending" /\ stamped'
  <2>1. status = "answered" /\ Wanting
    BY <1>3, AnswerLeads, WantingWas
  <2>2. CASE consent = "pending" /\ stamped
    BY <1>0, <1>1, <1>3, <2>2, DecisionLeads DEF Wanting
  <2>3. CASE LedIn(Ahead)
    <3>1. Gather /\ stamped /\ Gated
      BY <1>3, <2>3, LedGoesOn DEF Gather, AudioInv
    <3>2. consent' = "pending"
      BY <1>0, <1>1, <1>2, <1>3, <3>1
    <3>. QED
      BY <1>0, <3>1, <3>2
  <2>. QED
    BY <2>1, <2>2, <2>3 DEF AudioInv, AudioInHand
<1>4. \A t \in Tasks : At(t, "hangup")' => Refused'
  BY HangupIsRefusal
<1>5. Tasks' = Tasks
  BY DEF Tasks
<1>. QED
  BY <1>2, <1>3, <1>4, <1>5, GatherIsGated DEF AudioInv, AudioInHand

(* "All of them leave the call running and the recorder off"               *)
(* (disclosure.rs): no order of the answer, the digits, the carrier and    *)
(* the sweep leaves the leg of an answered call parked with nobody to arm  *)
(* its media, unless the call is to end for want of consent, or an error   *)
(* or a restart struck.                                                    *)
THEOREM NoCallIsLeftSilent == Spec => []AudioInHand
<1>1. Init => WantInv /\ AudioInv
  BY AudioInit
<1>2. TypeOK /\ WantInv /\ AudioInv /\ [Next]_vars => (WantInv /\ AudioInv)'
  BY WantStep, AudioStep
<1>3. AudioInv => AudioInHand
  BY DEF AudioInv
<1>4. Spec => []TypeOK
  BY ConsentTypes
<1>. QED
  BY <1>1, <1>2, <1>3, <1>4, PTL DEF Spec
=============================================================================
