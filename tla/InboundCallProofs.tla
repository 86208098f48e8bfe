------------------------- MODULE InboundCallProofs -------------------------
(***************************************************************************)
(* Proofs about InboundCall, for any set of colleagues, any way a number   *)
(* is set up and any number of mishaps: whose call stays taken, which leg  *)
(* may stand parked behind an ended row, that no call is forgotten and no  *)
(* line left open.                                                         *)
(***************************************************************************)
EXTENDS InboundCall, CallStateProofs, FiniteSetTheorems

(* Before admission there is nothing but an offered leg. *)
LEMMA TypeInit ==
  ASSUME Init PROVE TypeOK
<1>1. answered_by \subseteq Colleagues /\ Cardinality(answered_by) <= 1
  BY FS_EmptySet DEF Init
<1>2. mishaps \in 0 .. MaxMishaps
  BY InboundAssumption DEF Init
<1>3. {answered_at, missed, parked, unhung} \subseteq BOOLEAN
  BY DEF Init
<1>. QED
  BY <1>1, <1>2, <1>3 DEF Init, TypeOK, CallStates, AdmitSteps, SweepSteps

(* A webhook moves a row to a state of the enum. *)
LEMMA LifecycleIsTyped ==
  ASSUME TypeOK, NEW e, status # "absent",
         next(status, LifecycleOf(e)) # NoMove
  PROVE  next(status, LifecycleOf(e)) \in CallStates
  BY NextClimbs DEF TypeOK, LifecycleOf, CallEvents

(* What a leg that ends leaves behind. *)
LEMMA EndingIsTyped ==
  ASSUME TypeOK, NEW pending, pending \subseteq events, LegEnds(pending)
  PROVE  /\ leg' = "down" /\ recorder' \in {"off", "on", "kept"}
         /\ recorder' # "on"
         /\ events' \subseteq {"incoming", "answered", "hangup",
                               "recording_started", "saved"}
  BY DEF TypeOK, LegEnds

(* A mishap leaves the bound kept. *)
LEMMA MishapIsCounted ==
  ASSUME TypeOK, Mishap PROVE mishaps' \in 0 .. MaxMishaps
  BY InboundAssumption DEF TypeOK, Mishap

(* Asking for a hangup ends the leg or does nothing to it. *)
LEMMA RequestIsTyped ==
  ASSUME TypeOK, NEW pending, pending \subseteq events, RequestHangup(pending)
  PROVE  /\ leg' \in {"offered", "up", "down"}
         /\ recorder' \in {"off", "on", "kept"}
         /\ recorder' = "on" => recorder = "on"
         /\ events' \subseteq {"incoming", "answered", "hangup",
                               "recording_started", "saved"}
         /\ mishaps' \in 0 .. MaxMishaps
         /\ unhung' \in BOOLEAN
<1>. USE DEF TypeOK, mishapVars
<1>1. CASE LegEnds(pending) /\ UNCHANGED mishapVars
  BY <1>1, EndingIsTyped
<1>2. CASE events' = pending /\ UNCHANGED <<leg, recorder, mishapVars>>
  BY <1>2
<1>3. CASE /\ Mishap /\ unhung' = TRUE
           /\ events' = pending /\ UNCHANGED <<leg, recorder>>
  BY <1>3, MishapIsCounted
<1>. QED
  BY <1>1, <1>2, <1>3 DEF RequestHangup

(* Of the two requests of the second pass, the first alone may succeed. *)
LEMMA StopIsTyped ==
  ASSUME TypeOK, RequestHangup(events) \/ StopsOnly
  PROVE  /\ leg' \in {"offered", "up", "down"}
         /\ recorder' \in {"off", "on", "kept"}
         /\ recorder' = "on" => recorder = "on"
         /\ events' \subseteq {"incoming", "answered", "hangup",
                               "recording_started", "saved"}
         /\ mishaps' \in 0 .. MaxMishaps
         /\ unhung' \in BOOLEAN
<1>1. CASE RequestHangup(events)
  BY <1>1, RequestIsTyped
<1>2. CASE StopsOnly
  BY <1>2, MishapIsCounted DEF StopsOnly, TypeOK
<1>. QED
  BY <1>1, <1>2

-----------------------------------------------------------------------------
(* Admission keeps the types. *)
LEMMA AdmittingKeeps ==
  ASSUME TypeOK, Admitting PROVE TypeOK'
<1>. USE DEF TypeOK, AdmitSteps, mishapVars
<1>1. CASE Admit
  BY <1>1 DEF Admit, CallStates
<1>2. CASE Refuse
  <2>1. RequestHangup(events \ {"incoming"})
    BY <1>2 DEF Refuse
  <2>2. UNCHANGED <<route, callVars, ringVars, sweep, parked>>
        /\ admitting' = "over"
    BY <1>2 DEF Refuse
  <2>. QED
    BY <2>1, <2>2, RequestIsTyped DEF callVars, ringVars
<1>3. CASE AnswerLeg
  BY <1>3 DEF AnswerLeg, callVars, ringVars
<1>4. CASE Ring
  <2>1. deadline' \in {"none", "running", "due"} /\ admitting' = "over"
    BY <1>4 DEF Ring
  <2>2. mishaps' \in 0 .. MaxMishaps
    BY <1>4, MishapIsCounted DEF Ring
  <2>3. UNCHANGED <<route, callVars, answered_by, missed, recording, sweep,
                    parked, carrierVars, unhung>>
    BY <1>4 DEF Ring
  <2>. QED
    BY <2>1, <2>2, <2>3 DEF callVars, carrierVars
<1>5. CASE Park
  BY <1>5 DEF Park, callVars, ringVars, carrierVars
<1>. QED
  BY <1>1, <1>2, <1>3, <1>4, <1>5 DEF Admitting

(* A claim keeps the types. *)
LEMMA AnswerKeeps ==
  ASSUME TypeOK, NEW u \in Colleagues, answer_inbound(u) PROVE TypeOK'
<1>1. answered_by' \subseteq Colleagues /\ Cardinality(answered_by') <= 1
  <2>1. answered_by' = {u}
    BY DEF answer_inbound
  <2>2. Cardinality({u}) = 1
    BY FS_Singleton
  <2>. QED
    BY <2>1, <2>2
<1>. QED
  BY <1>1 DEF answer_inbound, TypeOK, callVars, taskVars, carrierVars,
              mishapVars

(* The steps that decide on a message and take it. *)
LEMMA MessageStepsKeep ==
  ASSUME TypeOK,
         SweepSelect \/ SweepMiss \/ SweepPrompt \/ SweepRecord \/ SweepMessage
  PROVE  TypeOK'
<1>. USE DEF TypeOK, SweepSteps, mishapVars
<1>1. CASE SweepSelect
  BY <1>1 DEF SweepSelect, callVars, ringVars, carrierVars
<1>2. CASE SweepMiss
  BY <1>2 DEF SweepMiss, callVars, carrierVars
<1>3. CASE SweepPrompt
  BY <1>3 DEF SweepPrompt, callVars, ringVars, carrierVars
<1>4. CASE SweepRecord
  BY <1>4 DEF SweepRecord, callVars, ringVars
<1>5. CASE SweepMessage
  BY <1>5 DEF SweepMessage, CallStates, carrierVars
<1>. QED
  BY <1>1, <1>2, <1>3, <1>4, <1>5

(* The steps that end a call. *)
LEMMA ClosingStepsKeep ==
  ASSUME TypeOK,
         SweepLetGo \/ SweepMissed \/ SweepStop \/ SweepClosed
           \/ Reap \/ ReapMark \/ Stall
  PROVE  TypeOK'
<1>. USE DEF TypeOK, SweepSteps, mishapVars
<1>1. CASE SweepLetGo
  BY <1>1, RequestIsTyped DEF SweepLetGo, callVars, ringVars
<1>2. CASE SweepMissed
  BY <1>2 DEF SweepMissed, CallStates, ringVars, carrierVars
<1>3. CASE SweepStop
  BY <1>3, StopIsTyped DEF SweepStop, callVars, ringVars
<1>4. CASE SweepClosed
  BY <1>4 DEF SweepClosed, CallStates, carrierVars
<1>5. CASE Reap
  BY <1>5, RequestIsTyped DEF Reap, callVars, ringVars
<1>6. CASE ReapMark
  BY <1>6 DEF ReapMark, CallStates, ringVars, carrierVars
<1>7. CASE Stall
  BY <1>7 DEF Stall, CallStates, ringVars, carrierVars
<1>. QED
  BY <1>1, <1>2, <1>3, <1>4, <1>5, <1>6, <1>7

(* The webhooks keep the types. *)
LEMMA WebhooksKeep ==
  ASSUME TypeOK, NEW e \in events, apply(e) \/ apply_side_effects(e)
  PROVE  TypeOK'
<1>. USE DEF TypeOK, mishapVars
<1>1. CASE apply(e)
  <2>. DEFINE after == next(status, LifecycleOf(e))
  <2>1. CASE status = "absent" \/ after = NoMove
    BY <1>1, <2>1 DEF apply, callVars, ringVars
  <2>2. CASE ~(status = "absent" \/ after = NoMove)
    <3>1. after \in CallStates
      BY <2>2, LifecycleIsTyped
    <3>2. /\ status' = after
          /\ answered_at' = (answered_at \/ after = "answered")
          /\ parked' = (parked /\ ~is_terminal(after))
      BY <1>1, <2>2 DEF apply
    <3>. HIDE DEF after
    <3>3. answered_at' \in BOOLEAN
      BY <3>2
    <3>4. parked' \in BOOLEAN
      BY <3>2
    <3>. QED
      BY <1>1, <3>1, <3>2, <3>3, <3>4 DEF apply, ringVars
  <2>. QED
    BY <2>1, <2>2
<1>2. CASE apply_side_effects(e)
  BY <1>2 DEF apply_side_effects, callVars, taskVars
<1>. QED
  BY <1>1, <1>2

(* The caller, the clock, an error of the database and a restart. *)
LEMMA EnvironmentKeeps ==
  ASSUME TypeOK, LegDrops \/ DeadlinePasses \/ SweepError \/ Crash
  PROVE  TypeOK'
<1>. USE DEF TypeOK, SweepSteps, mishapVars
<1>1. CASE LegDrops
  BY <1>1, EndingIsTyped DEF LegDrops, callVars, ringVars, taskVars
<1>2. CASE DeadlinePasses
  BY <1>2 DEF DeadlinePasses, callVars, taskVars, carrierVars
<1>3. CASE SweepError
  BY <1>3, MishapIsCounted DEF SweepError, callVars, ringVars, carrierVars
<1>4. CASE Crash
  <2>1. /\ admitting' \in AdmitSteps /\ sweep' = "idle" /\ parked' \in BOOLEAN
        /\ mishaps' \in 0 .. MaxMishaps
    BY <1>4, MishapIsCounted DEF Crash, AdmitSteps
  <2>2. UNCHANGED <<route, callVars, ringVars, carrierVars, unhung>>
    BY <1>4 DEF Crash
  <2>. QED
    BY <2>1, <2>2 DEF callVars, ringVars, carrierVars
<1>. QED
  BY <1>1, <1>2, <1>3, <1>4

(* Every step keeps the types. *)
LEMMA TypeStep ==
  ASSUME TypeOK, [Next]_vars PROVE TypeOK'
<1>1. CASE Next
  BY <1>1, AdmittingKeeps, AnswerKeeps, MessageStepsKeep, ClosingStepsKeep,
     WebhooksKeep, EnvironmentKeeps DEF Next, Sweeping
<1>2. CASE UNCHANGED vars
  BY <1>2 DEF vars, callVars, ringVars, taskVars, carrierVars, mishapVars,
              TypeOK
<1>. QED
  BY <1>1, <1>2

-----------------------------------------------------------------------------
(* The steps of the sweep a call that was taken leaves possible. *)
LEMMA SweepLeavesAlone ==
  ASSUME TypeOK, Taken, Sweeping
  PROVE  /\ UNCHANGED <<answered_by, missed>> /\ sweep' \in {"idle", "reap"}
         /\ recorder' = "on" => recorder = "on"
<1>1. CASE SweepSelect
  BY <1>1 DEF SweepSelect, Unanswered, Taken
<1>2. CASE Reap
  BY <1>2, RequestIsTyped DEF Reap, ringVars
<1>3. CASE ReapMark \/ Stall
  BY <1>3 DEF ReapMark, Stall, Taken, ringVars, carrierVars
<1>4. CASE SweepMiss \/ SweepPrompt \/ SweepRecord \/ SweepMessage
             \/ SweepLetGo \/ SweepMissed \/ SweepStop \/ SweepClosed
  BY <1>4 DEF Taken, SweepMiss, SweepPrompt, SweepRecord, SweepMessage,
              SweepLetGo, SweepMissed, SweepStop, SweepClosed
<1>. QED
  BY <1>1, <1>2, <1>3, <1>4 DEF Sweeping

(* Once no sweep that selected it is under way, a taken call is never      *)
(* again marked missed, recorded as a message or taken by another          *)
(* (routes.rs, answer_inbound: "first to claim it wins"; inbound.rs,       *)
(* sweep_unanswered, which selects by answered_by).                        *)
THEOREM TakenStaysTaken == Spec => TakenIsLeftAlone
<1>1. Init => TypeOK
  BY TypeInit
<1>2. TypeOK /\ [Next]_vars => TypeOK'
  BY TypeStep
<1>3. ASSUME TypeOK, Next, Taken
      PROVE  /\ UNCHANGED <<answered_by, missed>>
             /\ sweep' \in {"idle", "reap"}
             /\ recorder' = "on" => recorder = "on"
  <2>1. CASE Refuse
    BY <1>3, <2>1, RequestIsTyped DEF Refuse, Taken, ringVars
  <2>2. CASE Admit \/ Park \/ AnswerLeg \/ Ring
    BY <1>3, <2>2
       DEF Admit, Park, AnswerLeg, Ring, Taken, ringVars, carrierVars
  <2>3. CASE \E u \in Colleagues : answer_inbound(u)
    BY <1>3, <2>3 DEF answer_inbound, Taken
  <2>4. CASE LegDrops \/ DeadlinePasses
    BY <1>3, <2>4, EndingIsTyped
       DEF LegDrops, DeadlinePasses, Taken, ringVars, taskVars, carrierVars
  <2>5. CASE Sweeping
    BY <1>3, <2>5, SweepLeavesAlone
  <2>6. CASE \E e \in events : apply(e) \/ apply_side_effects(e)
    BY <1>3, <2>6 DEF apply, apply_side_effects, Taken, ringVars, taskVars
  <2>7. CASE SweepError \/ Crash
    BY <1>3, <2>7 DEF SweepError, Crash, Taken, ringVars, carrierVars
  <2>. QED
    BY <1>3, <2>1, <2>2, <2>3, <2>4, <2>5, <2>6, <2>7 DEF Next, Admitting
<1>4. TypeOK /\ [Next]_vars =>
        [Taken => Taken' /\ answered_by' = answered_by /\ missed' = missed
                    /\ (recorder' = "on" => recorder = "on")]_vars
  BY <1>3 DEF Taken
<1>. QED
  BY <1>1, <1>2, <1>4, PTL DEF Spec, TakenIsLeftAlone

-----------------------------------------------------------------------------
(* The leg and its peer in the room go with the call: a leg comes to stand *)
(* parked behind a row that is over in one way only, when admission parks  *)
(* it after a webhook has ended the row it had just committed.  Every      *)
(* other writer that ends a row, whatever it read before, also reclaims.   *)
EndedCallIsReclaimed ==
  [][parked' /\ Over' => (parked /\ Over) \/ admitting = "park"]_vars

(* An ended row is not parked behind: inbound.rs, sweep_unanswered and     *)
(* admit; webhook.rs, fail_stalled_calls; routes.rs, the hangup's webhook; *)
(* session.rs, reclaim.                                                    *)
THEOREM OnlyAdmissionParksLate == Spec => EndedCallIsReclaimed
<1>1. Init => TypeOK
  BY TypeInit
<1>2. TypeOK /\ [Next]_vars => TypeOK'
  BY TypeStep
<1>3. ASSUME TypeOK, Next, parked', Over', admitting # "park"
      PROVE  parked /\ Over
  <2>1. CASE Admitting
    BY <1>3, <2>1
       DEF Admitting, Admit, Refuse, Park, AnswerLeg, Ring, Over, callVars
  <2>2. CASE \/ \E u \in Colleagues : answer_inbound(u)
             \/ LegDrops \/ DeadlinePasses \/ SweepError \/ Crash
    BY <1>3, <2>2
       DEF answer_inbound, LegDrops, DeadlinePasses, SweepError, Crash, Over,
           callVars, taskVars
  <2>3. CASE Sweeping
    BY <1>3, <2>3
       DEF Sweeping, SweepSelect, SweepMiss, SweepPrompt, SweepRecord,
           SweepMessage, SweepLetGo, SweepMissed, SweepStop, SweepClosed, Reap,
           ReapMark, Stall, Over, callVars
  <2>4. CASE \E e \in events : apply(e) \/ apply_side_effects(e)
    <3>1. PICK e \in events : apply(e) \/ apply_side_effects(e)
      BY <2>4
    <3>2. CASE UNCHANGED <<status, parked>>
      BY <1>3, <3>2 DEF Over
    <3>3. CASE ~UNCHANGED <<status, parked>>
      <4>1. /\ status # "absent" /\ next(status, LifecycleOf(e)) # NoMove
            /\ status' = next(status, LifecycleOf(e))
            /\ parked' = (parked /\ ~is_terminal(status'))
        BY <3>1, <3>3 DEF apply, apply_side_effects, callVars, taskVars
      <4>2. status' # "absent"
        BY <1>3, <4>1, LifecycleIsTyped DEF CallStates
      <4>. QED
        BY <1>3, <4>1, <4>2 DEF Over, is_terminal
    <3>. QED
      BY <3>2, <3>3
  <2>. QED
    BY <1>3, <2>1, <2>2, <2>3, <2>4 DEF Next
<1>4. TypeOK /\ [Next]_vars =>
        [parked' /\ Over' => (parked /\ Over) \/ admitting = "park"]_vars
  BY <1>3
<1>. QED
  BY <1>1, <1>2, <1>4, PTL DEF Spec, EndedCallIsReclaimed

-----------------------------------------------------------------------------
(* Nobody forgets a call: the safety half of EveryCallEnds.                *)

Live == status \in {"answered", "bridged", "ending"}

(* The leg can still end, or its end is on its way. *)
EndComes == leg # "down" \/ "hangup" \in events

(* Within reach of reap_overrunning_calls, to some effect. *)
Watched == answered_at /\ EndComes

(* Who will act on an open row: admission, the loop of sweeps where it     *)
(* stands, the clock, sweep_unanswered, fail_stalled_calls for a call that *)
(* rings, reap_overrunning_calls for one that was answered.                *)
InHand ==
  \/ admitting \in {"park", "answer", "ring"} \/ sweep # "idle"
  \/ deadline = "running" \/ Unanswered
  \/ status = "ringing" /\ ~answered_at
  \/ Live /\ Watched

(* The exception of EveryCallEnds, and no other, is in nobody's hands. *)
CallsInHand ==
  \/ Over \/ InHand
  \/ missed /\ answered_by # {} /\ (~answered_at \/ leg = "down")

(* The last conjunct is the message: a row the sweep wrote live again,     *)
(* without an answer of its own or after its hangup, has only its          *)
(* deadline, or the pass of the sweep that found it, left to end it.       *)
HandInv ==
  /\ "incoming" \in events =>
       /\ status = "absent" /\ ~answered_at /\ sweep = "idle"
       /\ admitting = "idle" /\ "answered" \notin events
  /\ status \notin {"created", "dialing"}
  /\ status = "ringing" => ~answered_at /\ ("answered" \in events => EndComes)
  /\ sweep = "miss" => ~missed
  /\ sweep \in {"prompt", "record", "message", "letgo", "missed"} => missed
  /\ sweep = "reap" => answered_at
  /\ Live /\ ~Watched =>
       /\ missed /\ sweep \in {"idle", "stop", "closed", "reap"}
       /\ answered_by # {} \/ deadline # "none"

(* Before admission there is no row to forget. *)
LEMMA HandInit ==
  ASSUME Init PROVE HandInv
  BY DEF Init, HandInv, Live

(* What the invariant is for. *)
LEMMA HandKeepsWatch ==
  ASSUME TypeOK, HandInv PROVE CallsInHand
  BY DEF TypeOK, HandInv, CallsInHand, InHand, Over, Live, Watched, EndComes,
         Unanswered, CallStates

(* A leg that ends reports it, and brings no call in and no answer. *)
LEMMA EndingBringsNoCall ==
  ASSUME NEW pending, pending \subseteq events,
         events \ {"incoming"} \subseteq pending, LegEnds(pending)
  PROVE  /\ "incoming" \in events' => "incoming" \in events
         /\ "answered" \in events' => "answered" \in events
         /\ leg' = "down" /\ "hangup" \in events' /\ EndComes'
  BY DEF LegEnds, EndComes

(* Nor does a request for it, which leaves no end to come only if there    *)
(* was none before.                                                        *)
LEMMA RequestBringsNoCall ==
  ASSUME NEW pending, pending \subseteq events,
         events \ {"incoming"} \subseteq pending,
         RequestHangup(pending) \/ (pending = events /\ StopsOnly)
  PROVE  /\ "incoming" \in events' => "incoming" \in events
         /\ "answered" \in events' => "answered" \in events
         /\ EndComes => EndComes'
<1>1. CASE LegEnds(pending)
  BY <1>1, EndingBringsNoCall
<1>2. CASE events' = pending /\ leg' = leg
  BY <1>2 DEF EndComes
<1>3. CASE pending = events /\ StopsOnly
  BY <1>3 DEF StopsOnly, EndComes
<1>. QED
  BY <1>1, <1>2, <1>3 DEF RequestHangup

(* Admission takes the call in hand. *)
LEMMA AdmittingHands ==
  ASSUME TypeOK, HandInv, Admitting PROVE HandInv'
<1>. USE DEF HandInv, Live, Watched, EndComes
<1>1. CASE Admit
  BY <1>1 DEF Admit
<1>2. CASE Refuse
  <2>1. RequestHangup(events \ {"incoming"})
    BY <1>2 DEF Refuse
  <2>2. UNCHANGED <<callVars, ringVars, sweep>> /\ "incoming" \in events
    BY <1>2 DEF Refuse
  <2>3. "incoming" \notin events'
    BY <2>1 DEF RequestHangup, LegEnds
  <2>. QED
    BY <2>2, <2>3 DEF callVars, ringVars
<1>3. CASE AnswerLeg
  BY <1>3 DEF AnswerLeg, callVars, ringVars
<1>4. CASE Ring
  BY <1>4 DEF Ring, callVars, carrierVars, TypeOK
<1>5. CASE Park
  BY <1>5 DEF Park, callVars, ringVars, carrierVars
<1>. QED
  BY <1>1, <1>2, <1>3, <1>4, <1>5 DEF Admitting

(* The steps of sweep_unanswered that decide on a message and take it. *)
LEMMA MessageStepsHand ==
  ASSUME TypeOK, HandInv,
         SweepSelect \/ SweepMiss \/ SweepPrompt \/ SweepRecord \/ SweepMessage
  PROVE  HandInv'
<1>. USE DEF HandInv, Live, Watched, EndComes
<1>1. CASE SweepSelect
  BY <1>1 DEF SweepSelect, Unanswered, Over, callVars, ringVars, carrierVars
<1>2. CASE SweepMiss
  BY <1>2 DEF SweepMiss, callVars, carrierVars
<1>3. CASE SweepPrompt
  BY <1>3 DEF SweepPrompt, callVars, ringVars, carrierVars
<1>4. CASE SweepRecord
  BY <1>4 DEF SweepRecord, callVars, ringVars
<1>5. CASE SweepMessage
  BY <1>5 DEF SweepMessage, carrierVars
<1>. QED
  BY <1>1, <1>2, <1>3, <1>4, <1>5

(* The steps of the sweeps that end a call. *)
LEMMA ClosingStepsHand ==
  ASSUME TypeOK, HandInv,
         SweepLetGo \/ SweepMissed \/ SweepStop \/ SweepClosed
           \/ Reap \/ ReapMark \/ Stall
  PROVE  HandInv'
<1>1. CASE SweepLetGo \/ SweepStop \/ Reap
  <2>1. /\ "incoming" \in events' => "incoming" \in events
        /\ "answered" \in events' => "answered" \in events
        /\ EndComes => EndComes'
    BY <1>1, RequestBringsNoCall DEF SweepLetGo, SweepStop, Reap
  <2>. QED
    BY <1>1, <2>1
       DEF SweepLetGo, SweepStop, Reap, HandInv, Live, Watched, callVars,
           ringVars
<1>. USE DEF HandInv, Live, Watched, EndComes
<1>2. CASE SweepMissed \/ SweepClosed
  BY <1>2 DEF SweepMissed, SweepClosed, ringVars, carrierVars
<1>3. CASE ReapMark
  BY <1>3 DEF ReapMark, ringVars, carrierVars
<1>4. CASE Stall
  BY <1>4 DEF Stall, ringVars, carrierVars
<1>. QED
  BY <1>1, <1>2, <1>3, <1>4

(* An answer marks the row answered as it moves it, a hangup ends it. *)
LEMMA WebhooksHand ==
  ASSUME TypeOK, HandInv, NEW e \in events, apply(e) \/ apply_side_effects(e)
  PROVE  HandInv'
<1>1. CASE apply(e)
  <2>. DEFINE after == next(status, LifecycleOf(e))
  <2>1. UNCHANGED <<ringVars, admitting, sweep, leg>> /\ events' = events \ {e}
        /\ e \in {"answered", "hangup"}
    BY <1>1 DEF apply
  <2>2. CASE status = "absent"
    BY <1>1, <2>1, <2>2 DEF apply, HandInv, Live, callVars, ringVars
  <2>3. CASE status # "absent" /\ after = NoMove
    <3>1. UNCHANGED callVars
      BY <1>1, <2>3 DEF apply
    <3>2. status \notin {"ringing", "answered", "bridged", "ending"}
            \/ e = "answered"
      BY <2>1, <2>3 DEF next, LifecycleOf, NoMove, was_answered, is_terminal
    <3>3. status # "ringing"
      <4>1. next("ringing", "Answered") = "answered"
        BY DEF next, Candidate, rank, is_terminal
      <4>. QED
        BY <2>3, <3>2, <4>1 DEF LifecycleOf, NoMove
    <3>4. Live => EndComes' = EndComes
      BY <2>1, <3>2 DEF EndComes, Live
    <3>. QED
      BY <2>1, <2>3, <3>1, <3>3, <3>4
         DEF HandInv, Live, Watched, callVars, ringVars
  <2>4. CASE ~(status = "absent" \/ after = NoMove)
    <3>1. after \in {"answered", "completed", "failed"}
      BY <1>1, <2>4 DEF apply, next, LifecycleOf, Candidate
    <3>2. /\ status' \in {"answered", "completed", "failed"}
          /\ status' = after
          /\ answered_at \/ status' = "answered" => answered_at'
      BY <1>1, <2>4, <3>1 DEF apply
    <3>3. "incoming" \notin events
      BY <2>4 DEF HandInv
    <3>4. status' = "answered" => e = "answered"
      BY <2>1, <2>4, <3>2 DEF next, LifecycleOf, was_answered
    <3>5. status' = "answered" => status = "ringing"
      BY <2>4, <3>2, <3>4 DEF HandInv, TypeOK, CallStates, next, LifecycleOf,
         Candidate, rank, is_terminal, NoMove
    <3>6. status' = "answered" => EndComes'
      BY <2>1, <3>4, <3>5 DEF HandInv, EndComes
    <3>. HIDE DEF after
    <3>. QED
      BY <2>1, <3>2, <3>3, <3>6 DEF HandInv, Live, Watched, ringVars
  <2>. QED
    BY <2>2, <2>3, <2>4
<1>2. CASE apply_side_effects(e)
  BY <1>2 DEF apply_side_effects, HandInv, Live, Watched, EndComes, callVars,
              taskVars
<1>. QED
  BY <1>1, <1>2

(* An error or a restart may strike between any two steps of a pass. *)
LEMMA EnvironmentHands ==
  ASSUME TypeOK, HandInv, LegDrops \/ DeadlinePasses \/ SweepError \/ Crash
  PROVE  HandInv'
<1>1. CASE LegDrops
  BY <1>1, EndingBringsNoCall
     DEF LegDrops, HandInv, Live, Watched, callVars, ringVars, taskVars
<1>. USE DEF HandInv, Live, Watched, EndComes
<1>2. CASE DeadlinePasses
  BY <1>2 DEF DeadlinePasses, callVars, taskVars, carrierVars
<1>3. CASE SweepError \/ Crash
  BY <1>3 DEF SweepError, Crash, callVars, ringVars, carrierVars
<1>. QED
  BY <1>1, <1>2, <1>3

(* Every step keeps the call in hand. *)
LEMMA HandStep ==
  ASSUME TypeOK, HandInv, [Next]_vars PROVE HandInv'
<1>. USE DEF Live, Watched, EndComes
<1>1. CASE \E u \in Colleagues : answer_inbound(u)
  BY <1>1 DEF answer_inbound, HandInv, callVars, taskVars, carrierVars
<1>2. CASE UNCHANGED vars
  BY <1>2 DEF vars, callVars, ringVars, taskVars, carrierVars, HandInv
<1>. QED
  BY <1>1, <1>2, AdmittingHands, MessageStepsHand, ClosingStepsHand,
     WebhooksHand, EnvironmentHands DEF Next, Sweeping

(* "A hangup that fails must not leave a call ringing in our records for   *)
(* ever": in every state, whatever failed before, an admitted call is over *)
(* or somebody will still act on it.  The one exception is the exception   *)
(* of EveryCallEnds, a call taken after the sweep had given it up, whose   *)
(* answer was never seen or whose leg is down: the second pass of          *)
(* sweep_unanswered does not look at it.                                   *)
THEOREM NoInboundCallIsForgotten == Spec => []CallsInHand
<1>1. Init => TypeOK /\ HandInv
  BY TypeInit, HandInit
<1>2. TypeOK /\ HandInv /\ [Next]_vars => (TypeOK /\ HandInv)'
  BY TypeStep, HandStep
<1>3. TypeOK /\ HandInv => CallsInHand
  BY HandKeepsWatch
<1>. QED
  BY <1>1, <1>2, <1>3, PTL DEF Spec
-----------------------------------------------------------------------------
(* The line of a call that is over.                                        *)

(* Until a hangup fails, a row is closed on a leg that is down, but for a  *)
(* call fail_stalled_calls gives up: a leg that went up has an answer on   *)
(* its way, which takes the row out of that sweep's reach.                 *)
LineInv ==
  ~unhung =>
    /\ Over => \/ leg = "down"
               \/ leg = "offered" /\ admitting \notin {"park", "answer"}
    /\ "incoming" \in events => leg # "up"
    /\ "hangup" \in events \/ sweep \in {"missed", "closed"} => leg = "down"
    /\ leg = "up" /\ status = "ringing" => "answered" \in events

(* The leg is offered, and nothing is written. *)
LEMMA LineInit ==
  ASSUME Init PROVE LineInv
  BY DEF Init, LineInv, Over

(* A request to hang up that does not fail leaves the leg down. *)
LEMMA RequestDowns ==
  ASSUME NEW pending, pending \subseteq events,
         RequestHangup(pending) \/ StopsOnly, ~unhung'
  PROVE  /\ ~unhung /\ leg' = "down"
         /\ "incoming" \in events' => "incoming" \in events
  BY DEF RequestHangup, LegEnds, StopsOnly, mishapVars

(* Admission answers a leg only before its row is over. *)
LEMMA AdmittingLets ==
  ASSUME TypeOK, HandInv, LineInv, Admitting PROVE LineInv'
<1>. USE DEF LineInv, Over, mishapVars
<1>1. CASE Admit
  BY <1>1 DEF Admit, HandInv
<1>2. CASE Refuse
  <2>1. ~unhung' => leg' = "down" /\ "incoming" \notin events'
    BY <1>2 DEF Refuse, RequestHangup, LegEnds
  <2>. QED
    BY <2>1
<1>3. CASE AnswerLeg
  BY <1>3 DEF AnswerLeg, callVars, HandInv
<1>4. CASE Ring
  BY <1>4 DEF Ring, callVars, carrierVars
<1>5. CASE Park
  BY <1>5 DEF Park, callVars, carrierVars
<1>. QED
  BY <1>1, <1>2, <1>3, <1>4, <1>5 DEF Admitting

(* A sweep closes a row after it has hung up. *)
LEMMA SweepingLets ==
  ASSUME TypeOK, HandInv, LineInv, Sweeping PROVE LineInv'
<1>. USE DEF LineInv, Over, mishapVars
<1>1. CASE SweepSelect \/ SweepMiss \/ SweepPrompt
  BY <1>1 DEF SweepSelect, SweepMiss, SweepPrompt, callVars, carrierVars
<1>2. CASE SweepRecord
  BY <1>2 DEF SweepRecord, callVars
<1>3. CASE SweepMessage
  BY <1>3 DEF SweepMessage, carrierVars
<1>4. CASE SweepLetGo \/ SweepStop \/ Reap
  <2>1. ~unhung' => /\ ~unhung /\ leg' = "down"
                    /\ "incoming" \in events' => "incoming" \in events
    BY <1>4, RequestDowns DEF SweepLetGo, SweepStop, Reap
  <2>. QED
    BY <1>4, <2>1 DEF SweepLetGo, SweepStop, Reap, callVars
<1>5. CASE SweepMissed \/ SweepClosed
  BY <1>5 DEF SweepMissed, SweepClosed, carrierVars
<1>6. CASE ReapMark
  BY <1>6 DEF ReapMark, carrierVars
<1>7. CASE Stall
  BY <1>7 DEF Stall, TypeOK, carrierVars
<1>. QED
  BY <1>1, <1>2, <1>3, <1>4, <1>5, <1>6, <1>7 DEF Sweeping

(* An answer is seen before its row is closed, a hangup is of a leg that   *)
(* is down.                                                                *)
LEMMA WebhooksLet ==
  ASSUME TypeOK, HandInv, LineInv, NEW e \in events,
         apply(e) \/ apply_side_effects(e)
  PROVE  LineInv'
<1>. USE DEF LineInv, Over, mishapVars
<1>1. CASE apply(e) /\ e = "answered"
  <2>1. next(status, "Answered") \in {"answered", NoMove}
    BY DEF next, Candidate
  <2>2. status = "ringing" => next(status, "Answered") = "answered"
    BY DEF next, Candidate, rank, is_terminal
  <2>3. status' = status \/ (~Over' /\ status' = "answered")
    BY <1>1, <2>1 DEF apply, LifecycleOf, callVars
  <2>4. status = "ringing" => status' = "answered"
    BY <1>1, <2>2 DEF apply, LifecycleOf, NoMove
  <2>5. UNCHANGED <<admitting, sweep, leg, unhung>>
        /\ events' = events \ {"answered"}
    BY <1>1 DEF apply
  <2>. QED
    BY <2>3, <2>4, <2>5
<1>2. CASE apply(e) /\ e = "hangup"
  <2>1. UNCHANGED <<admitting, sweep, leg, unhung>>
        /\ events' = events \ {"hangup"}
    BY <1>2 DEF apply
  <2>. QED
    BY <1>2, <2>1
<1>3. CASE apply_side_effects(e)
  BY <1>3 DEF apply_side_effects, callVars, taskVars
<1>. QED
  BY <1>1, <1>2, <1>3 DEF apply

(* Every step lets go of the line of a call that is over. *)
LEMMA LineStep ==
  ASSUME TypeOK, HandInv, LineInv, [Next]_vars PROVE LineInv'
<1>. USE DEF LineInv, Over, mishapVars
<1>1. CASE \E u \in Colleagues : answer_inbound(u)
  BY <1>1 DEF answer_inbound, callVars, taskVars, carrierVars
<1>2. CASE LegDrops
  BY <1>2 DEF LegDrops, LegEnds, callVars, taskVars
<1>3. CASE DeadlinePasses
  BY <1>3 DEF DeadlinePasses, callVars, taskVars, carrierVars
<1>4. CASE SweepError \/ Crash
  BY <1>4 DEF SweepError, Crash, callVars, carrierVars
<1>5. CASE UNCHANGED vars
  BY <1>5 DEF vars, callVars, taskVars, carrierVars
<1>. QED
  BY <1>1, <1>2, <1>3, <1>4, <1>5, AdmittingLets, SweepingLets, WebhooksLet
     DEF Next

(* The caller's line is not left open behind a row that is over, unless a  *)
(* hangup failed (inbound.rs, sweep_unanswered, whose requests are not     *)
(* repeated; webhook.rs, fail_stalled_calls, which hangs nothing up).      *)
THEOREM LineIsAlwaysLetGo == Spec => []LineIsLetGo
<1>1. Init => TypeOK /\ HandInv /\ LineInv
  BY TypeInit, HandInit, LineInit
<1>2. TypeOK /\ HandInv /\ LineInv /\ [Next]_vars
        => (TypeOK /\ HandInv /\ LineInv)'
  BY TypeStep, HandStep, LineStep
<1>3. TypeOK /\ LineInv => LineIsLetGo
  BY DEF TypeOK, LineInv, LineIsLetGo
<1>. QED
  BY <1>1, <1>2, <1>3, PTL DEF Spec
=============================================================================
