------------------------ MODULE WebhookIngestProofs ------------------------
(***************************************************************************)
(* Theorems about the ingestion of one call's webhooks, for any number of  *)
(* events with any timestamps, delivered in any order.                     *)
(***************************************************************************)
EXTENDS WebhookIngest, CallStateProofs

(* What each kind of webhook is to the lifecycle. *)
LEMMA LifecycleEvents ==
  /\ lifecycle_event("initiated") = "Dialed"
  /\ lifecycle_event("ringing") = "Ringing"
  /\ lifecycle_event("answered") = "Answered"
  /\ lifecycle_event("media_started") = "MediaEstablished"
  /\ lifecycle_event("hangup") = "Hangup"
  /\ \A k \in {"media_stopped", "recording_started", "recording_saved",
                "dtmf"} : lifecycle_event(k) = NoMove
  BY DEF lifecycle_event

(* The five states of an open call, by the kinds it heard. *)
LEMMA ReachedIs ==
  ASSUME NEW K
  PROVE  /\ "media_started" \in K => Reached(K) = "bridged"
         /\ "media_started" \notin K /\ "answered" \in K
              => Reached(K) = "answered"
         /\ "media_started" \notin K /\ "answered" \notin K /\ "ringing" \in K
              => Reached(K) = "ringing"
         /\ /\ "media_started" \notin K /\ "answered" \notin K
            /\ "ringing" \notin K /\ "initiated" \in K
            => Reached(K) = "dialing"
         /\ /\ "media_started" \notin K /\ "answered" \notin K
            /\ "ringing" \notin K /\ "initiated" \notin K
            => Reached(K) = "created"
  BY DEF Reached

(* Where a delivery of kind k takes a call that has heard the kinds K.     *)
Step(K, k) == IF lifecycle_event(k) = NoMove THEN NoMove
              ELSE next(Verdict(K), lifecycle_event(k))

(* One delivery moves the state as the set of kinds it leaves would, so no *)
(* order of deliveries can matter: the heart of StatusIsVerdict.           *)
LEMMA OrderDoesNotMatter ==
  ASSUME NEW K \in SUBSET Kinds, NEW k \in Kinds, "hangup" \notin K
  PROVE  Verdict(K \cup {k}) =
           IF Step(K, k) = NoMove THEN Verdict(K) ELSE Step(K, k)
<1> DEFINE s == Verdict(K)
           L == K \cup {k}
<1>1. s = Reached(K)
  BY DEF Verdict
<1>2. s \in {"created", "dialing", "ringing", "answered", "bridged"}
  BY <1>1, ReachedIs
<1>3. CASE k = "hangup"
  <2>1. Step(K, k) = next(s, "Hangup")
    BY <1>3, LifecycleEvents DEF Step, NoMove
  <2>2. ~is_terminal(s) /\ (was_answered(s) <=> s \in {"answered", "bridged"})
    BY <1>2, Ranks DEF is_terminal, was_answered
  <2>3. next(s, "Hangup") = IF s \in {"answered", "bridged"} THEN "completed"
                            ELSE "failed"
    BY <2>2 DEF next
  <2>4. s \in {"answered", "bridged"}
          <=> "answered" \in K \/ "media_started" \in K
    BY <1>1, ReachedIs
  <2>5. Verdict(L) = IF "answered" \in K \/ "media_started" \in K
                     THEN "completed" ELSE "failed"
    BY <1>3 DEF Verdict
  <2> QED BY <2>1, <2>3, <2>4, <2>5 DEF NoMove
<1>4. CASE k # "hangup"
  <2>1. Verdict(L) = Reached(L)
    BY <1>4 DEF Verdict
  <2>2. CASE k \in {"media_stopped", "recording_started", "recording_saved",
                   "dtmf"}
    <3>1. Step(K, k) = NoMove
      BY <2>2, LifecycleEvents DEF Step
    <3>2. /\ "media_started" \in L <=> "media_started" \in K
          /\ "answered" \in L <=> "answered" \in K
          /\ "ringing" \in L <=> "ringing" \in K
          /\ "initiated" \in L <=> "initiated" \in K
      BY <2>2
    <3>3. Reached(L) = Reached(K)
      BY <3>2, ReachedIs
    <3> QED BY <1>1, <2>1, <3>1, <3>3
  <2>3. CASE k \in {"initiated", "ringing", "answered", "media_started"}
    <3> DEFINE v == lifecycle_event(k)
    <3>1. /\ v \in {"Dialed", "Ringing", "Answered", "MediaEstablished"}
          /\ Step(K, k) = next(s, v)
      BY <2>3, LifecycleEvents DEF Step, NoMove
    <3>2. Step(K, k) = IF rank(Candidate(v)) > rank(s) THEN Candidate(v)
                       ELSE NoMove
      BY <1>2, <3>1, NextAsksFor
    <3>3. Candidate(v) # NoMove
      BY <3>1, Candidates DEF NoMove
    <3>4. Reached(L) = IF rank(Candidate(v)) > rank(s) THEN Candidate(v)
                       ELSE s
      <4>1. CASE k = "initiated"
        BY <1>1, <4>1, ReachedIs, LifecycleEvents, Candidates, Ranks
      <4>2. CASE k = "ringing"
        BY <1>1, <4>2, ReachedIs, LifecycleEvents, Candidates, Ranks
      <4>3. CASE k = "answered"
        BY <1>1, <4>3, ReachedIs, LifecycleEvents, Candidates, Ranks
      <4>4. CASE k = "media_started"
        BY <1>1, <4>4, ReachedIs, LifecycleEvents, Candidates, Ranks
      <4> QED BY <2>3, <4>1, <4>2, <4>3, <4>4
    <3> QED BY <2>1, <3>2, <3>3, <3>4
  <2> QED BY <1>4, <2>2, <2>3 DEF Kinds
<1> QED BY <1>3, <1>4

(* A call is over exactly when a hangup was heard. *)
LEMMA OverIsHungUp ==
  ASSUME NEW K
  PROVE  is_terminal(Verdict(K)) <=> "hangup" \in K
  BY DEF is_terminal, Verdict, Reached

(* A whole number of credits comes out of a whole number of seconds. *)
LEMMA CreditsAreWhole ==
  ASSUME NEW p \in Nat, NEW s \in Nat
  PROVE  settle_credits(p, s) \in Nat
<1>1. UnitsPerCredit \in Nat /\ UnitsPerCredit > 0
  BY IngestAssumption
<1>2. p * s \in Nat
  OBVIOUS
<1>3. ASSUME NEW x \in Nat, NEW u \in Nat, u > 0
      PROVE  (x + u - 1) \div u \in Nat
  BY <1>3
<1> QED BY <1>1, <1>2, <1>3 DEF settle_credits

-----------------------------------------------------------------------------
(* What an open row has not got yet.  Without it a late answer time could  *)
(* meet an end time of another life of the call: BillIsTheSpan alone is    *)
(* not inductive.                                                          *)
OpenRow ==
  /\ ~is_terminal(status) => ended_at = {} /\ duration = {} /\ settled = 0
  /\ status = "answered" => answered_at # {}

IngestInv == TypeOK /\ StatusIsVerdict /\ BillIsTheSpan /\ OpenRow

(* A call nobody has heard of. *)
LEMMA IngestInit == Init => IngestInv
<1> SUFFICES ASSUME Init PROVE IngestInv
  OBVIOUS
<1> USE DEF Init
<1>1. ~is_terminal(status)
  BY DEF is_terminal
<1>2. TypeOK
  BY IngestAssumption DEF TypeOK, CallStates, Nullable
<1>3. Kind(heard) = {}
  BY DEF Kind
<1>4. StatusIsVerdict
  BY <1>3, ReachedIs DEF StatusIsVerdict, Verdict
<1>5. BillIsTheSpan
  BY <1>1, IngestAssumption DEF BillIsTheSpan, is_terminal
<1>6. OpenRow
  BY <1>1 DEF OpenRow
<1> QED BY <1>2, <1>4, <1>5, <1>6 DEF IngestInv

(* A recording keeps its type, a missing id being filled from the old one. *)
LEMMA SideEffectsType ==
  ASSUME TypeOK, NEW e \in Events, apply_side_effects(e)
  PROVE  /\ recording' \in [status : {"none", "recording", "saved"},
                            id : SUBSET Ids]
         /\ Nullable(recording'.id, Ids)
<1>1. /\ recording \in [status : {"none", "recording", "saved"},
                         id : SUBSET Ids]
      /\ Nullable(recording.id, Ids)
  BY DEF TypeOK
<1>2. RecordingOf[e] \in SUBSET Ids /\ Nullable(RecordingOf[e], Ids)
  BY IngestAssumption DEF Nullable, Ids
<1>3. /\ Coalesce(RecordingOf[e], recording.id) \in SUBSET Ids
      /\ Nullable(Coalesce(RecordingOf[e], recording.id), Ids)
  BY <1>1, <1>2 DEF Coalesce
<1>4. CASE KindOf[e] = "recording_started"
  <2>1. recording' = [recording EXCEPT !.status = "recording"]
    BY <1>4 DEF apply_side_effects
  <2>2. /\ recording' \in [status : {"none", "recording", "saved"},
                           id : SUBSET Ids]
        /\ recording'.id = recording.id
    BY <1>1, <2>1
  <2> QED BY <1>1, <2>2
<1>5. CASE KindOf[e] = "recording_saved"
  <2>1. recording' = [status |-> "saved",
                      id |-> Coalesce(RecordingOf[e], recording.id)]
    BY <1>5 DEF apply_side_effects
  <2> QED BY <1>3, <2>1
<1>6. CASE KindOf[e] \notin {"recording_started", "recording_saved"}
  <2>1. recording' = recording
    BY <1>6 DEF apply_side_effects
  <2> QED BY <1>1, <2>1
<1> QED BY <1>4, <1>5, <1>6

(* The kinds heard after a delivery. *)
LEMMA KindsHeard ==
  ASSUME NEW S \in SUBSET Events, NEW e \in Events
  PROVE  /\ Kind(S) \in SUBSET Kinds
         /\ KindOf[e] \in Kinds
         /\ Kind(S \cup {e}) = Kind(S) \cup {KindOf[e]}
  BY IngestAssumption DEF Kind

(* A delivery keeps the state the verdict of what was heard. *)
LEMMA ApplyKeepsVerdict ==
  ASSUME IngestInv, NEW e \in Events, apply(e)
  PROVE  StatusIsVerdict'
<1> DEFINE K == Kind(heard)
           k == KindOf[e]
           after == Moves(status, e)
<1>1. heard \in SUBSET Events /\ status = Verdict(K)
  BY DEF IngestInv, TypeOK, StatusIsVerdict
<1>2. /\ status' = IF after = NoMove THEN status ELSE after
      /\ heard' = IF is_terminal(status) THEN heard ELSE heard \cup {e}
  BY DEF apply, Move, row
<1>3. CASE is_terminal(status)
  <2>1. after = NoMove
    BY <1>3, TerminalAbsorbs DEF Moves
  <2> QED BY <1>1, <1>2, <1>3, <2>1 DEF StatusIsVerdict
<1>4. CASE ~is_terminal(status)
  <2>1. "hangup" \notin K
    BY <1>1, <1>4, OverIsHungUp
  <2>2. K \in SUBSET Kinds /\ k \in Kinds /\ Kind(heard') = K \cup {k}
    BY <1>1, <1>2, <1>4, KindsHeard
  <2>3. after = Step(K, k)
    BY <1>1 DEF Moves, Step
  <2>4. status' = Verdict(K \cup {k})
    BY <1>1, <1>2, <2>1, <2>2, <2>3, OrderDoesNotMatter
  <2> QED BY <2>2, <2>4 DEF StatusIsVerdict
<1> QED BY <1>3, <1>4

(* The span between two timestamps, never negative. *)
LEMMA SpanIsWhole ==
  ASSUME NEW a \in Nat, NEW b \in Nat
  PROVE  AtLeastZero(b - a) \in Nat
  BY DEF AtLeastZero

(* A delivery that moves nothing but the information columns. *)
LEMMA QuietDelivery ==
  ASSUME IngestInv, NEW e \in Events, apply(e), Moves(status, e) = NoMove
  PROVE  IngestInv'
<1>1. UNCHANGED <<row, quote, settled>>
  BY DEF apply
<1>2. /\ ledger' = ledger \cup {e}
      /\ heard' \in {heard, heard \cup {e}}
  BY DEF apply
<1>3. TypeOK'
  <2>1. /\ recording' \in [status : {"none", "recording", "saved"},
                           id : SUBSET Ids]
        /\ Nullable(recording'.id, Ids)
    BY SideEffectsType DEF apply, IngestInv
  <2> QED BY <1>1, <1>2, <2>1 DEF IngestInv, TypeOK, row, quote
<1>4. StatusIsVerdict'
  BY ApplyKeepsVerdict
<1>5. "media_started" \in Kind(heard) => "media_started" \in Kind(heard')
  BY <1>2 DEF Kind
<1>6. BillIsTheSpan' /\ OpenRow'
  BY <1>1, <1>5 DEF IngestInv, BillIsTheSpan, OpenRow, row, quote
<1> QED BY <1>3, <1>4, <1>6 DEF IngestInv

(* A delivery that moves an open call to another open state. *)
LEMMA OpenDelivery ==
  ASSUME IngestInv, NEW e \in Events, apply(e), Moves(status, e) # NoMove,
         ~is_terminal(Moves(status, e))
  PROVE  IngestInv'
<1> DEFINE after == Moves(status, e)
<1>0. ~is_terminal(status)
  BY TerminalAbsorbs DEF Moves
<1>1. status' = after /\ after \in CallStates
  <2>1. lifecycle_event(KindOf[e]) \in CallEvents
    BY LifecycleEvents, KindsHeard, IngestAssumption
       DEF Moves, Kinds, CallEvents
  <2> QED BY <2>1, NextClimbs DEF apply, Move, Moves, IngestInv, TypeOK
<1>2. /\ answered_at' = IF after = "answered" /\ answered_at = {}
                        THEN {AtOf[e]} ELSE answered_at
      /\ ended_at' = {} /\ duration' = {}
      /\ UNCHANGED <<consumed, settled, price, engine, offer>>
  BY <1>0 DEF apply, Move, Coalesce, IngestInv, OpenRow, quote
<1>3. /\ ledger' = ledger \cup {e}
      /\ heard' \in {heard, heard \cup {e}}
  BY DEF apply
<1>4. TypeOK'
  <2>1. /\ recording' \in [status : {"none", "recording", "saved"},
                           id : SUBSET Ids]
        /\ Nullable(recording'.id, Ids)
    BY SideEffectsType DEF apply, IngestInv
  <2>2. AtOf[e] \in Nat
    BY IngestAssumption
  <2>3. /\ Nullable(answered_at', Nat)
        /\ Nullable(ended_at', Nat)
        /\ Nullable(duration', Nat)
    BY <1>2, <2>2 DEF IngestInv, TypeOK, Nullable
  <2> QED BY <1>1, <1>2, <1>3, <2>1, <2>3 DEF IngestInv, TypeOK
<1>5. StatusIsVerdict'
  BY ApplyKeepsVerdict
<1>6. consumed = 0 /\ settled = 0 /\ price <= Quoted
  BY <1>0 DEF IngestInv, BillIsTheSpan, OpenRow, is_terminal
<1>7. BillIsTheSpan' /\ OpenRow'
  BY <1>1, <1>2, <1>6 DEF BillIsTheSpan, OpenRow, is_terminal
<1> QED BY <1>4, <1>5, <1>7 DEF IngestInv

(* The delivery that ends the call and settles it. *)
LEMMA LastDelivery ==
  ASSUME IngestInv, NEW e \in Events, apply(e), Moves(status, e) # NoMove,
         is_terminal(Moves(status, e))
  PROVE  IngestInv'
<1> DEFINE after == Moves(status, e)
           span == {AtLeastZero(AtOf[e] - a) : a \in answered_at}
<1>0. ~is_terminal(status) /\ after # "answered"
  BY TerminalAbsorbs DEF Moves, is_terminal
<1>1. status' = after /\ after \in {"completed", "failed"}
  BY DEF apply, Move, is_terminal
<1>2. /\ ended_at = {} /\ duration = {} /\ settled = 0 /\ consumed = 0
      /\ status = "answered" => answered_at # {}
      /\ AtOf[e] \in Nat /\ price \in Nat /\ price <= Quoted
      /\ Nullable(answered_at, Nat)
  BY <1>0, IngestAssumption
     DEF IngestInv, OpenRow, BillIsTheSpan, TypeOK, is_terminal
<1>3. /\ answered_at' = answered_at
      /\ ended_at' = {AtOf[e]}
      /\ duration' = span
      /\ consumed' = settle(after, span)
      /\ settled' = 1 /\ UNCHANGED <<price, engine, offer>>
  <2>1. /\ answered_at' = answered_at
        /\ ended_at' = Coalesce(ended_at, {AtOf[e]})
        /\ duration' = Coalesce(duration, span)
        /\ consumed' = settle(after, span)
        /\ settled' = settled + 1 /\ UNCHANGED <<price, engine, offer>>
    BY <1>0 DEF apply, Move, quote
  <2> QED BY <1>2, <2>1 DEF Coalesce
<1>4. /\ ledger' = ledger \cup {e}
      /\ heard' = heard \cup {e}
  BY <1>0 DEF apply
<1>5. ASSUME NEW a \in answered_at
      PROVE  /\ a \in Nat
             /\ span = {AtLeastZero(AtOf[e] - a)}
             /\ AtLeastZero(AtOf[e] - a) \in Nat
             /\ (CHOOSE n \in span : TRUE) = AtLeastZero(AtOf[e] - a)
  <2>1. a \in Nat /\ answered_at = {a}
    BY <1>2 DEF Nullable
  <2>2. span = {AtLeastZero(AtOf[e] - a)}
    BY <2>1
  <2>3. AtLeastZero(AtOf[e] - a) \in Nat
    BY <1>2, <2>1, SpanIsWhole
  <2> HIDE DEF span
  <2>4. (CHOOSE n \in span : TRUE) = AtLeastZero(AtOf[e] - a)
    BY <2>2
  <2> QED BY <2>1, <2>2, <2>3, <2>4 DEF span
<1>6. answered_at = {} => span = {}
  OBVIOUS
<1>7. /\ after = "completed" => \A a \in answered_at :
            settle(after, span) =
              settle_credits(price, AtLeastZero(AtOf[e] - a))
      /\ answered_at = {} \/ after = "failed" => settle(after, span) = 0
  <2> HIDE DEF span, after
  <2>1. ASSUME NEW a \in answered_at, after = "completed"
        PROVE  settle(after, span) =
                 settle_credits(price, AtLeastZero(AtOf[e] - a))
    BY <1>5, <2>1 DEF settle
  <2>2. answered_at = {} \/ after = "failed" => settle(after, span) = 0
    BY <1>6 DEF settle
  <2> QED BY <2>1, <2>2
<1> HIDE DEF span
<1>8. TypeOK'
  <2>1. /\ recording' \in [status : {"none", "recording", "saved"},
                           id : SUBSET Ids]
        /\ Nullable(recording'.id, Ids)
    BY SideEffectsType DEF apply, IngestInv
  <2>2. settle(after, span) \in Nat
    <3>1. ASSUME NEW a \in answered_at
          PROVE  settle_credits(price, AtLeastZero(AtOf[e] - a)) \in Nat
      BY <1>2, <1>5, CreditsAreWhole
    <3> QED BY <1>1, <1>7, <3>1
  <2>3. /\ Nullable(answered_at', Nat)
        /\ Nullable(ended_at', Nat)
        /\ Nullable(duration', Nat)
    BY <1>2, <1>3, <1>5, <1>6 DEF Nullable
  <2> QED BY <1>1, <1>3, <1>4, <2>1, <2>2, <2>3
             DEF IngestInv, TypeOK, CallStates
<1>9. StatusIsVerdict'
  BY ApplyKeepsVerdict
<1>10. after = "completed" /\ answered_at = {}
         => "media_started" \in Kind(heard)
  <2> SUFFICES ASSUME after = "completed", answered_at = {}
               PROVE  "media_started" \in Kind(heard)
    OBVIOUS
  <2>1. status = Verdict(Kind(heard)) /\ "hangup" \notin Kind(heard)
    BY <1>0, OverIsHungUp DEF IngestInv, StatusIsVerdict
  <2>2. status = Reached(Kind(heard))
    BY <2>1 DEF Verdict
  <2>3. status # "answered"
    BY <1>2
  <2>4. status \in {"created", "dialing", "ringing", "bridged"}
    BY <2>2, <2>3, ReachedIs
  <2>5. lifecycle_event(KindOf[e]) = "Hangup"
    <3>1. KindOf[e] \in Kinds
      BY IngestAssumption
    <3>2. ASSUME NEW v \in {"Dialed", "Ringing", "Answered",
                            "MediaEstablished"}
          PROVE  next(status, v) # "completed"
      BY <2>4, NextAsksFor, Candidates, <3>2 DEF NoMove
    <3> QED BY <3>1, <3>2, LifecycleEvents DEF Moves, Kinds, NoMove
  <2>6. next(status, "Hangup") = "completed"
    BY <2>5 DEF Moves, NoMove
  <2>7. was_answered(status)
    BY <1>0, <2>6 DEF next
  <2>8. status = "bridged"
    BY <2>4, <2>7, Ranks DEF was_answered
  <2> QED BY <2>2, <2>8, ReachedIs
<1>11. "media_started" \in Kind(heard) => "media_started" \in Kind(heard')
  BY <1>4 DEF Kind
<1>12. BillIsTheSpan' /\ OpenRow'
  BY <1>1, <1>2, <1>3, <1>7, <1>10, <1>11
     DEF BillIsTheSpan, OpenRow, is_terminal
<1> QED BY <1>8, <1>9, <1>12 DEF IngestInv

(* A reprice moves the price of an open call down, and of no other.        *)
LEMMA RepriceKeeps ==
  ASSUME IngestInv, (\E p \in Fallbacks : Requote(p)) \/ Reprice
  PROVE  IngestInv'
<1>1. UNCHANGED <<row, recording, ledger, settled, heard>>
  BY DEF Requote, Reprice
<1>2. /\ price' \in Nat /\ price' <= price
      /\ engine' \in {"requested", "fallback"} /\ Nullable(offer', Fallbacks)
      /\ is_terminal(status) => price' = price
  <2>1. CASE \E p \in Fallbacks : Requote(p)
    BY <2>1, IngestAssumption DEF Requote, IngestInv, TypeOK, Nullable
  <2>2. CASE Reprice
    <3>1. PICK p \in offer : /\ offer' = {}
                             /\ \/ UNCHANGED <<price, engine>>
                                \/ /\ ~is_terminal(status) /\ p <= price
                                   /\ price' = p /\ engine' = "fallback"
      BY <2>2 DEF Reprice
    <3>2. p \in Nat
      BY IngestAssumption DEF IngestInv, TypeOK, Nullable
    <3> QED BY <3>1, <3>2 DEF IngestInv, TypeOK, Nullable
  <2> QED BY <2>1, <2>2
<1>3. TypeOK'
  BY <1>1, <1>2 DEF IngestInv, TypeOK, row
<1>4. StatusIsVerdict' /\ OpenRow'
  BY <1>1 DEF IngestInv, StatusIsVerdict, OpenRow, row
<1>5. BillIsTheSpan'
  <2>1. price' <= Quoted
    BY <1>2, IngestAssumption DEF IngestInv, BillIsTheSpan, TypeOK
  <2>2. status = "completed" => price' = price
    BY <1>2 DEF is_terminal
  <2> QED BY <1>1, <2>1, <2>2 DEF IngestInv, BillIsTheSpan, row
<1> QED BY <1>3, <1>4, <1>5 DEF IngestInv

(* Every delivery, redelivery and reprice keeps the invariant. *)
LEMMA IngestStep == IngestInv /\ [Next]_vars => IngestInv'
<1> SUFFICES ASSUME IngestInv, [Next]_vars PROVE IngestInv'
  OBVIOUS
<1>1. ASSUME NEW e \in Events, apply(e) PROVE IngestInv'
  BY <1>1, QuietDelivery, OpenDelivery, LastDelivery
<1>2. ASSUME UNCHANGED vars PROVE IngestInv'
  BY <1>2 DEF vars, IngestInv, TypeOK, StatusIsVerdict, BillIsTheSpan, OpenRow
<1> QED BY <1>1, <1>2, RepriceKeeps DEF Next, Duplicate

(* The inductive invariant of `apply`: types, verdict, bill and open row. *)
THEOREM IngestInvariant == Spec => []IngestInv
  BY IngestInit, IngestStep, PTL DEF Spec

-----------------------------------------------------------------------------
(* Every column of the row keeps its type, for any timestamps and price.   *)
THEOREM IngestTypes == Spec => []TypeOK
<1>1. IngestInv => TypeOK
  BY DEF IngestInv
<1> QED BY <1>1, IngestInvariant, PTL

(* The state of a call is a function of the set of kinds it heard until it *)
(* was over: webhook.rs may receive them in any order, any number of times. *)
THEOREM StatusIsAlwaysVerdict == Spec => []StatusIsVerdict
<1>1. IngestInv => StatusIsVerdict
  BY DEF IngestInv
<1> QED BY <1>1, IngestInvariant, PTL

(* A call is charged once, for its connected span and nothing else, at the *)
(* price its row shows, whenever a reprice lands.                          *)
THEOREM BillIsAlwaysTheSpan == Spec => []BillIsTheSpan
<1>1. IngestInv => BillIsTheSpan
  BY DEF IngestInv
<1> QED BY <1>1, IngestInvariant, PTL

(* Nothing that arrives after the end of a call changes what it was.       *)
THEOREM FinishedStaysFrozen == Spec => FinishedIsFrozen
<1>1. [Next]_vars =>
        [is_terminal(status) => UNCHANGED <<row, price, engine, settled>>]_vars
  <2> SUFFICES ASSUME Next, is_terminal(status)
               PROVE  UNCHANGED <<row, price, engine, settled>>
    BY DEF vars
  <2>1. ASSUME NEW e \in Events, apply(e)
        PROVE  UNCHANGED <<row, price, engine, settled>>
    <3>1. Moves(status, e) = NoMove
      BY TerminalAbsorbs DEF Moves
    <3> QED BY <2>1, <3>1 DEF apply, quote
  <2>2. ASSUME UNCHANGED vars PROVE UNCHANGED <<row, price, engine, settled>>
    BY <2>2 DEF vars, row
  <2>3. ASSUME (\E p \in Fallbacks : Requote(p)) \/ Reprice
        PROVE  UNCHANGED <<row, price, engine, settled>>
    BY <2>3 DEF Requote, Reprice
  <2> QED BY <2>1, <2>2, <2>3 DEF Next, Duplicate
<1> QED BY <1>1, PTL DEF Spec, FinishedIsFrozen

(* A recording that can be named for erasure stays nameable.               *)
THEOREM RecordingStaysNamed == Spec => RecordingStaysErasable
<1>1. TypeOK /\ [Next]_vars => [recording.id # {} => recording'.id # {}]_vars
  <2> SUFFICES ASSUME TypeOK, Next, recording.id # {} PROVE recording'.id # {}
    BY DEF vars
  <2>1. ASSUME NEW e \in Events, apply(e) PROVE recording'.id # {}
    <3>1. apply_side_effects(e)
      BY <2>1 DEF apply
    <3> QED BY <3>1 DEF apply_side_effects, Coalesce, TypeOK
  <2>2. ASSUME UNCHANGED recording PROVE recording'.id # {}
    BY <2>2
  <2> QED BY <2>1, <2>2 DEF Next, Duplicate, Requote, Reprice, vars
<1> QED BY <1>1, IngestTypes, PTL DEF Spec, RecordingStaysErasable
=============================================================================
