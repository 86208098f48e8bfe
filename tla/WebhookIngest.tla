--------------------------- MODULE WebhookIngest ---------------------------
(***************************************************************************)
(* Ingestion of the carrier's webhooks for one telephone call:             *)
(* server/src/voip/webhook.rs, `apply` and the functions it calls; and the *)
(* task that lowers the call's price while they arrive, service.rs         *)
(* `reprice_after_fallback`.                                               *)
(*                                                                         *)
(* The carrier delivers its events in any order, with delays and           *)
(* duplicates.  `apply` is one transaction that locks the call row, so two *)
(* deliveries of one call are serialised and a delivery is one step.  The  *)
(* other writers of the status are in VoipCall.                            *)
(***************************************************************************)
EXTENDS CallState, Integers

CONSTANTS
  Events,          (* provider_event_id *)
  KindOf,          (* ProviderEventKind *)
  AtOf,            (* occurred_at, in seconds *)
  RecordingOf,     (* the recording id a recording_saved carries: {} or {id} *)
  Quoted,          (* the price the customer agreed to, in units of money a second *)
  Fallbacks,       (* what a second costs with the engine that may step in *)
  UnitsPerCredit   (* the same units in one credit *)

Kinds == {"initiated", "ringing", "answered", "media_started",
          "media_stopped", "hangup", "recording_started", "recording_saved",
          "dtmf"}

(* A nullable value is the set of it: {} is NULL. *)
Nullable(v, S) == \A a \in v : a \in S /\ v = {a}

ASSUME IngestAssumption ==
  /\ KindOf \in [Events -> Kinds]
  /\ AtOf \in [Events -> Nat]
  /\ \A e \in Events : Nullable(RecordingOf[e], RecordingOf[e])
  /\ Quoted \in Nat /\ Fallbacks \subseteq Nat
  /\ UnitsPerCredit \in Nat \ {0}

VARIABLES
  status,       (* voip_calls.status *)
  answered_at,  (* a nullable column is the set of its value: {} is NULL *)
  ended_at,
  duration,     (* duration_seconds *)
  consumed,     (* credits_consumed *)
  price,        (* quoted_price_per_min / 60 *)
  engine,       (* engine_id: the "requested" one, or its "fallback" *)
  offer,        (* the new price a reprice has computed, none at first *)
  recording,    (* [status, id] : recording_status, provider_recording_id *)
  ledger,       (* voip_provider_events: the event ids already recorded *)
  settled,      (* history: how many times the hold was closed from here *)
  heard         (* history: the events recorded before the call was over *)

row == <<status, answered_at, ended_at, duration, consumed>>

quote == <<price, engine, offer>>

vars == <<status, answered_at, ended_at, duration, consumed, price, engine,
          offer, recording, ledger, settled, heard>>

Coalesce(a, b) == IF a # {} THEN a ELSE b

(* The events of the lifecycle; every other kind is information. *)
lifecycle_event(k) == CASE k = "initiated"     -> "Dialed"
                        [] k = "ringing"       -> "Ringing"
                        [] k = "answered"      -> "Answered"
                        [] k = "media_started" -> "MediaEstablished"
                        [] k = "hangup"        -> "Hangup"
                        [] OTHER               -> NoMove

Moves(s, e) == LET event == lifecycle_event(KindOf[e])
               IN  IF event = NoMove THEN NoMove ELSE next(s, event)

(* Whole credits for a connected time, rounded up. *)
settle_credits(per_second, seconds) ==
  (per_second * seconds + UnitsPerCredit - 1) \div UnitsPerCredit

(* Mutant: clocks that disagree give a negative span. *)
NotClamped(n) == n

AtLeastZero(n) == IF n < 0 THEN 0 ELSE n

(* What the call owes when it ends, at the price in the row `apply` has    *)
(* locked; a NULL duration is billed as zero.                              *)
settle(final, d) ==
  IF final = "completed" /\ d # {}
  THEN settle_credits(price, CHOOSE n \in d : TRUE) ELSE 0

Init ==
  /\ status = "created"
  /\ answered_at = {} /\ ended_at = {} /\ duration = {}
  /\ consumed = 0
  /\ price = Quoted /\ engine = "requested" /\ offer = {}
  /\ recording = [status |-> "none", id |-> {}]
  /\ ledger = {}
  /\ settled = 0
  /\ heard = {}

(* Mutant: a saved recording overwrites the handle with whatever it carries. *)
sideEffectsBare(e) ==
  recording' = IF KindOf[e] = "recording_saved"
               THEN [status |-> "saved", id |-> RecordingOf[e]]
               ELSE recording

(* Columns that move whatever the lifecycle does. *)
apply_side_effects(e) ==
  recording' = CASE KindOf[e] = "recording_started" ->
                      [recording EXCEPT !.status = "recording"]
                 [] KindOf[e] = "recording_saved" ->
                      [status |-> "saved",
                       id |-> Coalesce(RecordingOf[e], recording.id)]
                 [] OTHER -> recording

(* The UPDATE of the row, and the settlement in the same transaction. *)
Move(e, after) ==
  LET answered == IF after = "answered" /\ answered_at = {}
                  THEN {AtOf[e]} ELSE answered_at
      ended    == IF is_terminal(after) THEN {AtOf[e]} ELSE {}
      span     == {AtLeastZero(AtOf[e] - a) :
                     a \in IF ended = {} THEN {} ELSE answered}
  IN  /\ status' = after
      /\ answered_at' = answered
      /\ ended_at' = Coalesce(ended_at, ended)
      /\ duration' = Coalesce(duration, span)
      /\ IF is_terminal(after)
         THEN consumed' = settle(after, span) /\ settled' = settled + 1
         ELSE UNCHANGED <<consumed, settled>>

(* A delivery, the first of its event id or a redelivery. *)
apply(e) ==
  LET after == Moves(status, e)
  IN  /\ e \notin ledger
      /\ ledger' = ledger \cup {e}
      /\ apply_side_effects(e)
      /\ IF after = NoMove THEN UNCHANGED <<row, settled>> ELSE Move(e, after)
      /\ heard' = IF is_terminal(status) THEN heard ELSE heard \cup {e}
      /\ UNCHANGED quote

Duplicate(e) == e \in ledger /\ UNCHANGED vars

-----------------------------------------------------------------------------
(* reprice_after_fallback, detached from the bridge of an answered call: a *)
(* SELECT and the margin's new price, then an UPDATE.  A price above the   *)
(* one that was read is not written.                                       *)

Requote(p) ==
  /\ answered_at # {} /\ offer = {}
  /\ p <= price
  /\ offer' = {p}
  /\ UNCHANGED <<row, price, engine, recording, ledger, settled, heard>>

(* Mutant: the UPDATE without `status NOT IN ('completed', 'failed')`. *)
RepriceLate ==
  \E p \in offer :
    /\ offer' = {}
    /\ IF engine = "requested" /\ p <= price
       THEN price' = p /\ engine' = "fallback" ELSE UNCHANGED <<price, engine>>
    /\ UNCHANGED <<row, recording, ledger, settled, heard>>

Reprice ==
  \E p \in offer :
    /\ offer' = {}
    /\ IF engine = "requested" /\ ~is_terminal(status) /\ p <= price
       THEN price' = p /\ engine' = "fallback" ELSE UNCHANGED <<price, engine>>
    /\ UNCHANGED <<row, recording, ledger, settled, heard>>

Next ==
  \/ \E e \in Events : apply(e) \/ Duplicate(e)
  \/ \E p \in Fallbacks : Requote(p)
  \/ Reprice

Spec == Init /\ [][Next]_vars

-----------------------------------------------------------------------------
Ids == UNION {RecordingOf[e] : e \in Events}

(* The columns have their types; a NULL is the empty set. *)
TypeOK ==
  /\ status \in CallStates
  /\ Nullable(answered_at, Nat)
  /\ Nullable(ended_at, Nat)
  /\ Nullable(duration, Nat)
  /\ consumed \in Nat
  /\ price \in Nat /\ engine \in {"requested", "fallback"}
  /\ Nullable(offer, Fallbacks)
  /\ recording \in [status : {"none", "recording", "saved"}, id : SUBSET Ids]
  /\ Nullable(recording.id, Ids)
  /\ ledger \subseteq Events
  /\ settled \in Nat
  /\ heard \subseteq ledger

Kind(S) == {KindOf[e] : e \in S}

(* Where the kinds K of events take a call, whatever order they came in. *)
Reached(K) == IF "media_started" \in K THEN "bridged"
              ELSE IF "answered" \in K  THEN "answered"
              ELSE IF "ringing" \in K   THEN "ringing"
              ELSE IF "initiated" \in K THEN "dialing"
              ELSE "created"

Verdict(K) ==
  IF "hangup" \notin K THEN Reached(K)
  ELSE IF "answered" \in K \/ "media_started" \in K
       THEN "completed" ELSE "failed"

(* "Events arrive out of business order": the state of a call is a         *)
(* function of the set of events heard until it was over, never of their   *)
(* order or of how often each was delivered.                               *)
StatusIsVerdict == status = Verdict(Kind(heard))

(* The bill is the connected span, once: a completed call with an answer   *)
(* time owes exactly that time rounded up, at the price its row shows from *)
(* then on, which is never dearer than what was agreed to; a failed one    *)
(* owes nothing, and a completed call is only left without an answer time  *)
(* when media_started overtook every answered.                             *)
BillIsTheSpan ==
  /\ price <= Quoted
  /\ settled = IF is_terminal(status) THEN 1 ELSE 0
  /\ status # "completed" => consumed = 0
  /\ status = "completed" /\ answered_at = {} =>
       consumed = 0 /\ "media_started" \in Kind(heard)
  /\ status = "completed" =>
       \A a \in answered_at, b \in ended_at :
         consumed = settle_credits(price, AtLeastZero(b - a))

(* "Terminal absorbs everything": a late answer, a second hangup of        *)
(* another leg, a recording or a reprice neither resurrects a finished     *)
(* call, nor restamps or reprices it, nor settles it again.                *)
FinishedIsFrozen ==
  [][is_terminal(status) => UNCHANGED <<row, price, engine, settled>>]_vars

(* A saved recording without an id does not lose the id an earlier one     *)
(* left: erasure and retention can name a phone recording by nothing else. *)
RecordingStaysErasable == [][recording.id # {} => recording'.id # {}]_vars
=============================================================================
