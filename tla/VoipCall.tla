------------------------------ MODULE VoipCall ------------------------------
(***************************************************************************)
(* An outbound translated telephone call from the dial request until its   *)
(* row is terminal and its credit hold is closed (server/src/voip).        *)
(*                                                                         *)
(* Everything that writes the call runs concurrently: the dial request     *)
(* (service.rs), the carrier's webhooks (webhook.rs, routes.rs), the media *)
(* bridge (session.rs), the sweeps (webhook.rs) and the people on both     *)
(* ends.  A database transaction or a single statement is one step; what a *)
(* task does after an await is a step of its own, and a crash of the       *)
(* server loses every task and everything that is only in memory.          *)
(***************************************************************************)
EXTENDS CallState, Integers, FiniteSets

CONSTANTS
  Calls, Orgs, OrgOf, Quotes, Costs, Amounts, Opening, MaxGrants,
  Users,          (* users.id *)
  UserOf,         (* the user that dials a call *)
  MaxPerUser,     (* max_concurrent_per_user *)
  MaxPerOrg,      (* max_concurrent_per_org *)
  MaxGlobal,      (* max_concurrent_global *)
  EarlyWebhooks,  (* a webhook may be applied before `dial` returns *)
  LossyWebhooks,  (* the carrier may give up on a webhook *)
  Faults,         (* database errors, and carrier requests that fail *)
  MaxCrashes      (* bound: restarts of the server in a behaviour *)

ASSUME VoipAssumption ==
  /\ IsFiniteSet(Calls)
  /\ OrgOf \in [Calls -> Orgs]
  /\ UserOf \in [Calls -> Users]
  /\ Quotes \subseteq Nat /\ Costs \subseteq Nat /\ Amounts \subseteq Nat
  /\ 0 \in Costs
  /\ Opening \in [Orgs -> Nat] /\ MaxGrants \in Nat
  /\ MaxPerUser \in Nat /\ MaxPerOrg \in Nat /\ MaxGlobal \in Nat
  /\ {EarlyWebhooks, LossyWebhooks, Faults} \subseteq BOOLEAN
  /\ MaxCrashes \in Nat

VARIABLES
  (* the database: the voip_calls row, and the credit tables of CreditHold *)
  status,    (* "absent" until the row is inserted *)
  answered,  (* answered_at IS NOT NULL *)
  legs,      (* provider_leg_ids is not empty *)
  consumed,  (* credits_consumed *)
  balance, hold, ledger, owed, other, grants,
  (* the server's memory *)
  dial,      (* where the request that places the call is *)
  parked,    (* the call's leg is in LiveCalls *)
  peer,      (* the telephone is a peer of the call's room *)
  hook,      (* what a webhook handler still does after its transaction *)
  media,     (* the task that bridges the carrier's media socket *)
  orphan,    (* a task is about to hang up the leg of a room left empty *)
  reaping,   (* the sweep has asked for a hangup and not yet noted it *)
  emptied,   (* history: the bridge ended because the room did *)
  (* the carrier *)
  leg,       (* the telephone leg itself *)
  stream,    (* the carrier was given our media socket's address *)
  inflight,  (* webhooks emitted and not yet accepted *)
  (* the environment *)
  crashes

rowVars == <<status, answered, legs, consumed>>
creditVars == <<balance, hold, ledger, owed, other, grants>>
asideVars == <<orphan, reaping, emptied>>
taskVars == <<dial, parked, peer, hook, media, asideVars>>
carrierVars == <<leg, stream, inflight>>

vars == <<rowVars, creditVars, taskVars, carrierVars, crashes>>

Credits == INSTANCE CreditHold

Live == CallStates \ {"completed", "failed"}

(* The steps of `dial`; "over" is a request that returned or died. *)
DialSteps == {"idle", "admitted", "unpaid", "reserved", "placed", "rejected",
              "refunding", "over"}

(* "hungup" and "marked" are the two places inside end_call. *)
MediaSteps == {"none", "live", "grace", "ending", "hungup", "marked", "over"}

InFlight(c) == dial[c] \notin {"idle", "over"}

Ended(c) == status[c] \in {"completed", "failed"}

Init ==
  /\ status = [c \in Calls |-> "absent"]
  /\ answered = [c \in Calls |-> FALSE]
  /\ legs = [c \in Calls |-> FALSE]
  /\ consumed = [c \in Calls |-> 0]
  /\ Credits!Init
  /\ dial = [c \in Calls |-> "idle"]
  /\ parked = [c \in Calls |-> FALSE]
  /\ peer = [c \in Calls |-> FALSE]
  /\ hook = [c \in Calls |-> {}]
  /\ media = [c \in Calls |-> "none"]
  /\ orphan = [c \in Calls |-> FALSE]
  /\ reaping = [c \in Calls |-> FALSE]
  /\ emptied = [c \in Calls |-> FALSE]
  /\ leg = [c \in Calls |-> "none"]
  /\ stream = [c \in Calls |-> FALSE]
  /\ inflight = [c \in Calls |-> {}]
  /\ crashes = 0

-----------------------------------------------------------------------------
(* The dial request, service.rs `dial`.                                    *)

LiveAmong(S) == Cardinality({c \in S : status[c] \in Live})

SameUser(c) == {d \in Calls : UserOf[d] = UserOf[c]}
SameOrg(c) == {d \in Calls : OrgOf[d] = OrgOf[c]}

(* Mutant: the organisation's cap is only checked when the quote is made. *)
BelowUserCap(c) == LiveAmong(SameUser(c)) < MaxPerUser

(* The counts are read and the row inserted under ADMISSION_LOCK. *)
BelowCaps(c) ==
  /\ LiveAmong(SameUser(c)) < MaxPerUser
  /\ LiveAmong(SameOrg(c)) < MaxPerOrg
  /\ LiveAmong(Calls) < MaxGlobal

(* The room and the phone peer exist before the row; a request that a cap  *)
(* turns away takes the peer out again and is no step.                     *)
DialAdmit(c) ==
  /\ dial[c] = "idle"
  /\ BelowCaps(c)
  /\ dial' = [dial EXCEPT ![c] = "admitted"]
  /\ peer' = [peer EXCEPT ![c] = TRUE]
  /\ status' = [status EXCEPT ![c] = "created"]
  /\ UNCHANGED <<answered, legs, consumed, creditVars, parked, hook, media,
                 asideVars, carrierVars, crashes>>

(* The hold is taken and the leg parked before the carrier is called. *)
DialReserve(c, n) ==
  /\ dial[c] = "admitted"
  /\ Credits!Reserve(c, n)
  /\ dial' = [dial EXCEPT ![c] = "reserved"]
  /\ parked' = [parked EXCEPT ![c] = TRUE]
  /\ UNCHANGED <<rowVars, peer, hook, media, asideVars, carrierVars, crashes>>

DialUnpaid(c, n) ==
  /\ dial[c] = "admitted"
  /\ ~Credits!CanCover(OrgOf[c], n)
  /\ dial' = [dial EXCEPT ![c] = "unpaid"]
  /\ UNCHANGED <<rowVars, creditVars, parked, peer, hook, media, asideVars,
                 carrierVars, crashes>>

(* `fail`: the row is overwritten whatever it says. *)
fail(c) == status' = [status EXCEPT ![c] = "failed"]

DialRefuse(c) ==
  /\ dial[c] = "unpaid"
  /\ fail(c)
  /\ dial' = [dial EXCEPT ![c] = "over"]
  /\ peer' = [peer EXCEPT ![c] = FALSE]
  /\ UNCHANGED <<answered, legs, consumed, creditVars, parked, hook, media,
                 asideVars, carrierVars, crashes>>

(* The answer of the carrier's API reached us. *)
DialRecord(c) ==
  /\ dial[c] = "placed"
  /\ status' = [status EXCEPT ![c] = "dialing"]
  /\ legs' = [legs EXCEPT ![c] = TRUE]
  /\ dial' = [dial EXCEPT ![c] = "over"]
  /\ UNCHANGED <<answered, consumed, creditVars, parked, peer, hook, media,
                 asideVars, carrierVars, crashes>>

DialFail(c) ==
  /\ dial[c] = "rejected"
  /\ fail(c)
  /\ dial' = [dial EXCEPT ![c] = "refunding"]
  /\ UNCHANGED <<answered, legs, consumed, creditVars, parked, peer, hook,
                 media, asideVars, carrierVars, crashes>>

(* Mutant: the parked leg is not discarded. *)
DialReleaseLeaks(c) ==
  /\ dial[c] = "refunding"
  /\ Credits!ReleaseIfHeld(c)
  /\ dial' = [dial EXCEPT ![c] = "over"]
  /\ peer' = [peer EXCEPT ![c] = FALSE]
  /\ UNCHANGED <<rowVars, parked, hook, media, asideVars, carrierVars,
                 crashes>>

DialRelease(c) ==
  /\ dial[c] = "refunding"
  /\ Credits!ReleaseIfHeld(c)
  /\ dial' = [dial EXCEPT ![c] = "over"]
  /\ parked' = [parked EXCEPT ![c] = FALSE]
  /\ peer' = [peer EXCEPT ![c] = FALSE]
  /\ UNCHANGED <<rowVars, hook, media, asideVars, carrierVars, crashes>>

(* Mutant: PeerGuard is disarmed before the request is through. *)
DialDbErrorUnguarded(c) ==
  /\ Faults
  /\ dial[c] \in {"admitted", "unpaid", "placed", "rejected", "refunding"}
  /\ dial' = [dial EXCEPT ![c] = "over"]
  /\ UNCHANGED <<rowVars, creditVars, parked, peer, hook, media, asideVars,
                 carrierVars, crashes>>

(* Any `?` of the request: PeerGuard takes the phone out of the room, and  *)
(* nothing else is undone.                                                 *)
DialDbError(c) ==
  /\ Faults
  /\ dial[c] \in {"admitted", "unpaid", "placed", "rejected", "refunding"}
  /\ dial' = [dial EXCEPT ![c] = "over"]
  /\ peer' = [peer EXCEPT ![c] = FALSE]
  /\ UNCHANGED <<rowVars, creditVars, parked, hook, media, asideVars,
                 carrierVars, crashes>>

-----------------------------------------------------------------------------
(* The carrier and the person who is called.                               *)

CarrierPlaces(c) ==
  /\ dial[c] = "reserved"
  /\ dial' = [dial EXCEPT ![c] = "placed"]
  /\ leg' = [leg EXCEPT ![c] = "ringing"]
  /\ inflight' = [inflight EXCEPT ![c] = @ \cup {"initiated"}]
  /\ UNCHANGED <<rowVars, creditVars, parked, peer, hook, media, asideVars,
                 stream, crashes>>

(* The request failed, or it was carried out and its answer was lost. *)
CarrierRejects(c) ==
  /\ dial[c] = "reserved" \/ (Faults /\ dial[c] = "placed")
  /\ dial' = [dial EXCEPT ![c] = "rejected"]
  /\ UNCHANGED <<rowVars, creditVars, parked, peer, hook, media, asideVars,
                 carrierVars, crashes>>

Answer(c) ==
  /\ leg[c] = "ringing"
  /\ leg' = [leg EXCEPT ![c] = "up"]
  /\ inflight' = [inflight EXCEPT ![c] = @ \cup {"answered"}]
  /\ UNCHANGED <<rowVars, creditVars, taskVars, stream, crashes>>

Down(c) ==
  /\ leg' = [leg EXCEPT ![c] = "down"]
  /\ inflight' = [inflight EXCEPT ![c] = @ \cup {"hangup"}]

(* Busy, rejected, no answer before the dial timeout. *)
RingEnds(c) ==
  /\ leg[c] = "ringing"
  /\ Down(c)
  /\ UNCHANGED <<rowVars, creditVars, taskVars, stream, crashes>>

FarHangup(c) ==
  /\ leg[c] = "up"
  /\ Down(c)
  /\ UNCHANGED <<rowVars, creditVars, taskVars, stream, crashes>>

(* provider.hangup, best effort: a leg that is gone is an error we ignore. *)
HangupLeg(c) ==
  \/ leg[c] \in {"ringing", "up"} /\ Down(c)
  \/ leg[c] \in {"none", "down"} /\ UNCHANGED <<leg, inflight>>
  \/ Faults /\ leg[c] \in {"ringing", "up"} /\ UNCHANGED <<leg, inflight>>

LoseWebhook(c, k) ==
  /\ LossyWebhooks
  /\ k \in inflight[c]
  /\ inflight' = [inflight EXCEPT ![c] = @ \ {k}]
  /\ UNCHANGED <<rowVars, creditVars, taskVars, leg, stream, crashes>>

-----------------------------------------------------------------------------
(* The webhook: one transaction (webhook.rs `apply`), then the follow-ups  *)
(* of routes.rs `inbound_webhook` in the same request.  Redelivery writes  *)
(* nothing (WebhookIngest), so a webhook leaves `inflight` once accepted.  *)

EventOf(k) == CASE k = "initiated"     -> "Dialed"
                [] k = "answered"      -> "Answered"
                [] k = "media_started" -> "MediaEstablished"
                [] k = "hangup"        -> "Hangup"

(* The settlement that commits with the terminal state. *)
Settle(c, after, cost) ==
  IF after = "completed"
  THEN /\ consumed' = [consumed EXCEPT ![c] = cost]
       /\ Credits!SettleIfHeld(c, cost)
  ELSE /\ consumed' = [consumed EXCEPT ![c] = 0]
       /\ Credits!ReleaseIfHeld(c)

(* A call without an answer time has no duration and owes nothing. *)
MayOwe(c) == IF answered[c] THEN Costs ELSE {0}

Deliver(c, k) ==
  LET after == next(status[c], EventOf(k))
  IN  /\ k \in inflight[c]
      /\ EarlyWebhooks \/ ~InFlight(c)
      /\ inflight' = [inflight EXCEPT ![c] = @ \ {k}]
      /\ legs' = [legs EXCEPT ![c] = TRUE]
      /\ status' = [status EXCEPT ![c] = IF after = NoMove THEN @ ELSE after]
      /\ answered' = [answered EXCEPT ![c] = @ \/ after = "answered"]
      /\ hook' = [hook EXCEPT ![c] =
                    @ \cup (IF after = "answered" THEN {"arm"} ELSE {})
                      \cup (IF is_terminal(after) THEN {"reclaim"} ELSE {})]
      /\ IF is_terminal(after)
         THEN \E cost \in MayOwe(c) : Settle(c, after, cost)
         ELSE UNCHANGED <<consumed, creditVars>>
      /\ UNCHANGED <<dial, parked, peer, media, asideVars, leg, stream,
                     crashes>>

(* arm_media: hand the carrier a ticket for the parked leg.  When the      *)
(* carrier will not stream, the leg and its peer are taken back.           *)
HookArm(c) ==
  /\ "arm" \in hook[c]
  /\ hook' = [hook EXCEPT ![c] = @ \ {"arm"}]
  /\ \/ /\ parked[c] /\ leg[c] = "up"
        /\ stream' = [stream EXCEPT ![c] = TRUE]
        /\ UNCHANGED <<parked, peer>>
     \/ /\ parked[c] /\ (leg[c] # "up" \/ Faults)
        /\ parked' = [parked EXCEPT ![c] = FALSE]
        /\ peer' = [peer EXCEPT ![c] = FALSE]
        /\ UNCHANGED stream
     \/ ~parked[c] /\ UNCHANGED <<parked, peer, stream>>
  /\ UNCHANGED <<rowVars, creditVars, dial, media, asideVars, leg, inflight,
                 crashes>>

(* `reclaim`: take a leg nobody claimed, and its peer with it. *)
Reclaim(c) ==
  /\ parked' = [parked EXCEPT ![c] = FALSE]
  /\ peer' = [peer EXCEPT ![c] = @ /\ ~parked[c]]

HookReclaim(c) ==
  /\ "reclaim" \in hook[c]
  /\ hook' = [hook EXCEPT ![c] = @ \ {"reclaim"}]
  /\ Reclaim(c)
  /\ UNCHANGED <<rowVars, creditVars, dial, media, asideVars, carrierVars,
                 crashes>>

-----------------------------------------------------------------------------
(* The media bridge, session.rs.                                           *)

(* The carrier opens our socket: the ticket is redeemed, the parked leg    *)
(* claimed, and the engine session opens or does not.                      *)
SocketOpens(c) ==
  /\ stream[c] /\ parked[c] /\ leg[c] = "up"
  /\ parked' = [parked EXCEPT ![c] = FALSE]
  /\ inflight' = [inflight EXCEPT ![c] = @ \cup {"media_started"}]
  /\ \/ media' = [media EXCEPT ![c] = "live"] /\ UNCHANGED peer
     \/ /\ media' = [media EXCEPT ![c] = "ending"]
        /\ peer' = [peer EXCEPT ![c] = FALSE]
  /\ UNCHANGED <<rowVars, creditVars, dial, hook, asideVars, leg, stream,
                 crashes>>

(* The carrier's side of the socket is gone, which may or may not be the   *)
(* end of the call: finish_after_pump waits for the hangup webhook.        *)
PumpProviderEnds(c) ==
  /\ media[c] = "live"
  /\ media' = [media EXCEPT ![c] = "grace"]
  /\ peer' = [peer EXCEPT ![c] = FALSE]
  /\ UNCHANGED <<rowVars, creditVars, dial, parked, hook, asideVars,
                 carrierVars, crashes>>

(* The peer was taken out of the room under an open socket. *)
PumpRoomEnds(c) ==
  /\ media[c] = "live" /\ ~peer[c]
  /\ media' = [media EXCEPT ![c] = "ending"]
  /\ emptied' = [emptied EXCEPT ![c] = TRUE]
  /\ UNCHANGED <<rowVars, creditVars, dial, parked, peer, hook, orphan,
                 reaping, carrierVars, crashes>>

(* A frame that does not parse or decode ends the bridge at once. *)
PumpFails(c) ==
  /\ media[c] = "live"
  /\ media' = [media EXCEPT ![c] = "ending"]
  /\ peer' = [peer EXCEPT ![c] = FALSE]
  /\ UNCHANGED <<rowVars, creditVars, dial, parked, hook, asideVars,
                 carrierVars, crashes>>

GraceSeesTerminal(c) ==
  /\ media[c] = "grace" /\ Ended(c)
  /\ media' = [media EXCEPT ![c] = "over"]
  /\ UNCHANGED <<rowVars, creditVars, dial, parked, peer, hook, asideVars,
                 carrierVars, crashes>>

GraceElapses(c) ==
  /\ media[c] = "grace" /\ ~Ended(c)
  /\ media' = [media EXCEPT ![c] = "ending"]
  /\ UNCHANGED <<rowVars, creditVars, dial, parked, peer, hook, asideVars,
                 carrierVars, crashes>>

(* Mutant: the database half of end_call without the carrier's. *)
EndWithoutHangup(c) ==
  /\ media[c] = "ending"
  /\ media' = [media EXCEPT ![c] = "hungup"]
  /\ UNCHANGED <<rowVars, creditVars, dial, parked, peer, hook, asideVars,
                 carrierVars, crashes>>

(* end_call, three steps with an await between each. *)
EndHangup(c) ==
  /\ media[c] = "ending"
  /\ media' = [media EXCEPT ![c] = "hungup"]
  /\ IF legs[c] /\ ~Ended(c) THEN HangupLeg(c) ELSE UNCHANGED <<leg, inflight>>
  /\ UNCHANGED <<rowVars, creditVars, dial, parked, peer, hook, asideVars,
                 stream, crashes>>

(* Mutant: the UPDATE without `status NOT IN ('completed', 'failed')`. *)
EndMarkUnguarded(c) ==
  /\ media[c] = "hungup"
  /\ status' = [status EXCEPT ![c] = "failed"]
  /\ media' = [media EXCEPT ![c] = "marked"]
  /\ UNCHANGED <<answered, legs, consumed, creditVars, dial, parked, peer,
                 hook, asideVars, carrierVars, crashes>>

EndMark(c) ==
  /\ media[c] = "hungup" /\ ~Ended(c)
  /\ status' = [status EXCEPT ![c] = "failed"]
  /\ media' = [media EXCEPT ![c] = "marked"]
  /\ UNCHANGED <<answered, legs, consumed, creditVars, dial, parked, peer,
                 hook, asideVars, carrierVars, crashes>>

(* Somebody else ended the call, or the UPDATE failed and was logged. *)
EndSkips(c) ==
  /\ media[c] = "hungup" /\ (Ended(c) \/ Faults)
  /\ media' = [media EXCEPT ![c] = "over"]
  /\ UNCHANGED <<rowVars, creditVars, dial, parked, peer, hook, asideVars,
                 carrierVars, crashes>>

(* Mutant: the hold is given back without looking at its row. *)
EndRefunds(c) ==
  /\ media[c] = "marked"
  /\ balance' = [balance EXCEPT ![OrgOf[c]] = @ + hold[c].held]
  /\ media' = [media EXCEPT ![c] = "over"]
  /\ UNCHANGED <<rowVars, hold, ledger, owed, other, grants, dial, parked,
                 peer, hook, asideVars, carrierVars, crashes>>

EndRelease(c) ==
  /\ media[c] = "marked"
  /\ Credits!ReleaseIfHeld(c)
  /\ media' = [media EXCEPT ![c] = "over"]
  /\ UNCHANGED <<rowVars, dial, parked, peer, hook, asideVars, carrierVars,
                 crashes>>

-----------------------------------------------------------------------------
(* The people in the room.                                                 *)

(* routes.rs `hangup`: only asks the carrier. *)
RequestHangup(c) ==
  /\ legs[c] /\ leg[c] \in {"ringing", "up"}
  /\ HangupLeg(c)
  /\ UNCHANGED <<rowVars, creditVars, taskVars, stream, crashes>>

(* The last human left and did not come back within PHONE_ORPHAN_GRACE:    *)
(* end_orphaned_phone_room drops the room, and the phone peer with it.     *)
RoomOrphaned(c) ==
  /\ peer[c] /\ dial[c] = "over"
  /\ peer' = [peer EXCEPT ![c] = FALSE]
  /\ orphan' = [orphan EXCEPT ![c] = TRUE]
  /\ UNCHANGED <<rowVars, creditVars, dial, parked, hook, media, reaping,
                 emptied, carrierVars, crashes>>

hangup_orphaned_leg(c) ==
  /\ orphan[c]
  /\ orphan' = [orphan EXCEPT ![c] = FALSE]
  /\ IF legs[c] /\ ~Ended(c) THEN HangupLeg(c) ELSE UNCHANGED <<leg, inflight>>
  /\ UNCHANGED <<rowVars, creditVars, dial, parked, peer, hook, media,
                 reaping, emptied, stream, crashes>>

-----------------------------------------------------------------------------
(* The sweeps, webhook.rs `run_sweep`.                                     *)

(* Mutant: a row the carrier was never asked about is not stalled. *)
StalledOnceDialled(c) ==
  /\ status[c] \in {"dialing", "ringing"} /\ ~answered[c]
  /\ ~InFlight(c) /\ leg[c] # "ringing" /\ inflight[c] = {}

(* STALL_GRACE_SECS is longer than a dial request, than the carrier's ring *)
(* timeout and than the delay of a webhook that does come.                 *)
Stalled(c) ==
  /\ status[c] \in {"created", "dialing", "ringing"} /\ ~answered[c]
  /\ ~InFlight(c) /\ leg[c] # "ringing" /\ inflight[c] = {}

fail_stalled_calls(c) ==
  /\ Stalled(c)
  /\ status' = [status EXCEPT ![c] = "failed"]
  /\ Reclaim(c)
  /\ UNCHANGED <<answered, legs, consumed, creditVars, dial, hook, media,
                 asideVars, carrierVars, crashes>>

settle_finished_calls(c) ==
  /\ Ended(c) /\ hold[c].state = "held"
  /\ IF status[c] = "completed" THEN Credits!settle(c, consumed[c])
     ELSE Credits!release(c)
  /\ UNCHANGED <<rowVars, taskVars, carrierVars, crashes>>

(* reap_overrunning_calls: a call past its maximum length has its legs     *)
(* hung up, and the row says afterwards that this was asked for.           *)
ReapHangup(c) ==
  /\ status[c] \in {"answered", "bridged", "ending"} /\ answered[c]
  /\ ~reaping[c]
  /\ reaping' = [reaping EXCEPT ![c] = TRUE]
  /\ IF legs[c] THEN HangupLeg(c) ELSE UNCHANGED <<leg, inflight>>
  /\ UNCHANGED <<rowVars, creditVars, dial, parked, peer, hook, media,
                 orphan, emptied, stream, crashes>>

(* Mutant: the UPDATE without `status IN ('answered', 'bridged')`. *)
ReapMarkUnguarded(c) ==
  /\ reaping[c]
  /\ reaping' = [reaping EXCEPT ![c] = FALSE]
  /\ status' = [status EXCEPT ![c] = "ending"]
  /\ UNCHANGED <<answered, legs, consumed, creditVars, dial, parked, peer,
                 hook, media, orphan, emptied, carrierVars, crashes>>

(* The hangup webhook may have been applied in the meantime. *)
ReapMark(c) ==
  /\ reaping[c]
  /\ reaping' = [reaping EXCEPT ![c] = FALSE]
  /\ status' = [status EXCEPT ![c] =
                  IF @ \in {"answered", "bridged"} THEN "ending" ELSE @]
  /\ UNCHANGED <<answered, legs, consumed, creditVars, dial, parked, peer,
                 hook, media, orphan, emptied, carrierVars, crashes>>

-----------------------------------------------------------------------------
(* A restart: every task, the room and LiveCalls are gone.  The carrier    *)
(* does not notice.                                                        *)
Crash ==
  /\ crashes < MaxCrashes
  /\ crashes' = crashes + 1
  /\ dial' = [c \in Calls |-> IF dial[c] = "idle" THEN "idle" ELSE "over"]
  /\ parked' = [c \in Calls |-> FALSE]
  /\ peer' = [c \in Calls |-> FALSE]
  /\ hook' = [c \in Calls |-> {}]
  /\ media' = [c \in Calls |-> IF media[c] = "none" THEN "none" ELSE "over"]
  /\ orphan' = [c \in Calls |-> FALSE]
  /\ reaping' = [c \in Calls |-> FALSE]
  /\ UNCHANGED <<emptied, rowVars, creditVars, carrierVars>>

(* The other features of the organisation spend from the same pool. *)
OtherCharge(o, n) ==
  /\ Credits!OtherCharge(o, n)
  /\ UNCHANGED <<rowVars, taskVars, carrierVars, crashes>>
-----------------------------------------------------------------------------
Dialling(c) ==
  \/ DialAdmit(c)
  \/ \E n \in Quotes : DialReserve(c, n) \/ DialUnpaid(c, n)
  \/ DialRefuse(c) \/ DialRecord(c) \/ DialFail(c) \/ DialRelease(c)
  \/ DialDbError(c)

Carrier(c) ==
  \/ CarrierPlaces(c) \/ CarrierRejects(c)
  \/ Answer(c) \/ RingEnds(c) \/ FarHangup(c)

Webhook(c) ==
  \/ \E k \in inflight[c] : Deliver(c, k) \/ LoseWebhook(c, k)
  \/ HookArm(c) \/ HookReclaim(c)

Bridge(c) ==
  \/ SocketOpens(c)
  \/ PumpProviderEnds(c) \/ PumpRoomEnds(c) \/ PumpFails(c)
  \/ GraceSeesTerminal(c) \/ GraceElapses(c)
  \/ EndHangup(c) \/ EndMark(c) \/ EndSkips(c) \/ EndRelease(c)

Room(c) == RequestHangup(c) \/ RoomOrphaned(c) \/ hangup_orphaned_leg(c)

Sweep(c) ==
  \/ fail_stalled_calls(c)
  \/ settle_finished_calls(c)
  \/ ReapHangup(c) \/ ReapMark(c)

Next ==
  \/ \E c \in Calls : \/ Dialling(c) \/ Carrier(c) \/ Webhook(c) \/ Bridge(c)
                      \/ Room(c) \/ Sweep(c)
  \/ \E o \in Orgs, n \in Amounts : OtherCharge(o, n)
  \/ Crash

Spec == Init /\ [][Next]_vars

(* What the scheduling of the code and the carrier guarantee: a task that   *)
(* can go on goes on, the sweeps come round, the carrier answers a request *)
(* and gives up a ring, and it delivers the webhooks it does not lose.     *)
(* Nobody has to dial, answer, hang up or connect a media socket.          *)
Fairness ==
  \A c \in Calls :
    /\ WF_vars(\/ \E n \in Quotes : DialReserve(c, n) \/ DialUnpaid(c, n)
               \/ DialRefuse(c) \/ DialRecord(c) \/ DialFail(c)
               \/ DialRelease(c))
    /\ WF_vars(CarrierPlaces(c) \/ CarrierRejects(c))
    /\ WF_vars(RingEnds(c))
    /\ \A k \in {"initiated", "answered", "media_started", "hangup"} :
         WF_vars(Deliver(c, k))
    /\ WF_vars(HookArm(c)) /\ WF_vars(HookReclaim(c))
    /\ WF_vars(PumpRoomEnds(c) \/ (leg[c] = "down" /\ PumpProviderEnds(c)))
    /\ WF_vars(GraceSeesTerminal(c) \/ GraceElapses(c))
    /\ WF_vars(EndHangup(c) \/ EndMark(c) \/ EndSkips(c) \/ EndRelease(c))
    /\ WF_vars(hangup_orphaned_leg(c))
    /\ WF_vars(fail_stalled_calls(c))
    /\ WF_vars(settle_finished_calls(c))
    /\ WF_vars(ReapHangup(c) \/ ReapMark(c))

FairSpec == Spec /\ Fairness

-----------------------------------------------------------------------------
(* Every variable has its type; the money's types are those of CreditHold. *)
TypeOK ==
  /\ status \in [Calls -> CallStates \cup {"absent"}]
  /\ answered \in [Calls -> BOOLEAN]
  /\ legs \in [Calls -> BOOLEAN]
  /\ consumed \in [Calls -> Costs]
  /\ Credits!TypeOK
  /\ dial \in [Calls -> DialSteps]
  /\ parked \in [Calls -> BOOLEAN]
  /\ peer \in [Calls -> BOOLEAN]
  /\ hook \in [Calls -> SUBSET {"arm", "reclaim"}]
  /\ media \in [Calls -> MediaSteps]
  /\ orphan \in [Calls -> BOOLEAN]
  /\ reaping \in [Calls -> BOOLEAN]
  /\ emptied \in [Calls -> BOOLEAN]
  /\ leg \in [Calls -> {"none", "ringing", "up", "down"}]
  /\ stream \in [Calls -> BOOLEAN]
  /\ inflight \in [Calls -> SUBSET {"initiated", "answered", "media_started",
                                   "hangup"}]
  /\ crashes \in Nat

(* The dial, the webhooks, the bridge and the sweeps move the money of a   *)
(* call only as CreditHold allows, whatever order they come in.            *)
CreditsRefined == Credits!Spec

(* "Checked against counts read inside the lock": no interleaving of dials *)
(* and endings lets more calls be live than the caps allow.                *)
CapsHold ==
  /\ \A c \in Calls : /\ LiveAmong(SameUser(c)) <= MaxPerUser
                      /\ LiveAmong(SameOrg(c)) <= MaxPerOrg
  /\ LiveAmong(Calls) <= MaxGlobal

(* Monotonic and Absorbing of state.rs, for every writer of the row and    *)
(* not only for `next`.                                                    *)
LifecycleNeverTurnsBack ==
  [][\A c \in Calls :
       status[c] # "absent" =>
         /\ status'[c] # "absent" /\ rank(status'[c]) >= rank(status[c])
         /\ Ended(c) => status'[c] = status[c]]_vars

(* The row and the hold agree: a hold is only closed for a call that is    *)
(* over, only a completed call that was answered pays, and it pays what    *)
(* the row says it consumed.                                               *)
HoldFollowsRow ==
  \A c \in Calls :
    /\ hold[c].state \in {"settled", "released"} => Ended(c)
    /\ hold[c].state = "settled" => status[c] = "completed"
    /\ status[c] = "completed" => hold[c].state # "released"
                                /\ owed[c] = consumed[c]
    /\ hold[c].settled > 0 => answered[c]

(* Nothing a call keeps in memory outlives it: a phone peer or a parked    *)
(* leg belongs to a request, a bridge or a call that somebody will still   *)
(* take out of the room.                                                   *)
PhoneLegHasAnOwner ==
  \A c \in Calls :
    peer[c] \/ parked[c] =>
      InFlight(c) \/ media[c] = "live" \/ "reclaim" \in hook[c]
        \/ (parked[c] /\ ~Ended(c))

(* Whatever statements and requests fail, the phone is taken out of the    *)
(* room, and what outlives a call is a parked leg at most, of a call its   *)
(* dial request failed: the refund that fails returns before live.discard. *)
LeaksAreBare ==
  \A c \in Calls :
    /\ peer[c] => \/ InFlight(c) \/ media[c] = "live" \/ "reclaim" \in hook[c]
                  \/ parked[c] /\ ~Ended(c)
    /\ parked[c] => \/ InFlight(c) \/ "reclaim" \in hook[c] \/ ~Ended(c)
                    \/ status[c] = "failed" /\ ~peer[c] /\ media[c] = "none"

(* The carrier is never left billing for a call that our records say is    *)
(* over.                                                                   *)
NoLegBehindAFinishedCall ==
  \A c \in Calls : leg[c] \in {"ringing", "up"} => ~Ended(c)

(* "this only REQUESTS the hangup [...] marking it `failed` here [...]      *)
(* would reintroduce the same bug: a call that ran a normal duration       *)
(* recorded as failed and unbilled" (session.rs:760-764): a conversation   *)
(* whose room was dropped is not marked failed by the bridge it leaves.    *)
RoomEndIsAHangup ==
  [][\A c \in Calls :
       emptied[c] /\ status[c] \in {"answered", "bridged", "ending"} =>
         status'[c] # "failed"]_vars

(* Every call that was admitted ends, and the customer's credits are not   *)
(* held for ever: through rejected dials, unanswered rings, media that     *)
(* dies, rooms left empty and a restart at any point.                      *)
CallSettles ==
  \A c \in Calls :
    (status[c] # "absent") ~> (Ended(c) /\ hold[c].state # "held")
=============================================================================
