--------------------------- MODULE VoipCallProofs ---------------------------
(***************************************************************************)
(* Theorems about the telephone call, for any number of calls, users and   *)
(* organisations.                                                          *)
(***************************************************************************)
EXTENDS VoipCall, CallStateProofs, FiniteSetTheorems

(* What a call consumed is one of the costs it may have had. *)
ConsumedOK == consumed \in [Calls -> Costs]

(* A settlement is a step of CreditHold, or none when the hold is closed. *)
LEMMA SettleIsCredit ==
  ASSUME ConsumedOK, NEW c \in Calls, NEW after, NEW cost \in Costs,
         Settle(c, after, cost)
  PROVE  /\ [Credits!Next]_creditVars
         /\ ConsumedOK'
<1>1. 0 \in Costs
  BY VoipAssumption
<1>2. ConsumedOK'
  BY <1>1 DEF Settle, ConsumedOK
<1>3. [Credits!Next]_creditVars
  BY DEF Settle, Credits!SettleIfHeld, Credits!ReleaseIfHeld, Credits!Next,
         Credits!creditVars, creditVars
<1> QED BY <1>2, <1>3

-----------------------------------------------------------------------------
(* Every step of the call is a step of the credits.                        *)

CreditStep == [Credits!Next]_creditVars /\ ConsumedOK'

(* A step that leaves the credits alone. *)
LEMMA QuietStep ==
  ASSUME ConsumedOK, UNCHANGED <<consumed, creditVars>>
  PROVE  CreditStep
  BY DEF CreditStep, ConsumedOK

(* A hold that is closed if it is still open (release_tx). *)
LEMMA ReleaseStep ==
  ASSUME ConsumedOK, NEW c \in Calls, Credits!ReleaseIfHeld(c),
         UNCHANGED consumed
  PROVE  CreditStep
  BY DEF CreditStep, ConsumedOK, Credits!ReleaseIfHeld, Credits!Next,
         Credits!creditVars, creditVars

(* `dial` takes one hold, and gives it back when the carrier refuses. *)
LEMMA DiallingIsCredit ==
  ASSUME ConsumedOK, NEW c \in Calls, Dialling(c)
  PROVE  CreditStep
<1>1. CASE DialAdmit(c) \/ DialRefuse(c) \/ DialRecord(c) \/ DialFail(c)
           \/ DialDbError(c) \/ (\E n \in Quotes : DialUnpaid(c, n))
  BY <1>1, QuietStep DEF DialAdmit, DialRefuse, DialRecord, DialFail,
     DialDbError, DialUnpaid, rowVars
<1>2. CASE \E n \in Quotes : DialReserve(c, n)
  BY <1>2 DEF DialReserve, CreditStep, ConsumedOK, Credits!Next, rowVars
<1>3. CASE DialRelease(c)
  BY <1>3, ReleaseStep DEF DialRelease, rowVars
<1> QED BY <1>1, <1>2, <1>3 DEF Dialling

(* The carrier and the people in the room move no money. *)
LEMMA CarrierIsCredit ==
  ASSUME ConsumedOK, NEW c \in Calls, Carrier(c) \/ Room(c)
  PROVE  CreditStep
  BY QuietStep DEF Carrier, CarrierPlaces, CarrierRejects, Answer, RingEnds,
     FarHangup, Room, RequestHangup, RoomOrphaned, hangup_orphaned_leg, rowVars

(* A terminal webhook settles or releases; every other moves no money. *)
LEMMA WebhookIsCredit ==
  ASSUME ConsumedOK, NEW c \in Calls, Webhook(c)
  PROVE  CreditStep
<1>1. CASE \E k \in inflight[c] : Deliver(c, k)
  <2> PICK k \in inflight[c] : Deliver(c, k)
    BY <1>1
  <2> DEFINE after == next(status[c], EventOf(k))
  <2>1. CASE is_terminal(after)
    <3>1. PICK cost \in MayOwe(c) : Settle(c, after, cost)
      BY <2>1 DEF Deliver
    <3>2. cost \in Costs
      BY <3>1, VoipAssumption DEF MayOwe
    <3> QED BY <3>1, <3>2, SettleIsCredit DEF CreditStep
  <2>2. CASE ~is_terminal(after)
    BY <2>2, QuietStep DEF Deliver
  <2> QED BY <2>1, <2>2
<1>2. CASE (\E k \in inflight[c] : LoseWebhook(c, k)) \/ HookArm(c)
           \/ HookReclaim(c)
  BY <1>2, QuietStep DEF LoseWebhook, HookArm, HookReclaim, rowVars
<1> QED BY <1>1, <1>2 DEF Webhook

(* Only the last step of `end_call` moves money. *)
LEMMA BridgeIsCredit ==
  ASSUME ConsumedOK, NEW c \in Calls, Bridge(c)
  PROVE  CreditStep
<1>1. CASE SocketOpens(c) \/ PumpProviderEnds(c) \/ PumpRoomEnds(c)
           \/ PumpFails(c)
           \/ GraceSeesTerminal(c) \/ GraceElapses(c) \/ EndHangup(c)
           \/ EndMark(c) \/ EndSkips(c)
  BY <1>1, QuietStep DEF SocketOpens, PumpProviderEnds, PumpRoomEnds,
     PumpFails, GraceSeesTerminal, GraceElapses, EndHangup, EndMark, EndSkips,
     rowVars
<1>2. CASE EndRelease(c)
  BY <1>2, ReleaseStep DEF EndRelease, rowVars
<1> QED BY <1>1, <1>2 DEF Bridge

(* Only settle_finished_calls moves money. *)
LEMMA SweepIsCredit ==
  ASSUME ConsumedOK, NEW c \in Calls, Sweep(c)
  PROVE  CreditStep
<1>1. CASE fail_stalled_calls(c) \/ ReapHangup(c) \/ ReapMark(c)
  BY <1>1, QuietStep DEF fail_stalled_calls, ReapHangup, ReapMark, rowVars
<1>2. CASE settle_finished_calls(c)
  <2>1. consumed[c] \in Costs
    BY DEF ConsumedOK
  <2> QED BY <1>2, <2>1 DEF settle_finished_calls, CreditStep, ConsumedOK,
             Credits!Next, rowVars
<1> QED BY <1>1, <1>2 DEF Sweep

(* Every step, a restart included. *)
LEMMA StepIsCredit == ConsumedOK /\ [Next]_vars => CreditStep
<1> SUFFICES ASSUME ConsumedOK, [Next]_vars PROVE CreditStep
  OBVIOUS
<1>1. ASSUME NEW c \in Calls,
             \/ Dialling(c) \/ Carrier(c) \/ Webhook(c) \/ Bridge(c)
             \/ Room(c) \/ Sweep(c)
      PROVE  CreditStep
  BY <1>1, DiallingIsCredit, CarrierIsCredit, WebhookIsCredit,
     BridgeIsCredit, SweepIsCredit
<1>2. ASSUME NEW o \in Orgs, NEW n \in Amounts, OtherCharge(o, n)
      PROVE  CreditStep
  BY <1>2 DEF OtherCharge, CreditStep, ConsumedOK, Credits!Next, rowVars
<1>3. CASE Crash
  BY <1>3, QuietStep DEF Crash, rowVars
<1>4. CASE UNCHANGED vars
  BY <1>4, QuietStep DEF vars, rowVars
<1> QED BY <1>1, <1>2, <1>3, <1>4 DEF Next

(* The dial, the webhooks, the bridge, the sweeps and a restart move a     *)
(* call's money only as CreditHold allows: the detailed specification      *)
(* implements the credit one.                                              *)
THEOREM CreditsAlwaysRefined == Spec => CreditsRefined
<1>1. Init => Credits!Init /\ ConsumedOK
  BY VoipAssumption DEF Init, ConsumedOK
<1>2. ConsumedOK /\ [Next]_vars
        => [Credits!Next]_(Credits!creditVars) /\ ConsumedOK'
  BY StepIsCredit DEF CreditStep, creditVars, Credits!creditVars
<1> QED BY <1>1, <1>2, PTL DEF Spec, CreditsRefined, Credits!Spec

-----------------------------------------------------------------------------
(* Types.  Those of the credits come from CreditHoldProofs, through the    *)
(* refinement; the rest is an invariant of its own.                        *)

Holds == INSTANCE CreditHoldProofs

(* The credits of the calls are an instance of what CreditHoldProofs is    *)
(* about: its lemmas say something of the actions of this module.          *)
LEMMA CreditsAreHolds ==
  /\ Holds!CreditAssumption
  /\ Credits!Init => Holds!Init
  /\ [Credits!Next]_(Credits!creditVars) => [Holds!Next]_(Holds!creditVars)
<1>1. Holds!CreditAssumption
  BY VoipAssumption, ZenonT(60)
  DEF Holds!CreditAssumption, Holds!IsFiniteSet, IsFiniteSet
<1>2. Credits!Init => Holds!Init
  BY ZenonT(60) DEF Credits!Init, Holds!Init, Holds!NoHold,
                     Credits!NoHold
<1>3. [Credits!Next]_(Credits!creditVars) => [Holds!Next]_(Holds!creditVars)
  BY DEF Credits!creditVars, Holds!creditVars, Credits!Next, Holds!Next,
    Credits!Reserve, Holds!Reserve, Credits!CanCover, Holds!CanCover,
    Credits!OpenHold, Holds!OpenHold, Credits!settle, Holds!settle,
    Credits!release, Holds!release, Credits!Close, Holds!Close,
    Credits!Open, Holds!Open, Credits!Least, Holds!Least,
    Credits!ChargeFor, Holds!ChargeFor, Credits!OtherCharge,
    Holds!OtherCharge, Credits!OtherGrant, Holds!OtherGrant
<1> QED BY <1>1, <1>2, <1>3

(* What the credit invariant says holds of the credits of the calls.       *)
THEOREM CreditInvariant == Spec => []Holds!HoldInv
<1>1. Credits!Init => Holds!HoldInv
  BY CreditsAreHolds, Holds!HoldInit
<1>2. Holds!HoldInv /\ [Credits!Next]_(Credits!creditVars) => Holds!HoldInv'
  BY CreditsAreHolds, Holds!HoldStep
<1> QED BY <1>1, <1>2, CreditsAlwaysRefined, PTL
        DEF CreditsRefined, Credits!Spec

(* The dial, the webhooks, the bridge, the sweeps and a restart together   *)
(* neither create credits nor lose any: what an organisation had is in its *)
(* pool, in the open hold of a call, or was settled for one.               *)
THEOREM CallsConserveCredits == Spec => []Holds!CreditsConserved
<1>1. Credits!Init => Holds!PoolInv
  BY CreditsAreHolds, Holds!PoolInit
<1>2. Holds!PoolInv /\ [Credits!Next]_(Credits!creditVars) => Holds!PoolInv'
  BY CreditsAreHolds, Holds!PoolStep
<1>3. Holds!PoolInv => Holds!CreditsConserved
  BY CreditsAreHolds, Holds!PoolConserves
<1> QED BY <1>1, <1>2, <1>3, CreditsAlwaysRefined, PTL
        DEF CreditsRefined, Credits!Spec

(* Three layers: the call implements the credits and the credits implement *)
(* the prepaid account, so that a call is billed once and with nobody      *)
(* else's hold, whichever of the five writers gets to it first.            *)
THEOREM CallsArePrepaid == Spec => Holds!PrepaidAccountRefined
<1>1. Credits!Init => Holds!Account!Init
  BY CreditsAreHolds, Holds!AccountInit
<1>2. Holds!HoldInv /\ [Credits!Next]_(Credits!creditVars)
        => [Holds!Account!Next]_(Holds!Account!accountVars)
  BY CreditsAreHolds, Holds!AccountStep
<1> QED BY <1>1, <1>2, CreditInvariant, CreditsAlwaysRefined, PTL
        DEF CreditsRefined, Credits!Spec, Holds!PrepaidAccountRefined,
            Holds!Account!Spec

(* A call is settled or refunded once: whichever of the webhook, the       *)
(* bridge, the dial request and the sweep closes its hold, nobody moves    *)
(* that hold or its money again, with early webhooks and restarts too.     *)
THEOREM CallsPayOnce == Spec => Holds!ClosedStaysClosed
<1>1. Holds!HoldInv /\ [Credits!Next]_(Credits!creditVars)
        => [Holds!ClosedStays]_(Holds!creditVars)
  BY CreditsAreHolds, Holds!ClosedStep
<1> QED BY <1>1, CreditInvariant, CreditsAlwaysRefined, PTL
        DEF CreditsRefined, Credits!Spec, Holds!ClosedStaysClosed,
            Holds!ClosedStays

(* A call that used more than was held for it takes what its organisation  *)
(* has left before anything of it is written off.                          *)
THEOREM CallsDrainThePool == Spec => Holds!ShortfallDrainsPool
<1>1. Holds!HoldInv /\ [Credits!Next]_(Credits!creditVars)
        => [Holds!Drains]_(Holds!creditVars)
  BY CreditsAreHolds, Holds!DrainStep
<1> QED BY <1>1, CreditInvariant, CreditsAlwaysRefined, PTL
        DEF CreditsRefined, Credits!Spec, Holds!ShortfallDrainsPool,
            Holds!Drains

Wires == {"initiated", "answered", "media_started", "hangup"}

Types ==
  /\ status \in [Calls -> CallStates \cup {"absent"}]
  /\ answered \in [Calls -> BOOLEAN]
  /\ legs \in [Calls -> BOOLEAN]
  /\ dial \in [Calls -> DialSteps]
  /\ parked \in [Calls -> BOOLEAN]
  /\ peer \in [Calls -> BOOLEAN]
  /\ hook \in [Calls -> SUBSET {"arm", "reclaim"}]
  /\ media \in [Calls -> MediaSteps]
  /\ orphan \in [Calls -> BOOLEAN]
  /\ reaping \in [Calls -> BOOLEAN]
  /\ emptied \in [Calls -> BOOLEAN]
  /\ leg \in [Calls -> {"none", "ringing", "up", "down"}]
  /\ stream \in [Calls -> BOOLEAN]
  /\ inflight \in [Calls -> SUBSET Wires]
  /\ crashes \in Nat

(* An event never asks for anything but a state of the enum. *)
LEMMA NextState ==
  ASSUME NEW s, NEW v \in CallEvents, next(s, v) # NoMove
  PROVE  next(s, v) \in CallStates
<1>1. Candidate(v) \in CallStates
  BY DEF Candidate, CallStates, CallEvents
<1>2. {"completed", "failed"} \subseteq CallStates
  BY DEF CallStates
<1> QED BY <1>1, <1>2 DEF next

(* Every webhook the carrier emits here is of the lifecycle. *)
LEMMA EventIsEvent ==
  ASSUME NEW k \in Wires
  PROVE  EventOf(k) \in CallEvents
  BY DEF Wires, EventOf, CallEvents

(* Only a hangup ends a call by itself. *)
LEMMA HangupAlone ==
  ASSUME NEW s \in CallStates, NEW k \in Wires,
         is_terminal(next(s, EventOf(k)))
  PROVE  k = "hangup"
  BY DEF Wires, EventOf, next, Candidate, is_terminal, NoMove

(* Types, step by step: the dial request. *)
LEMMA DiallingTypes ==
  ASSUME Types, NEW c \in Calls, Dialling(c)
  PROVE  Types'
<1> USE DEF Types, DialSteps, CallStates, rowVars, carrierVars, asideVars
<1>1. CASE DialAdmit(c)
  BY <1>1 DEF DialAdmit
<1>2. ASSUME NEW n \in Quotes, DialReserve(c, n) PROVE Types'
  BY <1>2 DEF DialReserve
<1>3. ASSUME NEW n \in Quotes, DialUnpaid(c, n) PROVE Types'
  BY <1>3 DEF DialUnpaid
<1>4. CASE DialRefuse(c)
  BY <1>4 DEF DialRefuse, fail
<1>5. CASE DialFail(c)
  BY <1>5 DEF DialFail, fail
<1>6. CASE DialRecord(c)
  BY <1>6 DEF DialRecord
<1>7. CASE DialRelease(c)
  BY <1>7 DEF DialRelease
<1>8. CASE DialDbError(c)
  BY <1>8 DEF DialDbError
<1> QED BY <1>1, <1>2, <1>3, <1>4, <1>5, <1>6, <1>7, <1>8 DEF Dialling

(* A hangup request, whatever the carrier makes of it. *)
LEMMA HangupTypes ==
  ASSUME Types, NEW c \in Calls, HangupLeg(c) \/ UNCHANGED <<leg, inflight>>
  PROVE  /\ leg' \in [Calls -> {"none", "ringing", "up", "down"}]
         /\ inflight' \in [Calls -> SUBSET Wires]
  BY DEF HangupLeg, Down, Types, Wires

(* The carrier and the people in the room. *)
LEMMA CarrierTypes ==
  ASSUME Types, NEW c \in Calls, Carrier(c) \/ Room(c)
  PROVE  Types'
<1>2. CASE Carrier(c)
  BY <1>2 DEF Types, Carrier, CarrierPlaces, CarrierRejects, Answer, RingEnds,
     FarHangup, Down, DialSteps, Wires, rowVars, taskVars, carrierVars,
     asideVars
<1>3. CASE RequestHangup(c) \/ hangup_orphaned_leg(c)
  <2>1. HangupLeg(c) \/ UNCHANGED <<leg, inflight>>
    BY <1>3 DEF RequestHangup, hangup_orphaned_leg
  <2>2. /\ leg' \in [Calls -> {"none", "ringing", "up", "down"}]
        /\ inflight' \in [Calls -> SUBSET Wires]
    BY <2>1, HangupTypes
  <2>3. CASE RequestHangup(c)
    BY <2>2, <2>3 DEF Types, RequestHangup, rowVars, taskVars, asideVars
  <2>4. CASE hangup_orphaned_leg(c)
    BY <2>2, <2>4 DEF Types, hangup_orphaned_leg, rowVars, taskVars,
                      asideVars
  <2> QED BY <1>3, <2>3, <2>4
<1>4. CASE RoomOrphaned(c)
  BY <1>4 DEF Types, RoomOrphaned, rowVars, carrierVars
<1> QED BY <1>2, <1>3, <1>4 DEF Room

(* The webhook transaction and its follow-ups. *)
LEMMA WebhookTypes ==
  ASSUME Types, NEW c \in Calls, Webhook(c)
  PROVE  Types'
<1>1. CASE \E k \in inflight[c] : Deliver(c, k)
  <2> PICK k \in inflight[c] : Deliver(c, k)
    BY <1>1
  <2> DEFINE after == next(status[c], EventOf(k))
  <2>1. after = NoMove \/ after \in CallStates
    BY NextState, EventIsEvent DEF Types
  <2> HIDE DEF after
  <2>2. status' = [status EXCEPT ![c] = IF after = NoMove THEN @ ELSE after]
    BY DEF Deliver, after
  <2>3. status' \in [Calls -> CallStates \cup {"absent"}]
    BY <2>1, <2>2 DEF Types
  <2>4. hook' \in [Calls -> SUBSET {"arm", "reclaim"}]
    BY DEF Deliver, Types
  <2>5. answered' \in [Calls -> BOOLEAN]
    BY DEF Deliver, Types
  <2>6. inflight' \in [Calls -> SUBSET Wires] /\ legs' \in [Calls -> BOOLEAN]
    BY DEF Deliver, Types
  <2> QED BY <2>3, <2>4, <2>5, <2>6 DEF Deliver, Types, asideVars
<1>2. CASE \E k \in inflight[c] : LoseWebhook(c, k)
  BY <1>2 DEF LoseWebhook, Types, rowVars, taskVars, asideVars
<1>3. CASE HookArm(c)
  <2>1. /\ parked' \in [Calls -> BOOLEAN]
        /\ peer' \in [Calls -> BOOLEAN]
        /\ stream' \in [Calls -> BOOLEAN]
    BY <1>3 DEF HookArm, Types
  <2>2. hook' \in [Calls -> SUBSET {"arm", "reclaim"}]
    BY <1>3 DEF HookArm, Types
  <2> QED BY <1>3, <2>1, <2>2 DEF HookArm, Types, rowVars, asideVars
<1>4. CASE HookReclaim(c)
  <2>1. /\ parked' \in [Calls -> BOOLEAN]
        /\ peer' \in [Calls -> BOOLEAN]
    BY <1>4, ZenonT(30) DEF HookReclaim, Reclaim, Types
  <2>2. hook' \in [Calls -> SUBSET {"arm", "reclaim"}]
    BY <1>4 DEF HookReclaim, Types
  <2> QED BY <1>4, <2>1, <2>2 DEF HookReclaim, Types, rowVars, asideVars,
             carrierVars
<1> QED BY <1>1, <1>2, <1>3, <1>4 DEF Webhook

(* The media bridge. *)
LEMMA BridgeTypes ==
  ASSUME Types, NEW c \in Calls, Bridge(c)
  PROVE  Types'
<1>1. CASE EndHangup(c)
  <2>1. HangupLeg(c) \/ UNCHANGED <<leg, inflight>>
    BY <1>1 DEF EndHangup
  <2>2. /\ leg' \in [Calls -> {"none", "ringing", "up", "down"}]
        /\ inflight' \in [Calls -> SUBSET Wires]
    BY <2>1, HangupTypes
  <2> QED BY <1>1, <2>2 DEF EndHangup, Types, MediaSteps, rowVars, asideVars
<1>2. CASE EndMark(c)
  BY <1>2 DEF EndMark, Types, MediaSteps, CallStates, asideVars, carrierVars
<1>3. CASE SocketOpens(c)
  <2>1. inflight' \in [Calls -> SUBSET Wires]
    BY <1>3 DEF SocketOpens, Types, Wires
  <2>2. /\ media' \in [Calls -> MediaSteps]
        /\ peer' \in [Calls -> BOOLEAN]
    BY <1>3 DEF SocketOpens, Types, MediaSteps
  <2> QED BY <1>3, <2>1, <2>2 DEF SocketOpens, Types, rowVars, asideVars
<1>4. CASE PumpProviderEnds(c)
  BY <1>4 DEF PumpProviderEnds, Types, MediaSteps, rowVars, asideVars,
              carrierVars
<1>5. CASE PumpRoomEnds(c)
  BY <1>5 DEF PumpRoomEnds, Types, MediaSteps, rowVars, carrierVars
<1>6. CASE PumpFails(c)
  BY <1>6 DEF PumpFails, Types, MediaSteps, rowVars, asideVars, carrierVars
<1>7. CASE \/ GraceSeesTerminal(c) \/ GraceElapses(c) \/ EndSkips(c)
           \/ EndRelease(c)
  BY <1>7 DEF GraceSeesTerminal, GraceElapses, EndSkips, EndRelease, Types,
              MediaSteps, rowVars, asideVars, carrierVars
<1> QED BY <1>1, <1>2, <1>3, <1>4, <1>5, <1>6, <1>7 DEF Bridge

(* The sweeps. *)
LEMMA SweepTypes ==
  ASSUME Types, NEW c \in Calls, Sweep(c)
  PROVE  Types'
<1>1. CASE fail_stalled_calls(c)
  BY <1>1 DEF fail_stalled_calls, Reclaim, Types, CallStates, asideVars,
     carrierVars
<1>2. CASE settle_finished_calls(c)
  BY <1>2 DEF settle_finished_calls, Types, rowVars, taskVars, asideVars,
     carrierVars
<1>3. CASE ReapHangup(c)
  <2>1. HangupLeg(c) \/ UNCHANGED <<leg, inflight>>
    BY <1>3 DEF ReapHangup
  <2>2. /\ leg' \in [Calls -> {"none", "ringing", "up", "down"}]
        /\ inflight' \in [Calls -> SUBSET Wires]
    BY <2>1, HangupTypes
  <2> QED BY <1>3, <2>2 DEF ReapHangup, Types, rowVars
<1>4. CASE ReapMark(c)
  BY <1>4 DEF ReapMark, Types, CallStates, carrierVars
<1> QED BY <1>1, <1>2, <1>3, <1>4 DEF Sweep

(* A restart. *)
LEMMA CrashTypes ==
  ASSUME Types, Crash
  PROVE  Types'
  BY DEF Crash, Types, DialSteps, MediaSteps, rowVars, carrierVars

(* Every step keeps the types. *)
LEMMA TypesStep == Types /\ [Next]_vars => Types'
<1> SUFFICES ASSUME Types, [Next]_vars PROVE Types'
  OBVIOUS
<1>1. ASSUME NEW o \in Orgs, NEW n \in Amounts, OtherCharge(o, n)
      PROVE  Types'
  BY <1>1 DEF OtherCharge, Types, rowVars, taskVars, asideVars, carrierVars
<1>2. CASE UNCHANGED vars
  BY <1>2 DEF vars, Types, rowVars, taskVars, asideVars, carrierVars
<1> QED BY <1>1, <1>2, DiallingTypes, CarrierTypes, WebhookTypes, BridgeTypes,
           SweepTypes, CrashTypes DEF Next

(* Every variable of the call keeps its type and no pool is overdrawn,     *)
(* whatever the dial, the webhooks, the bridge and the sweeps interleave.  *)
THEOREM CallTypes == Spec => []TypeOK
<1>1. Init => Types
  BY DEF Init, Types, DialSteps, MediaSteps, CallStates, Wires
<1>2. Spec => []ConsumedOK
  <2>1. Init => ConsumedOK
    BY VoipAssumption DEF Init, ConsumedOK
  <2>2. ConsumedOK /\ [Next]_vars => ConsumedOK'
    BY StepIsCredit DEF CreditStep
  <2> QED BY <2>1, <2>2, PTL DEF Spec
<1>3. Types /\ ConsumedOK /\ Holds!HoldInv => TypeOK
  BY DEF Types, ConsumedOK, TypeOK, Wires, Holds!HoldInv, Holds!TypeOK,
     Credits!TypeOK, Holds!HoldRow, Credits!HoldRow
<1>4. Types /\ [Next]_vars => Types'
  BY TypesStep
<1> QED BY <1>1, <1>2, <1>3, <1>4, CreditInvariant, PTL DEF Spec

-----------------------------------------------------------------------------
(* The inductive invariant of a call, when no webhook is applied while its *)
(* dial request is still running.                                          *)

(* Nothing has gone further than the request that places the call. *)
Placing(c) ==
  /\ status[c] = "absent" <=> dial[c] = "idle"
  /\ dial[c] \in {"admitted", "unpaid", "reserved", "placed", "rejected"}
       => status[c] = "created"
  /\ dial[c] = "refunding" => status[c] = "failed"
  /\ dial[c] # "over" => /\ ~answered[c] /\ hook[c] = {}
                         /\ media[c] = "none" /\ ~stream[c]
  /\ dial[c] \in {"idle", "admitted", "unpaid", "reserved"}
       => leg[c] = "none" /\ inflight[c] = {}
  /\ dial[c] = "reserved" \/ leg[c] # "none" \/ inflight[c] # {}
       => hold[c].state # "none"
  /\ dial[c] \in {"idle", "admitted"} => hold[c].state = "none"

(* What the row says of the hold. *)
Paid(c) ==
  /\ hold[c].state \in {"settled", "released"} => Ended(c)
  /\ hold[c].state = "settled" => status[c] = "completed"
  /\ status[c] = "completed" => /\ hold[c].state = "settled"
                                /\ owed[c] = consumed[c]
  /\ hold[c].settled > 0 => answered[c]
  /\ media[c] = "marked" => status[c] = "failed"

CallInv == \A c \in Calls : Placing(c) /\ Paid(c)

(* What CallInv says of a call, it says of these.                          *)
View(c) == <<status[c], dial[c], answered[c], hook[c], media[c], stream[c],
             leg[c], inflight[c], hold[c], owed[c], consumed[c]>>

(* A step that does not show in a call's view leaves it safe. *)
LEMMA Frame ==
  ASSUME NEW c \in Calls, Placing(c), Paid(c), UNCHANGED View(c)
  PROVE  Placing(c)' /\ Paid(c)'
  BY DEF View, Placing, Paid, Ended

(* Closing a hold, as the call sees it. *)
LEMMA CloseFacts ==
  ASSUME TypeOK, NEW d \in Calls, NEW actual \in Nat, NEW final,
         Credits!Close(d, actual, final)
  PROVE  /\ hold[d].state = "held"
         /\ hold'[d].state = final
         /\ hold'[d].settled <= actual
         /\ hold'[d].settled \in Nat
         /\ owed'[d] = actual
         /\ \A c \in Calls :
              c # d => hold'[c] = hold[c] /\ owed'[c] = owed[c]
<1> DEFINE n == hold[d].held
           overrun == actual - Credits!Least(actual, n)
           charged == Credits!ChargeFor(OrgOf[d], overrun)
<1>1. /\ hold \in [Calls -> Credits!HoldRow]
      /\ owed \in [Calls -> Nat]
      /\ balance \in [Orgs -> Nat]
      /\ n \in Nat
      /\ balance[OrgOf[d]] \in Nat
  BY VoipAssumption DEF TypeOK, Credits!TypeOK, Credits!HoldRow
<1>2. /\ Credits!Least(actual, n) \in Nat
      /\ Credits!Least(actual, n) <= actual
  BY <1>1 DEF Credits!Least
<1>3. charged \in Nat /\ charged <= actual - Credits!Least(actual, n)
  BY <1>1, <1>2 DEF Credits!ChargeFor, Credits!CanCover
<1> HIDE DEF charged
<1>4. /\ hold[d].state = "held"
      /\ hold' = [hold EXCEPT ![d] =
                   [state |-> final, held |-> n,
                    settled |-> Credits!Least(actual, n) + charged,
                    released |-> n - Credits!Least(actual, n),
                    shortfall |-> actual - Credits!Least(actual, n) - charged]]
      /\ owed' = [owed EXCEPT ![d] = actual]
  BY DEF Credits!Close, Credits!Open, charged
<1>5. /\ hold'[d].state = final
      /\ hold'[d].settled = Credits!Least(actual, n) + charged
      /\ owed'[d] = actual
  BY <1>1, <1>4
<1>6. \A c \in Calls : c # d => hold'[c] = hold[c] /\ owed'[c] = owed[c]
  BY <1>1, <1>4
<1> QED BY <1>2, <1>3, <1>4, <1>5, <1>6

(* ReleaseIfHeld and SettleIfHeld leave the other calls' holds alone. *)
LEMMA ReleaseFacts ==
  ASSUME TypeOK, NEW d \in Calls, Credits!ReleaseIfHeld(d)
  PROVE  /\ hold[d].state = "held" => /\ hold'[d].state = "released"
                                     /\ hold'[d].settled = 0
         /\ hold[d].state # "held" => hold'[d] = hold[d] /\ owed'[d] = owed[d]
         /\ \A c \in Calls :
              c # d => hold'[c] = hold[c] /\ owed'[c] = owed[c]
<1>1. CASE Credits!Open(d)
  <2>1. Credits!Close(d, 0, "released")
    BY <1>1 DEF Credits!ReleaseIfHeld, Credits!release
  <2> QED BY <2>1, CloseFacts
<1>2. CASE ~Credits!Open(d)
  BY <1>2 DEF Credits!ReleaseIfHeld, Credits!Open, Credits!creditVars
<1> QED BY <1>1, <1>2

(* A settlement of an open hold records what was owed. *)
LEMMA SettleFacts ==
  ASSUME TypeOK, NEW d \in Calls, NEW cost \in Nat, hold[d].state = "held",
         Credits!SettleIfHeld(d, cost) \/ Credits!settle(d, cost)
  PROVE  /\ hold'[d].state = "settled"
         /\ hold'[d].settled > 0 => cost > 0
         /\ owed'[d] = cost
         /\ \A c \in Calls :
              c # d => hold'[c] = hold[c] /\ owed'[c] = owed[c]
<1>1. Credits!Close(d, cost, "settled")
  BY DEF Credits!SettleIfHeld, Credits!Open, Credits!settle
<1> QED BY <1>1, CloseFacts

(* A step on one call that leaves it safe leaves every call safe.          *)
LEMMA OneCall ==
  ASSUME CallInv, NEW d \in Calls, Placing(d)', Paid(d)',
         \A c \in Calls : c # d => UNCHANGED View(c)
  PROVE  CallInv'
  BY Frame DEF CallInv

(* A step that shows in no call's view. *)
LEMMA NoCall ==
  ASSUME CallInv, \A c \in Calls : UNCHANGED View(c)
  PROVE  CallInv'
  BY Frame DEF CallInv

(* The dial request keeps the invariant. *)
LEMMA DiallingKeeps ==
  ASSUME TypeOK, CallInv, NEW d \in Calls, Dialling(d)
  PROVE  CallInv'
<1> USE DEF TypeOK
<1>1. CASE DialAdmit(d)
  <2>1. \A c \in Calls : c # d => UNCHANGED View(c)
    BY <1>1 DEF DialAdmit, View, creditVars, carrierVars
  <2>2. Placing(d)' /\ Paid(d)'
    BY <1>1 DEF DialAdmit, CallInv, Placing, Paid, Ended, creditVars,
       carrierVars
  <2> QED BY <2>1, <2>2, OneCall
<1>2. CASE \E n \in Quotes : DialReserve(d, n)
  <2> PICK n \in Quotes : DialReserve(d, n)
    BY <1>2
  <2>1. \A c \in Calls : c # d => UNCHANGED View(c)
    BY DEF DialReserve, Credits!Reserve, View, Credits!TypeOK, rowVars,
       carrierVars
  <2>2. hold'[d] = Credits!OpenHold(n)
    BY DEF DialReserve, Credits!Reserve, Credits!TypeOK
  <2>3. hold'[d].state = "held" /\ hold'[d].settled = 0
    BY <2>2 DEF Credits!OpenHold
  <2>4. UNCHANGED <<owed, rowVars, hook, media, carrierVars>>
    BY DEF DialReserve, Credits!Reserve
  <2>5. dial[d] = "admitted" /\ dial'[d] = "reserved"
    BY DEF DialReserve
  <2>6. Placing(d) /\ Paid(d)
    BY DEF CallInv
  <2> HIDE DEF TypeOK
  <2>7. Placing(d)' /\ Paid(d)'
    BY <2>3, <2>4, <2>5, <2>6 DEF Placing, Paid, Ended, rowVars, carrierVars
  <2> QED BY <2>1, <2>7, OneCall
<1>3. CASE \E n \in Quotes : DialUnpaid(d, n)
  <2>1. \A c \in Calls : c # d => UNCHANGED View(c)
    BY <1>3 DEF DialUnpaid, View, creditVars, rowVars, carrierVars
  <2>2. Placing(d)' /\ Paid(d)'
    BY <1>3 DEF DialUnpaid, CallInv, Placing, Paid, Ended, creditVars,
       rowVars, carrierVars
  <2> QED BY <2>1, <2>2, OneCall
<1>4. CASE DialRefuse(d)
  <2>1. \A c \in Calls : c # d => UNCHANGED View(c)
    BY <1>4 DEF DialRefuse, fail, View, creditVars, carrierVars
  <2>2. Placing(d)' /\ Paid(d)'
    BY <1>4 DEF DialRefuse, fail, CallInv, Placing, Paid, Ended, creditVars,
       carrierVars
  <2> QED BY <2>1, <2>2, OneCall
<1>5. CASE DialRecord(d)
  <2>1. \A c \in Calls : c # d => UNCHANGED View(c)
    BY <1>5 DEF DialRecord, View, creditVars, carrierVars
  <2>2. Placing(d)' /\ Paid(d)'
    BY <1>5 DEF DialRecord, CallInv, Placing, Paid, Ended, creditVars,
       carrierVars
  <2> QED BY <2>1, <2>2, OneCall
<1>6. CASE DialFail(d)
  <2>1. \A c \in Calls : c # d => UNCHANGED View(c)
    BY <1>6 DEF DialFail, fail, View, creditVars, carrierVars
  <2>2. Placing(d)' /\ Paid(d)'
    BY <1>6 DEF DialFail, fail, CallInv, Placing, Paid, Ended, creditVars,
       carrierVars
  <2> QED BY <2>1, <2>2, OneCall
<1>7. CASE DialDbError(d)
  <2>1. \A c \in Calls : c # d => UNCHANGED View(c)
    BY <1>7 DEF DialDbError, View, creditVars, rowVars, carrierVars
  <2>2. Placing(d)' /\ Paid(d)'
    BY <1>7 DEF DialDbError, CallInv, Placing, Paid, Ended, creditVars,
       rowVars, carrierVars
  <2> QED BY <2>1, <2>2, OneCall
<1>8. CASE DialRelease(d)
  <2>1. Credits!ReleaseIfHeld(d)
    BY <1>8 DEF DialRelease
  <2>2. \A c \in Calls : c # d => UNCHANGED View(c)
    BY <1>8, <2>1, ReleaseFacts DEF DialRelease, View, rowVars, carrierVars
  <2>3. /\ dial[d] = "refunding" /\ dial'[d] = "over"
        /\ UNCHANGED <<rowVars, hook, media, carrierVars>>
    BY <1>8 DEF DialRelease
  <2>4. Placing(d) /\ Paid(d)
    BY DEF CallInv
  <2> HIDE DEF TypeOK
  <2>5. Placing(d)' /\ Paid(d)'
    BY <2>1, <2>3, <2>4, ReleaseFacts
       DEF Placing, Paid, Ended, rowVars, carrierVars
  <2> QED BY <2>2, <2>5, OneCall
<1> QED BY <1>1, <1>2, <1>3, <1>4, <1>5, <1>6, <1>7, <1>8 DEF Dialling

(* The carrier keeps the invariant. *)
LEMMA CarrierKeeps ==
  ASSUME TypeOK, CallInv, NEW d \in Calls, Carrier(d)
  PROVE  CallInv'
<1> USE DEF TypeOK
<1>1. CASE CarrierPlaces(d)
  <2>1. \A c \in Calls : c # d => UNCHANGED View(c)
    BY <1>1 DEF CarrierPlaces, View, creditVars, rowVars
  <2>2. Placing(d)' /\ Paid(d)'
    BY <1>1 DEF CarrierPlaces, CallInv, Placing, Paid, Ended, creditVars,
       rowVars
  <2> QED BY <2>1, <2>2, OneCall
<1>2. CASE CarrierRejects(d)
  <2>1. \A c \in Calls : c # d => UNCHANGED View(c)
    BY <1>2 DEF CarrierRejects, View, creditVars, rowVars, carrierVars
  <2>2. Placing(d)' /\ Paid(d)'
    BY <1>2 DEF CarrierRejects, CallInv, Placing, Paid, Ended, creditVars,
       rowVars, carrierVars
  <2> QED BY <2>1, <2>2, OneCall
<1>3. CASE Answer(d)
  <2>1. \A c \in Calls : c # d => UNCHANGED View(c)
    BY <1>3 DEF Answer, View, creditVars, rowVars, taskVars
  <2>2. Placing(d)' /\ Paid(d)'
    BY <1>3 DEF Answer, CallInv, Placing, Paid, Ended, creditVars, rowVars,
       taskVars
  <2> QED BY <2>1, <2>2, OneCall
<1>4. CASE RingEnds(d)
  <2>1. \A c \in Calls : c # d => UNCHANGED View(c)
    BY <1>4 DEF RingEnds, Down, View, creditVars, rowVars, taskVars
  <2>2. Placing(d)' /\ Paid(d)'
    BY <1>4 DEF RingEnds, Down, CallInv, Placing, Paid, Ended, creditVars,
       rowVars, taskVars
  <2> QED BY <2>1, <2>2, OneCall
<1>5. CASE FarHangup(d)
  <2>1. \A c \in Calls : c # d => UNCHANGED View(c)
    BY <1>5 DEF FarHangup, Down, View, creditVars, rowVars, taskVars
  <2>2. Placing(d)' /\ Paid(d)'
    BY <1>5 DEF FarHangup, Down, CallInv, Placing, Paid, Ended, creditVars,
       rowVars, taskVars
  <2> QED BY <2>1, <2>2, OneCall
<1> QED BY <1>1, <1>2, <1>3, <1>4, <1>5 DEF Carrier

(* The media bridge keeps it: end_call never touches a completed call. *)
LEMMA BridgeKeeps ==
  ASSUME TypeOK, CallInv, NEW d \in Calls, Bridge(d)
  PROVE  CallInv'
<1> USE DEF TypeOK
<1>1. CASE SocketOpens(d)
  <2>1. \A c \in Calls : c # d => UNCHANGED View(c)
    BY <1>1 DEF SocketOpens, View, creditVars, rowVars
  <2>2. Placing(d)' /\ Paid(d)'
    BY <1>1 DEF SocketOpens, CallInv, Placing, Paid, Ended, creditVars,
       rowVars
  <2> QED BY <2>1, <2>2, OneCall
<1>2. CASE PumpProviderEnds(d)
  <2>1. \A c \in Calls : c # d => UNCHANGED View(c)
    BY <1>2 DEF PumpProviderEnds, View, creditVars, rowVars, carrierVars
  <2>2. Placing(d)' /\ Paid(d)'
    BY <1>2 DEF PumpProviderEnds, CallInv, Placing, Paid, Ended, creditVars,
       rowVars, carrierVars
  <2> QED BY <2>1, <2>2, OneCall
<1>3. CASE PumpRoomEnds(d)
  <2>1. \A c \in Calls : c # d => UNCHANGED View(c)
    BY <1>3 DEF PumpRoomEnds, View, creditVars, rowVars, carrierVars
  <2>2. Placing(d)' /\ Paid(d)'
    BY <1>3 DEF PumpRoomEnds, CallInv, Placing, Paid, Ended, creditVars,
       rowVars, carrierVars
  <2> QED BY <2>1, <2>2, OneCall
<1>4. CASE GraceSeesTerminal(d)
  <2>1. \A c \in Calls : c # d => UNCHANGED View(c)
    BY <1>4 DEF GraceSeesTerminal, View, creditVars, rowVars, carrierVars
  <2>2. Placing(d)' /\ Paid(d)'
    BY <1>4 DEF GraceSeesTerminal, CallInv, Placing, Paid, Ended, creditVars,
       rowVars, carrierVars
  <2> QED BY <2>1, <2>2, OneCall
<1>5. CASE GraceElapses(d)
  <2>1. \A c \in Calls : c # d => UNCHANGED View(c)
    BY <1>5 DEF GraceElapses, View, creditVars, rowVars, carrierVars
  <2>2. Placing(d)' /\ Paid(d)'
    BY <1>5 DEF GraceElapses, CallInv, Placing, Paid, Ended, creditVars,
       rowVars, carrierVars
  <2> QED BY <2>1, <2>2, OneCall
<1>6. CASE EndHangup(d)
  <2>1. \A c \in Calls : c # d => UNCHANGED View(c)
    BY <1>6 DEF EndHangup, HangupLeg, Down, View, creditVars, rowVars
  <2>2. Placing(d)' /\ Paid(d)'
    BY <1>6 DEF EndHangup, HangupLeg, Down, CallInv, Placing, Paid, Ended,
       creditVars, rowVars
  <2> QED BY <2>1, <2>2, OneCall
<1>7. CASE EndMark(d)
  <2>1. \A c \in Calls : c # d => UNCHANGED View(c)
    BY <1>7 DEF EndMark, View, creditVars, carrierVars
  <2>2. Placing(d)' /\ Paid(d)'
    BY <1>7 DEF EndMark, CallInv, Placing, Paid, Ended, creditVars,
       carrierVars
  <2> QED BY <2>1, <2>2, OneCall
<1>8. CASE EndSkips(d)
  <2>1. \A c \in Calls : c # d => UNCHANGED View(c)
    BY <1>8 DEF EndSkips, View, creditVars, rowVars, carrierVars
  <2>2. Placing(d)' /\ Paid(d)'
    BY <1>8 DEF EndSkips, CallInv, Placing, Paid, Ended, creditVars, rowVars,
       carrierVars
  <2> QED BY <2>1, <2>2, OneCall
<1>9. CASE EndRelease(d)
  <2>1. Credits!ReleaseIfHeld(d)
    BY <1>9 DEF EndRelease
  <2>2. \A c \in Calls : c # d => UNCHANGED View(c)
    BY <1>9, <2>1, ReleaseFacts DEF EndRelease, View, rowVars, carrierVars
  <2>3. /\ media[d] = "marked" /\ media'[d] = "over"
        /\ UNCHANGED <<rowVars, hook, dial, carrierVars>>
    BY <1>9 DEF EndRelease
  <2>4. Placing(d) /\ Paid(d)
    BY DEF CallInv
  <2> HIDE DEF TypeOK
  <2>5. Placing(d)' /\ Paid(d)'
    BY <2>1, <2>3, <2>4, ReleaseFacts
       DEF Placing, Paid, Ended, rowVars, carrierVars
  <2> QED BY <2>2, <2>5, OneCall
<1>10. CASE PumpFails(d)
  <2>1. \A c \in Calls : c # d => UNCHANGED View(c)
    BY <1>10 DEF PumpFails, View, creditVars, rowVars, carrierVars
  <2>2. Placing(d)' /\ Paid(d)'
    BY <1>10 DEF PumpFails, CallInv, Placing, Paid, Ended, creditVars,
       rowVars, carrierVars
  <2> QED BY <2>1, <2>2, OneCall
<1> QED BY <1>1, <1>2, <1>3, <1>4, <1>5, <1>6, <1>7, <1>8, <1>9, <1>10
        DEF Bridge

(* The people in the room keep it. *)
LEMMA RoomKeeps ==
  ASSUME TypeOK, CallInv, NEW d \in Calls, Room(d)
  PROVE  CallInv'
<1> USE DEF TypeOK
<1>1. CASE RequestHangup(d)
  <2>1. \A c \in Calls : c # d => UNCHANGED View(c)
    BY <1>1 DEF RequestHangup, HangupLeg, Down, View, creditVars, rowVars,
       taskVars
  <2>2. Placing(d)' /\ Paid(d)'
    BY <1>1 DEF RequestHangup, HangupLeg, Down, CallInv, Placing, Paid, Ended,
       creditVars, rowVars, taskVars
  <2> QED BY <2>1, <2>2, OneCall
<1>2. CASE RoomOrphaned(d)
  <2>1. \A c \in Calls : c # d => UNCHANGED View(c)
    BY <1>2 DEF RoomOrphaned, View, creditVars, rowVars, carrierVars
  <2>2. Placing(d)' /\ Paid(d)'
    BY <1>2 DEF RoomOrphaned, CallInv, Placing, Paid, Ended, creditVars,
       rowVars, carrierVars
  <2> QED BY <2>1, <2>2, OneCall
<1>3. CASE hangup_orphaned_leg(d)
  <2>1. \A c \in Calls : c # d => UNCHANGED View(c)
    BY <1>3 DEF hangup_orphaned_leg, HangupLeg, Down, View, creditVars,
       rowVars
  <2>2. Placing(d)' /\ Paid(d)'
    BY <1>3 DEF hangup_orphaned_leg, HangupLeg, Down, CallInv, Placing, Paid,
       Ended, creditVars, rowVars
  <2> QED BY <2>1, <2>2, OneCall
<1> QED BY <1>1, <1>2, <1>3 DEF Room

(* A webhook that ends the call closes its hold in the same transaction.   *)
LEMMA WebhookKeeps ==
  ASSUME TypeOK, CallInv, NEW d \in Calls, Webhook(d),
         ~EarlyWebhooks
  PROVE  CallInv'
<1> USE DEF TypeOK
<1>1. CASE \E k \in inflight[d] : Deliver(d, k)
  <2> PICK k \in inflight[d] : Deliver(d, k)
    BY <1>1
  <2> DEFINE after == next(status[d], EventOf(k))
             moved == IF after = NoMove THEN status[d] ELSE after
  <2>1. /\ dial[d] = "over"
        /\ status[d] \in CallStates
        /\ Placing(d) /\ Paid(d)
    <3>1. Placing(d) /\ Paid(d)
      BY DEF CallInv
    <3>2. dial[d] \in {"idle", "over"} /\ inflight[d] # {}
      BY DEF Deliver, InFlight
    <3>3. dial[d] = "over" /\ status[d] # "absent"
      BY <3>1, <3>2 DEF Placing
    <3> QED BY <3>1, <3>3
  <2>2. EventOf(k) \in CallEvents
    BY EventIsEvent DEF Wires
  <2>3. Ended(d) => after = NoMove
    BY TerminalAbsorbs DEF Ended, is_terminal
  <2>4. after = NoMove \/ after \in CallStates
    BY <2>1, <2>2, NextClimbs
  <2> HIDE DEF after
  <2>5. /\ status'[d] = moved
        /\ answered'[d] = (answered[d] \/ after = "answered")
        /\ dial'[d] = "over" /\ media'[d] = media[d]
        /\ leg'[d] = leg[d] /\ hook'[d] \in SUBSET {"arm", "reclaim"}
        /\ inflight'[d] \subseteq inflight[d]
    BY <2>1 DEF Deliver, after
  <2>6. CASE is_terminal(after)
    <3>1. PICK cost \in MayOwe(d) : Settle(d, after, cost)
      BY <2>6 DEF Deliver, after
    <3>2. cost \in Nat /\ (cost > 0 => answered[d])
      BY VoipAssumption DEF MayOwe
    <3>3. /\ ~Ended(d) /\ after \in {"completed", "failed"}
          /\ status'[d] = after
      BY <2>3, <2>5, <2>6 DEF is_terminal, NoMove
    <3>4. hold[d].state = "held"
      <4>1. hold[d].state \in {"none", "held", "settled", "released"}
        BY DEF Credits!TypeOK, Credits!HoldRow
      <4> QED BY <2>1, <3>3, <4>1 DEF Placing, Paid
    <3>5. answered'[d] = answered[d]
      BY <2>5, <3>3
    <3>6. CASE after = "completed"
      <4>1. /\ consumed' = [consumed EXCEPT ![d] = cost]
            /\ Credits!SettleIfHeld(d, cost)
        BY <3>1, <3>6 DEF Settle
      <4>2. \A c \in Calls : c # d => UNCHANGED View(c)
        BY <3>2, <3>4, <4>1, SettleFacts DEF Deliver, View, creditVars
      <4>3. /\ hold'[d].state = "settled" /\ owed'[d] = cost
            /\ hold'[d].settled > 0 => cost > 0
        BY <3>2, <3>4, <4>1, SettleFacts
      <4>4. consumed'[d] = cost
        BY <4>1
      <4> HIDE DEF TypeOK
      <4>5. Placing(d)'
        BY <2>1, <2>5, <3>3, <3>6, <4>3 DEF Placing
      <4>6. Paid(d)'
        BY <2>1, <2>5, <3>2, <3>3, <3>5, <3>6, <4>3, <4>4 DEF Paid, Ended
      <4> QED BY <4>2, <4>5, <4>6, OneCall
    <3>7. CASE after = "failed"
      <4>1. /\ consumed' = [consumed EXCEPT ![d] = 0]
            /\ Credits!ReleaseIfHeld(d)
        BY <3>1, <3>7 DEF Settle
      <4>2. \A c \in Calls : c # d => UNCHANGED View(c)
        BY <4>1, ReleaseFacts DEF Deliver, View, creditVars
      <4>3. hold'[d].state = "released" /\ hold'[d].settled = 0
        BY <3>4, <4>1, ReleaseFacts
      <4> HIDE DEF TypeOK
      <4>4. Placing(d)'
        BY <2>1, <2>5, <3>3, <3>7, <4>3 DEF Placing
      <4>5. Paid(d)'
        BY <2>1, <2>5, <3>3, <3>5, <3>7, <4>3 DEF Paid, Ended
      <4> QED BY <4>2, <4>4, <4>5, OneCall
    <3> QED BY <3>3, <3>6, <3>7
  <2>7. CASE ~is_terminal(after)
    <3>1. UNCHANGED <<consumed, creditVars>>
      BY <2>7 DEF Deliver, after
    <3>2. \A c \in Calls : c # d => UNCHANGED View(c)
      BY <3>1 DEF Deliver, View, creditVars
    <3>3. /\ \/ moved = status[d]
             \/ ~Ended(d) /\ moved \notin {"completed", "failed"}
          /\ moved \in CallStates
      BY <2>1, <2>3, <2>4, <2>7 DEF is_terminal, NoMove
    <3> HIDE DEF moved, TypeOK
    <3>4. /\ hold'[d] = hold[d] /\ owed'[d] = owed[d]
          /\ consumed'[d] = consumed[d]
      BY <3>1 DEF creditVars
    <3>5. Placing(d)'
      BY <2>1, <2>5, <3>3, <3>4 DEF Placing, CallStates
    <3>6. Paid(d)'
      BY <2>1, <2>5, <3>3, <3>4 DEF Paid, Ended
    <3> QED BY <3>2, <3>5, <3>6, OneCall
  <2> QED BY <2>6, <2>7
<1>2. CASE \E k \in inflight[d] : LoseWebhook(d, k)
  <2>1. \A c \in Calls : c # d => UNCHANGED View(c)
    BY <1>2 DEF LoseWebhook, View, creditVars, rowVars, taskVars
  <2>2. Placing(d)' /\ Paid(d)'
    BY <1>2 DEF LoseWebhook, CallInv, Placing, Paid, Ended, creditVars,
       rowVars, taskVars
  <2> QED BY <2>1, <2>2, OneCall
<1>3. CASE HookArm(d)
  <2>1. \A c \in Calls : c # d => UNCHANGED View(c)
    BY <1>3 DEF HookArm, View, creditVars, rowVars
  <2>2. Placing(d)' /\ Paid(d)'
    BY <1>3 DEF HookArm, CallInv, Placing, Paid, Ended, creditVars, rowVars
  <2> QED BY <2>1, <2>2, OneCall
<1>4. CASE HookReclaim(d)
  <2>1. \A c \in Calls : c # d => UNCHANGED View(c)
    BY <1>4 DEF HookReclaim, View, creditVars, rowVars, carrierVars
  <2>2. Placing(d)' /\ Paid(d)'
    BY <1>4 DEF HookReclaim, CallInv, Placing, Paid, Ended, creditVars,
       rowVars, carrierVars
  <2> QED BY <2>1, <2>2, OneCall
<1> QED BY <1>1, <1>2, <1>3, <1>4 DEF Webhook

(* The sweeps keep it: what they close was failed before. *)
LEMMA SweepKeeps ==
  ASSUME TypeOK, CallInv, NEW d \in Calls, Sweep(d)
  PROVE  CallInv'
<1> USE DEF TypeOK
<1>1. CASE fail_stalled_calls(d)
  <2>1. \A c \in Calls : c # d => UNCHANGED View(c)
    BY <1>1 DEF fail_stalled_calls, View, creditVars, carrierVars
  <2>2. Placing(d)' /\ Paid(d)'
    BY <1>1 DEF fail_stalled_calls, Stalled, InFlight, CallInv, Placing,
       Paid, Ended, creditVars, rowVars, asideVars, carrierVars, taskVars
  <2> QED BY <2>1, <2>2, OneCall
<1>2. CASE settle_finished_calls(d)
  <2>1. Placing(d) /\ Paid(d)
    BY DEF CallInv
  <2>2. status[d] = "failed" /\ hold[d].state = "held"
    BY <1>2, <2>1 DEF settle_finished_calls, Paid, Ended
  <2>3. Credits!ReleaseIfHeld(d)
    BY <1>2, <2>2 DEF settle_finished_calls, Credits!ReleaseIfHeld,
       Credits!Open
  <2>4. UNCHANGED <<rowVars, taskVars, carrierVars>>
    BY <1>2 DEF settle_finished_calls
  <2>5. \A c \in Calls : c # d => UNCHANGED View(c)
    BY <2>3, <2>4, ReleaseFacts DEF View, rowVars, taskVars, carrierVars
  <2>6. hold'[d].state = "released" /\ hold'[d].settled = 0
    BY <2>2, <2>3, ReleaseFacts
  <2> HIDE DEF TypeOK
  <2>7. Placing(d)' /\ Paid(d)'
    BY <2>1, <2>2, <2>4, <2>6 DEF Placing, Paid, Ended, rowVars, taskVars,
       carrierVars
  <2> QED BY <2>5, <2>7, OneCall
<1>3. CASE ReapHangup(d)
  <2>1. \A c \in Calls : c # d => UNCHANGED View(c)
    BY <1>3 DEF ReapHangup, HangupLeg, Down, View, creditVars, rowVars
  <2>2. Placing(d)' /\ Paid(d)'
    BY <1>3 DEF ReapHangup, HangupLeg, Down, CallInv, Placing, Paid, Ended,
       creditVars, rowVars
  <2> QED BY <2>1, <2>2, OneCall
<1>4. CASE ReapMark(d)
  <2>1. \A c \in Calls : c # d => UNCHANGED View(c)
    BY <1>4 DEF ReapMark, View, creditVars, carrierVars
  <2>2. Placing(d)' /\ Paid(d)'
    BY <1>4 DEF ReapMark, CallInv, Placing, Paid, Ended, creditVars,
       carrierVars
  <2> QED BY <2>1, <2>2, OneCall
<1> QED BY <1>1, <1>2, <1>3, <1>4 DEF Sweep

(* Every step keeps it, a restart included. *)
LEMMA CallStep ==
  TypeOK /\ CallInv /\ ~EarlyWebhooks /\ [Next]_vars => CallInv'
<1> SUFFICES ASSUME TypeOK, CallInv, ~EarlyWebhooks, [Next]_vars
             PROVE  CallInv'
  OBVIOUS
<1>1. ASSUME NEW o \in Orgs, NEW n \in Amounts, OtherCharge(o, n)
      PROVE  CallInv'
  <2>1. \A c \in Calls : UNCHANGED View(c)
    BY <1>1 DEF OtherCharge, Credits!OtherCharge, View, rowVars, carrierVars,
       taskVars
  <2> QED BY <2>1, NoCall
<1>2. CASE UNCHANGED vars
  <2>1. \A c \in Calls : UNCHANGED View(c)
    BY <1>2 DEF vars, View, creditVars, rowVars, carrierVars, taskVars
  <2> QED BY <2>1, NoCall
<1>3. CASE Crash
  <2> SUFFICES ASSUME NEW c \in Calls PROVE Placing(c)' /\ Paid(c)'
    BY DEF CallInv
  <2>1. Placing(c) /\ Paid(c)
    BY DEF CallInv
  <2>2. /\ dial'[c] = IF dial[c] = "idle" THEN "idle" ELSE "over"
        /\ media'[c] = IF media[c] = "none" THEN "none" ELSE "over"
        /\ hook'[c] = {}
        /\ UNCHANGED <<rowVars, creditVars, carrierVars>>
    BY <1>3 DEF Crash
  <2> QED BY <2>1, <2>2 DEF Placing, Paid, Ended, creditVars, rowVars,
             carrierVars
<1> QED BY <1>1, <1>2, <1>3, DiallingKeeps, CarrierKeeps, WebhookKeeps,
           BridgeKeeps, RoomKeeps, SweepKeeps DEF Next

(* The invariant holds of every behaviour in which no webhook overtakes    *)
(* its dial request, with losses, faults and restarts.                     *)
THEOREM CallInvariant == ASSUME ~EarlyWebhooks PROVE Spec => []CallInv
<1>1. Init => CallInv
  BY DEF Init, Credits!Init, Credits!NoHold, CallInv, Placing, Paid, Ended
<1>2. TypeOK /\ CallInv /\ [Next]_vars => CallInv'
  BY CallStep
<1> QED BY <1>1, <1>2, CallTypes, PTL DEF Spec

(* The row and the hold agree, for any number of calls, any costs, lost    *)
(* webhooks, failing statements and restarts: only an answered call that   *)
(* completed pays, and it pays what its row says.                          *)
THEOREM HoldAlwaysFollowsRow ==
  ASSUME ~EarlyWebhooks PROVE Spec => []HoldFollowsRow
<1>1. CallInv => HoldFollowsRow
  BY DEF CallInv, Paid, HoldFollowsRow
<1> QED BY <1>1, CallInvariant, PTL

-----------------------------------------------------------------------------
(* What holds of a call also when a webhook overtakes its dial request, in *)
(* which order the row is then overwritten, and whatever is lost or fails. *)

(* How far the line can be while the request has not placed the call. *)
Begun(c) ==
  /\ status[c] = "absent" <=> dial[c] = "idle"
  /\ dial[c] \in {"admitted", "unpaid", "reserved"} => status[c] = "created"
  /\ dial[c] \in {"idle", "admitted", "unpaid", "reserved"}
       => leg[c] = "none" /\ inflight[c] = {}

(* The media follow an answer that the row has kept. *)
Heard(c) ==
  /\ "arm" \in hook[c] \/ stream[c] \/ media[c] # "none"
       => answered[c] /\ legs[c]
  /\ stream[c] \/ media[c] # "none" => leg[c] \in {"up", "down"}
  /\ "hangup" \in inflight[c] => leg[c] = "down"

(* Only an answered call owes anything. *)
Owing(c) ==
  consumed[c] > 0 \/ owed[c] > 0 \/ hold[c].settled > 0 => answered[c]

(* The line of a call whose row is over, when no request fails: nobody has *)
(* heard of its answer.                                                    *)
Left(c) ==
  /\ dial[c] = "rejected" => status[c] = "created" /\ inflight[c] = {}
  /\ dial[c] \in {"rejected", "refunding"} => leg[c] = "none"
  /\ media[c] \in {"hungup", "marked"} => leg[c] = "down"
  /\ leg[c] \in {"ringing", "up"} /\ Ended(c)
       => leg[c] = "up" /\ status[c] = "failed" /\ ~answered[c]

Tracked(c) == Begun(c) /\ Heard(c) /\ Owing(c) /\ (~Faults => Left(c))

TrackInv == \A c \in Calls : Tracked(c)

(* What Tracked says of a call, it says of these. *)
Track(c) == <<status[c], answered[c], legs[c], consumed[c], hold[c], owed[c],
              dial[c], hook[c], media[c], stream[c], leg[c], inflight[c]>>

(* A step that does not show in a call's track leaves it tracked. *)
LEMMA TrackFrame ==
  ASSUME NEW c \in Calls, Tracked(c), UNCHANGED Track(c)
  PROVE  Tracked(c)'
  BY DEF Track, Tracked, Begun, Heard, Owing, Left, Ended

(* A step on one call that leaves it tracked leaves every call tracked. *)
LEMMA OneTrack ==
  ASSUME TrackInv, NEW d \in Calls, Tracked(d)',
         \A c \in Calls : c # d => UNCHANGED Track(c)
  PROVE  TrackInv'
  BY TrackFrame DEF TrackInv

(* A step that shows in no call's track. *)
LEMMA NoTrack ==
  ASSUME TrackInv, \A c \in Calls : UNCHANGED Track(c)
  PROVE  TrackInv'
  BY TrackFrame DEF TrackInv

(* A release leaves nothing owed that was not owed before. *)
LEMMA ReleaseOwes ==
  ASSUME TypeOK, NEW d \in Calls, Credits!ReleaseIfHeld(d), Owing(d)
  PROVE  owed'[d] > 0 \/ hold'[d].settled > 0 => answered[d]
<1>1. CASE Credits!Open(d)
  <2>1. Credits!Close(d, 0, "released")
    BY <1>1 DEF Credits!ReleaseIfHeld, Credits!release
  <2> QED BY <2>1, CloseFacts
<1>2. CASE ~Credits!Open(d)
  BY <1>2 DEF Credits!ReleaseIfHeld, Credits!creditVars, Owing
<1> QED BY <1>1, <1>2

(* A settlement charges only what the call owes. *)
LEMMA SettleOwes ==
  ASSUME TypeOK, NEW d \in Calls, NEW cost \in Nat, Owing(d),
         Credits!SettleIfHeld(d, cost)
  PROVE  /\ owed'[d] > 0 \/ hold'[d].settled > 0 => answered[d] \/ cost > 0
         /\ \A c \in Calls :
              c # d => hold'[c] = hold[c] /\ owed'[c] = owed[c]
<1>1. CASE Credits!Open(d)
  BY <1>1, SettleFacts DEF Credits!Open
<1>2. CASE ~Credits!Open(d)
  BY <1>2 DEF Credits!SettleIfHeld, Credits!creditVars, Owing
<1> QED BY <1>1, <1>2

(* The dial request. *)
LEMMA DiallingTracks ==
  ASSUME TypeOK, TrackInv, NEW d \in Calls, Dialling(d)
  PROVE  TrackInv'
<1> USE DEF TypeOK
<1>0. Tracked(d)
  BY DEF TrackInv
<1>1. CASE DialAdmit(d)
  <2>1. \A c \in Calls : c # d => UNCHANGED Track(c)
    BY <1>1 DEF DialAdmit, Track, creditVars, carrierVars
  <2>2. Tracked(d)'
    BY <1>0, <1>1 DEF DialAdmit, Tracked, Begun, Heard, Owing, Left, Ended,
       InFlight, creditVars, carrierVars
  <2> QED BY <2>1, <2>2, OneTrack
<1>2. CASE \E n \in Quotes : DialReserve(d, n)
  <2> PICK n \in Quotes : DialReserve(d, n)
    BY <1>2
  <2>1. \A c \in Calls : c # d => UNCHANGED Track(c)
    BY DEF DialReserve, Credits!Reserve, Track, Credits!TypeOK, rowVars,
       carrierVars
  <2>2. hold'[d] = Credits!OpenHold(n)
    BY DEF DialReserve, Credits!Reserve, Credits!TypeOK
  <2>3. hold'[d].settled = 0
    BY <2>2 DEF Credits!OpenHold
  <2>4. UNCHANGED <<owed, rowVars, hook, media, carrierVars>>
    BY DEF DialReserve, Credits!Reserve
  <2>5. dial[d] = "admitted" /\ dial'[d] = "reserved"
    BY DEF DialReserve
  <2> HIDE DEF TypeOK
  <2>6. Tracked(d)'
    BY <1>0, <2>3, <2>4, <2>5
       DEF Tracked, Begun, Heard, Owing, Left, Ended, rowVars, carrierVars
  <2> QED BY <2>1, <2>6, OneTrack
<1>3. CASE \E n \in Quotes : DialUnpaid(d, n)
  <2>1. \A c \in Calls : c # d => UNCHANGED Track(c)
    BY <1>3 DEF DialUnpaid, Track, rowVars, creditVars, carrierVars
  <2>2. Tracked(d)'
    BY <1>0, <1>3 DEF DialUnpaid, Tracked, Begun, Heard, Owing, Left, Ended,
       rowVars, creditVars, carrierVars
  <2> QED BY <2>1, <2>2, OneTrack
<1>4. CASE DialRefuse(d)
  <2>1. \A c \in Calls : c # d => UNCHANGED Track(c)
    BY <1>4 DEF DialRefuse, fail, Track, creditVars, carrierVars
  <2>2. Tracked(d)'
    BY <1>0, <1>4 DEF DialRefuse, fail, Tracked, Begun, Heard, Owing, Left,
       Ended, InFlight, creditVars, carrierVars
  <2> QED BY <2>1, <2>2, OneTrack
<1>5. CASE DialRecord(d)
  <2>1. \A c \in Calls : c # d => UNCHANGED Track(c)
    BY <1>5 DEF DialRecord, Track, creditVars, carrierVars
  <2>2. Tracked(d)'
    BY <1>0, <1>5 DEF DialRecord, Tracked, Begun, Heard, Owing, Left, Ended,
       InFlight, creditVars, carrierVars
  <2> QED BY <2>1, <2>2, OneTrack
<1>6. CASE DialFail(d)
  <2>1. \A c \in Calls : c # d => UNCHANGED Track(c)
    BY <1>6 DEF DialFail, fail, Track, creditVars, carrierVars
  <2>2. Tracked(d)'
    BY <1>0, <1>6 DEF DialFail, fail, Tracked, Begun, Heard, Owing, Left,
       Ended, InFlight, creditVars, carrierVars
  <2> QED BY <2>1, <2>2, OneTrack
<1>7. CASE DialRelease(d)
  <2>1. Credits!ReleaseIfHeld(d)
    BY <1>7 DEF DialRelease
  <2>2. \A c \in Calls : c # d => UNCHANGED Track(c)
    BY <1>7, <2>1, ReleaseFacts DEF DialRelease, Track, rowVars, carrierVars
  <2>3. /\ dial[d] = "refunding" /\ dial'[d] = "over"
        /\ UNCHANGED <<rowVars, hook, media, carrierVars>>
    BY <1>7 DEF DialRelease
  <2>4. Owing(d)'
    BY <1>0, <2>1, <2>3, ReleaseOwes DEF Tracked, Owing, rowVars
  <2> HIDE DEF TypeOK
  <2>5. Tracked(d)'
    BY <1>0, <2>3, <2>4
       DEF Tracked, Begun, Heard, Left, Ended, rowVars, carrierVars
  <2> QED BY <2>2, <2>5, OneTrack
<1>8. CASE DialDbError(d)
  <2>1. \A c \in Calls : c # d => UNCHANGED Track(c)
    BY <1>8 DEF DialDbError, Track, rowVars, creditVars, carrierVars
  <2>2. Tracked(d)'
    BY <1>0, <1>8 DEF DialDbError, Tracked, Begun, Heard, Owing, Left, Ended,
       InFlight, rowVars, creditVars, carrierVars
  <2> QED BY <2>1, <2>2, OneTrack
<1> QED BY <1>1, <1>2, <1>3, <1>4, <1>5, <1>6, <1>7, <1>8 DEF Dialling

(* The carrier. *)
LEMMA CarrierTracks ==
  ASSUME TypeOK, TrackInv, NEW d \in Calls, Carrier(d)
  PROVE  TrackInv'
<1> USE DEF TypeOK
<1>0. Tracked(d)
  BY DEF TrackInv
<1>1. CASE CarrierPlaces(d)
  <2>1. \A c \in Calls : c # d => UNCHANGED Track(c)
    BY <1>1 DEF CarrierPlaces, Track, rowVars, creditVars
  <2>2. Tracked(d)'
    BY <1>0, <1>1 DEF CarrierPlaces, Tracked, Begun, Heard, Owing, Left,
       Ended, InFlight, rowVars, creditVars
  <2> QED BY <2>1, <2>2, OneTrack
<1>2. CASE CarrierRejects(d)
  <2>1. \A c \in Calls : c # d => UNCHANGED Track(c)
    BY <1>2 DEF CarrierRejects, Track, rowVars, creditVars, carrierVars
  <2>2. Tracked(d)'
    BY <1>0, <1>2 DEF CarrierRejects, Tracked, Begun, Heard, Owing, Left,
       Ended, InFlight, rowVars, creditVars, carrierVars
  <2> QED BY <2>1, <2>2, OneTrack
<1>3. CASE Answer(d)
  <2>1. \A c \in Calls : c # d => UNCHANGED Track(c)
    BY <1>3 DEF Answer, Track, rowVars, creditVars, taskVars
  <2>2. Tracked(d)'
    BY <1>0, <1>3 DEF Answer, Tracked, Begun, Heard, Owing, Left, Ended,
       InFlight, rowVars, creditVars, taskVars
  <2> QED BY <2>1, <2>2, OneTrack
<1>4. CASE RingEnds(d)
  <2>1. \A c \in Calls : c # d => UNCHANGED Track(c)
    BY <1>4 DEF RingEnds, Down, Track, rowVars, creditVars, taskVars
  <2>2. Tracked(d)'
    BY <1>0, <1>4 DEF RingEnds, Down, Tracked, Begun, Heard, Owing, Left,
       Ended, InFlight, rowVars, creditVars, taskVars
  <2> QED BY <2>1, <2>2, OneTrack
<1>5. CASE FarHangup(d)
  <2>1. \A c \in Calls : c # d => UNCHANGED Track(c)
    BY <1>5 DEF FarHangup, Down, Track, rowVars, creditVars, taskVars
  <2>2. Tracked(d)'
    BY <1>0, <1>5 DEF FarHangup, Down, Tracked, Begun, Heard, Owing, Left,
       Ended, InFlight, rowVars, creditVars, taskVars
  <2> QED BY <2>1, <2>2, OneTrack
<1> QED BY <1>1, <1>2, <1>3, <1>4, <1>5 DEF Carrier

(* The bridge ends a row only after its line has been hung up. *)
LEMMA BridgeTracks ==
  ASSUME TypeOK, TrackInv, NEW d \in Calls, Bridge(d)
  PROVE  TrackInv'
<1> USE DEF TypeOK
<1>0. Tracked(d)
  BY DEF TrackInv
<1>1. CASE SocketOpens(d)
  <2>1. \A c \in Calls : c # d => UNCHANGED Track(c)
    BY <1>1 DEF SocketOpens, Track, rowVars, creditVars
  <2>2. Tracked(d)'
    BY <1>0, <1>1 DEF SocketOpens, Tracked, Begun, Heard, Owing, Left, Ended,
       InFlight, rowVars, creditVars
  <2> QED BY <2>1, <2>2, OneTrack
<1>2. CASE PumpProviderEnds(d)
  <2>1. \A c \in Calls : c # d => UNCHANGED Track(c)
    BY <1>2 DEF PumpProviderEnds, Track, rowVars, creditVars, carrierVars
  <2>2. Tracked(d)'
    BY <1>0, <1>2 DEF PumpProviderEnds, Tracked, Begun, Heard, Owing, Left,
       Ended, InFlight, rowVars, creditVars, carrierVars
  <2> QED BY <2>1, <2>2, OneTrack
<1>3. CASE PumpRoomEnds(d)
  <2>1. \A c \in Calls : c # d => UNCHANGED Track(c)
    BY <1>3 DEF PumpRoomEnds, Track, rowVars, creditVars, carrierVars
  <2>2. Tracked(d)'
    BY <1>0, <1>3 DEF PumpRoomEnds, Tracked, Begun, Heard, Owing, Left,
       Ended, InFlight, rowVars, creditVars, carrierVars
  <2> QED BY <2>1, <2>2, OneTrack
<1>4. CASE PumpFails(d)
  <2>1. \A c \in Calls : c # d => UNCHANGED Track(c)
    BY <1>4 DEF PumpFails, Track, rowVars, creditVars, carrierVars
  <2>2. Tracked(d)'
    BY <1>0, <1>4 DEF PumpFails, Tracked, Begun, Heard, Owing, Left, Ended,
       InFlight, rowVars, creditVars, carrierVars
  <2> QED BY <2>1, <2>2, OneTrack
<1>5. CASE GraceSeesTerminal(d)
  <2>1. \A c \in Calls : c # d => UNCHANGED Track(c)
    BY <1>5 DEF GraceSeesTerminal, Track, rowVars, creditVars, carrierVars
  <2>2. Tracked(d)'
    BY <1>0, <1>5 DEF GraceSeesTerminal, Tracked, Begun, Heard, Owing, Left,
       Ended, InFlight, rowVars, creditVars, carrierVars
  <2> QED BY <2>1, <2>2, OneTrack
<1>6. CASE GraceElapses(d)
  <2>1. \A c \in Calls : c # d => UNCHANGED Track(c)
    BY <1>6 DEF GraceElapses, Track, rowVars, creditVars, carrierVars
  <2>2. Tracked(d)'
    BY <1>0, <1>6 DEF GraceElapses, Tracked, Begun, Heard, Owing, Left,
       Ended, InFlight, rowVars, creditVars, carrierVars
  <2> QED BY <2>1, <2>2, OneTrack
<1>7. CASE EndHangup(d)
  <2>1. \A c \in Calls : c # d => UNCHANGED Track(c)
    BY <1>7 DEF EndHangup, HangupLeg, Down, Track, rowVars, creditVars
  <2>2. Tracked(d)'
    BY <1>0, <1>7 DEF EndHangup, HangupLeg, Down, Tracked, Begun, Heard,
       Owing, Left, Ended, InFlight, rowVars, creditVars
  <2> QED BY <2>1, <2>2, OneTrack
<1>8. CASE EndMark(d)
  <2>1. \A c \in Calls : c # d => UNCHANGED Track(c)
    BY <1>8 DEF EndMark, Track, creditVars, carrierVars
  <2>2. Tracked(d)'
    BY <1>0, <1>8 DEF EndMark, Tracked, Begun, Heard, Owing, Left, Ended,
       InFlight, creditVars, carrierVars
  <2> QED BY <2>1, <2>2, OneTrack
<1>9. CASE EndSkips(d)
  <2>1. \A c \in Calls : c # d => UNCHANGED Track(c)
    BY <1>9 DEF EndSkips, Track, rowVars, creditVars, carrierVars
  <2>2. Tracked(d)'
    BY <1>0, <1>9 DEF EndSkips, Tracked, Begun, Heard, Owing, Left, Ended,
       InFlight, rowVars, creditVars, carrierVars
  <2> QED BY <2>1, <2>2, OneTrack
<1>10. CASE EndRelease(d)
  <2>1. Credits!ReleaseIfHeld(d)
    BY <1>10 DEF EndRelease
  <2>2. \A c \in Calls : c # d => UNCHANGED Track(c)
    BY <1>10, <2>1, ReleaseFacts DEF EndRelease, Track, rowVars, carrierVars
  <2>3. /\ media[d] = "marked" /\ media'[d] = "over"
        /\ UNCHANGED <<rowVars, hook, dial, carrierVars>>
    BY <1>10 DEF EndRelease
  <2>4. Owing(d)'
    BY <1>0, <2>1, <2>3, ReleaseOwes DEF Tracked, Owing, rowVars
  <2> HIDE DEF TypeOK
  <2>5. Tracked(d)'
    BY <1>0, <2>3, <2>4
       DEF Tracked, Begun, Heard, Left, Ended, rowVars, carrierVars
  <2> QED BY <2>2, <2>5, OneTrack
<1> QED BY <1>1, <1>2, <1>3, <1>4, <1>5, <1>6, <1>7, <1>8, <1>9, <1>10
        DEF Bridge

(* The people in the room. *)
LEMMA RoomTracks ==
  ASSUME TypeOK, TrackInv, NEW d \in Calls, Room(d)
  PROVE  TrackInv'
<1> USE DEF TypeOK
<1>0. Tracked(d)
  BY DEF TrackInv
<1>1. CASE RequestHangup(d)
  <2>1. \A c \in Calls : c # d => UNCHANGED Track(c)
    BY <1>1 DEF RequestHangup, HangupLeg, Down, Track, rowVars, creditVars,
       taskVars
  <2>2. Tracked(d)'
    BY <1>0, <1>1 DEF RequestHangup, HangupLeg, Down, Tracked, Begun, Heard,
       Owing, Left, Ended, InFlight, rowVars, creditVars, taskVars
  <2> QED BY <2>1, <2>2, OneTrack
<1>2. CASE RoomOrphaned(d)
  <2>1. \A c \in Calls : c # d => UNCHANGED Track(c)
    BY <1>2 DEF RoomOrphaned, Track, rowVars, creditVars, carrierVars
  <2>2. Tracked(d)'
    BY <1>0, <1>2 DEF RoomOrphaned, Tracked, Begun, Heard, Owing, Left,
       Ended, InFlight, rowVars, creditVars, carrierVars
  <2> QED BY <2>1, <2>2, OneTrack
<1>3. CASE hangup_orphaned_leg(d)
  <2>1. \A c \in Calls : c # d => UNCHANGED Track(c)
    BY <1>3 DEF hangup_orphaned_leg, HangupLeg, Down, Track, rowVars,
       creditVars
  <2>2. Tracked(d)'
    BY <1>0, <1>3 DEF hangup_orphaned_leg, HangupLeg, Down, Tracked, Begun,
       Heard, Owing, Left, Ended, InFlight, rowVars, creditVars
  <2> QED BY <2>1, <2>2, OneTrack
<1> QED BY <1>1, <1>2, <1>3 DEF Room

(* The sweeps fail only a call that was not seen answered. *)
LEMMA SweepTracks ==
  ASSUME TypeOK, TrackInv, NEW d \in Calls, Sweep(d)
  PROVE  TrackInv'
<1> USE DEF TypeOK
<1>0. Tracked(d)
  BY DEF TrackInv
<1>1. CASE fail_stalled_calls(d)
  <2>1. \A c \in Calls : c # d => UNCHANGED Track(c)
    BY <1>1 DEF fail_stalled_calls, Stalled, Reclaim, Track, creditVars,
       carrierVars
  <2>2. Tracked(d)'
    BY <1>0, <1>1 DEF fail_stalled_calls, Stalled, Reclaim, Tracked, Begun,
       Heard, Owing, Left, Ended, InFlight, creditVars, carrierVars
  <2> QED BY <2>1, <2>2, OneTrack
<1>2. CASE settle_finished_calls(d)
  <2>1. UNCHANGED <<rowVars, taskVars, carrierVars>>
    BY <1>2 DEF settle_finished_calls
  <2>2. CASE Credits!settle(d, consumed[d])
    <3>1. hold[d].state = "held" /\ consumed[d] \in Nat
      BY <1>2, VoipAssumption DEF settle_finished_calls
    <3>2. \A c \in Calls : c # d => UNCHANGED Track(c)
      BY <2>1, <2>2, <3>1, SettleFacts DEF Track, rowVars, taskVars,
         carrierVars
    <3>3. Owing(d)'
      BY <1>0, <2>1, <2>2, <3>1, SettleFacts DEF Tracked, Owing, rowVars
    <3> HIDE DEF TypeOK
    <3>4. Tracked(d)'
      BY <1>0, <2>1, <3>3 DEF Tracked, Begun, Heard, Left, Ended, rowVars,
         taskVars, carrierVars
    <3> QED BY <3>2, <3>4, OneTrack
  <2>3. CASE Credits!release(d)
    <3>1. Credits!ReleaseIfHeld(d)
      BY <1>2, <2>3 DEF settle_finished_calls, Credits!ReleaseIfHeld,
         Credits!Open
    <3>2. \A c \in Calls : c # d => UNCHANGED Track(c)
      BY <2>1, <3>1, ReleaseFacts DEF Track, rowVars, taskVars, carrierVars
    <3>3. Owing(d)'
      BY <1>0, <2>1, <3>1, ReleaseOwes DEF Tracked, Owing, rowVars
    <3> HIDE DEF TypeOK
    <3>4. Tracked(d)'
      BY <1>0, <2>1, <3>3 DEF Tracked, Begun, Heard, Left, Ended, rowVars,
         taskVars, carrierVars
    <3> QED BY <3>2, <3>4, OneTrack
  <2> QED BY <1>2, <2>2, <2>3 DEF settle_finished_calls
<1>3. CASE ReapHangup(d)
  <2>1. \A c \in Calls : c # d => UNCHANGED Track(c)
    BY <1>3 DEF ReapHangup, HangupLeg, Down, Track, rowVars, creditVars
  <2>2. Tracked(d)'
    BY <1>0, <1>3 DEF ReapHangup, HangupLeg, Down, Tracked, Begun, Heard,
       Owing, Left, Ended, InFlight, rowVars, creditVars
  <2> QED BY <2>1, <2>2, OneTrack
<1>4. CASE ReapMark(d)
  <2>1. \A c \in Calls : c # d => UNCHANGED Track(c)
    BY <1>4 DEF ReapMark, Track, creditVars, carrierVars
  <2>2. Tracked(d)'
    BY <1>0, <1>4 DEF ReapMark, Tracked, Begun, Heard, Owing, Left, Ended,
       InFlight, creditVars, carrierVars
  <2> QED BY <2>1, <2>2, OneTrack
<1> QED BY <1>1, <1>2, <1>3, <1>4 DEF Sweep

(* The webhooks, also those that overtake the dial request. *)
LEMMA WebhookTracks ==
  ASSUME TypeOK, TrackInv, NEW d \in Calls, Webhook(d)
  PROVE  TrackInv'
<1> USE DEF TypeOK
<1>0. Tracked(d)
  BY DEF TrackInv
<1>1. CASE \E k \in inflight[d] : Deliver(d, k)
  <2> PICK k \in inflight[d] : Deliver(d, k)
    BY <1>1
  <2> DEFINE after == next(status[d], EventOf(k))
  <2>1. k \in Wires /\ EventOf(k) \in CallEvents
    BY EventIsEvent DEF Wires
  <2>2. /\ status[d] \in CallStates
        /\ dial[d] \notin {"idle", "admitted", "unpaid", "reserved"}
    BY <1>0 DEF Tracked, Begun
  <2>3. is_terminal(after) => k = "hangup"
    BY <2>1, <2>2, HangupAlone
  <2>4. after = NoMove \/ after \in CallStates
    BY <2>1, <2>2, NextClimbs
  <2>5. Ended(d) => after = NoMove
    BY TerminalAbsorbs DEF Ended, is_terminal
  <2> HIDE DEF after
  <2>6. /\ status'[d] = IF after = NoMove THEN status[d] ELSE after
        /\ answered'[d] = (answered[d] \/ after = "answered")
        /\ hook'[d] = hook[d]
                        \cup (IF after = "answered" THEN {"arm"} ELSE {})
                        \cup (IF is_terminal(after) THEN {"reclaim"} ELSE {})
        /\ inflight'[d] = inflight[d] \ {k} /\ legs'[d] = TRUE
        /\ UNCHANGED <<dial, media, leg, stream>>
    BY DEF Deliver, after
  <2>7. /\ Owing(d)'
        /\ \A c \in Calls : c # d => UNCHANGED Track(c)
    <3>1. CASE ~is_terminal(after)
      <4>1. UNCHANGED <<consumed, creditVars>>
        BY <3>1 DEF Deliver, after
      <4> QED BY <1>0, <2>6, <4>1 DEF Deliver, Track, Tracked, Owing,
                 creditVars
    <3>2. CASE is_terminal(after)
      <4>1. PICK cost \in MayOwe(d) : Settle(d, after, cost)
        BY <3>2 DEF Deliver, after
      <4>2. cost \in Nat /\ (cost > 0 => answered[d])
        BY VoipAssumption DEF MayOwe
      <4>3. answered[d] => answered'[d]
        BY <2>6
      <4>4. CASE after = "completed"
        <5>1. /\ consumed' = [consumed EXCEPT ![d] = cost]
              /\ Credits!SettleIfHeld(d, cost)
          BY <4>1, <4>4 DEF Settle
        <5>2. \A c \in Calls : c # d => UNCHANGED Track(c)
          BY <1>0, <4>2, <5>1, SettleOwes DEF Deliver, Track, Tracked
        <5>3. Owing(d)'
          BY <1>0, <4>2, <4>3, <5>1, SettleOwes DEF Tracked, Owing
        <5> QED BY <5>2, <5>3
      <4>5. CASE after # "completed"
        <5>1. /\ consumed' = [consumed EXCEPT ![d] = 0]
              /\ Credits!ReleaseIfHeld(d)
          BY <4>1, <4>5 DEF Settle
        <5>2. \A c \in Calls : c # d => UNCHANGED Track(c)
          BY <5>1, ReleaseFacts DEF Deliver, Track
        <5>3. Owing(d)'
          BY <1>0, <4>3, <5>1, ReleaseOwes DEF Tracked, Owing
        <5> QED BY <5>2, <5>3
      <4> QED BY <4>4, <4>5
    <3> QED BY <3>1, <3>2
  <2> HIDE DEF TypeOK
  <2>8. Begun(d)'
    BY <1>0, <2>2, <2>4, <2>6 DEF Tracked, Begun, CallStates
  <2>9. Heard(d)'
    BY <1>0, <2>6 DEF Tracked, Heard
  <2>10. ~Faults => Left(d)'
    BY <1>0, <2>3, <2>4, <2>5, <2>6
       DEF Tracked, Heard, Left, Ended, is_terminal, NoMove
  <2> QED BY <2>7, <2>8, <2>9, <2>10, OneTrack DEF Tracked
<1>2. CASE \E k \in inflight[d] : LoseWebhook(d, k)
  <2>1. \A c \in Calls : c # d => UNCHANGED Track(c)
    BY <1>2 DEF LoseWebhook, Track, rowVars, creditVars, taskVars
  <2>2. Tracked(d)'
    BY <1>0, <1>2 DEF LoseWebhook, Tracked, Begun, Heard, Owing, Left, Ended,
       rowVars, creditVars, taskVars
  <2> QED BY <2>1, <2>2, OneTrack
<1>3. CASE HookArm(d)
  <2>1. \A c \in Calls : c # d => UNCHANGED Track(c)
    BY <1>3 DEF HookArm, Track, rowVars, creditVars
  <2>2. Tracked(d)'
    BY <1>0, <1>3 DEF HookArm, Tracked, Begun, Heard, Owing, Left, Ended,
       InFlight, rowVars, creditVars
  <2> QED BY <2>1, <2>2, OneTrack
<1>4. CASE HookReclaim(d)
  <2>1. \A c \in Calls : c # d => UNCHANGED Track(c)
    BY <1>4 DEF HookReclaim, Reclaim, Track, rowVars, creditVars, carrierVars
  <2>2. Tracked(d)'
    BY <1>0, <1>4 DEF HookReclaim, Reclaim, Tracked, Begun, Heard, Owing,
       Left, Ended, InFlight, rowVars, creditVars, carrierVars
  <2> QED BY <2>1, <2>2, OneTrack
<1> QED BY <1>1, <1>2, <1>3, <1>4 DEF Webhook

(* Every step keeps it, a restart included. *)
LEMMA TrackStep == TypeOK /\ TrackInv /\ [Next]_vars => TrackInv'
<1> SUFFICES ASSUME TypeOK, TrackInv, [Next]_vars PROVE TrackInv'
  OBVIOUS
<1>1. ASSUME NEW o \in Orgs, NEW n \in Amounts, OtherCharge(o, n)
      PROVE  TrackInv'
  <2>1. \A c \in Calls : UNCHANGED Track(c)
    BY <1>1 DEF OtherCharge, Credits!OtherCharge, Track, rowVars, taskVars,
       carrierVars
  <2> QED BY <2>1, NoTrack
<1>2. CASE UNCHANGED vars
  <2>1. \A c \in Calls : UNCHANGED Track(c)
    BY <1>2 DEF vars, Track, rowVars, creditVars, taskVars, carrierVars
  <2> QED BY <2>1, NoTrack
<1>3. CASE Crash
  <2> SUFFICES ASSUME NEW c \in Calls PROVE Tracked(c)'
    BY DEF TrackInv
  <2>1. Tracked(c)
    BY DEF TrackInv
  <2>2. /\ dial'[c] = IF dial[c] = "idle" THEN "idle" ELSE "over"
        /\ media'[c] = IF media[c] = "none" THEN "none" ELSE "over"
        /\ hook'[c] = {}
        /\ UNCHANGED <<rowVars, creditVars, carrierVars>>
    BY <1>3 DEF Crash
  <2> QED BY <2>1, <2>2 DEF Tracked, Begun, Heard, Owing, Left, Ended,
             rowVars, creditVars, carrierVars
<1> QED BY <1>1, <1>2, <1>3, DiallingTracks, CarrierTracks, WebhookTracks,
           BridgeTracks, RoomTracks, SweepTracks DEF Next

(* It holds of every behaviour, whatever fails, is lost or comes early. *)
LEMMA TrackInvariant == Spec => []TrackInv
<1>1. Init => TrackInv
  BY DEF Init, TrackInv, Tracked, Begun, Heard, Owing, Left, Ended,
     Credits!Init, Credits!NoHold
<1>2. TypeOK /\ TrackInv /\ [Next]_vars => TrackInv'
  BY TrackStep
<1> QED BY <1>1, <1>2, CallTypes, PTL DEF Spec

-----------------------------------------------------------------------------
(* Every writer of the status column, and what it may write.               *)

Up(s, t) ==
  /\ s \in CallStates /\ t \in CallStates
  /\ rank(t) >= rank(s)
  /\ s \in {"completed", "failed"} => t = s

Written == \E d \in Calls, t \in CallStates :
             Up(status[d], t) /\ status' = [status EXCEPT ![d] = t]

(* Failing an open call. *)
LEMMA FailIsUp ==
  ASSUME NEW s \in CallStates, s # "completed"
  PROVE  Up(s, "failed")
  BY Ranks, LastRanks DEF Up, CallStates

(* Asking for the hangup of an answered call. *)
LEMMA EndingIsUp ==
  ASSUME NEW s \in {"answered", "bridged", "ending"}
  PROVE  Up(s, "ending")
  BY Ranks, LastRanks DEF Up, CallStates

(* What `dial` writes when its answer comes back: the two statements that  *)
(* do not look at the row.                                                 *)
Overwritten(d) == DialRecord(d) \/ (Faults /\ DialFail(d))

(* A step leaves the status alone, admits a call, overwrites it or writes  *)
(* it upwards.                                                             *)
LEMMA StatusMoves ==
  ASSUME TypeOK, TrackInv, [Next]_vars
  PROVE  \/ UNCHANGED status
         \/ \E d \in Calls : DialAdmit(d) \/ Overwritten(d)
         \/ Written
<1>1. ASSUME NEW d \in Calls, DialRefuse(d) \/ (~Faults /\ DialFail(d))
      PROVE  Written
  <2>1. status[d] = "created" /\ status' = [status EXCEPT ![d] = "failed"]
    BY <1>1 DEF TrackInv, Tracked, Begun, Left, DialRefuse, DialFail, fail
  <2> QED BY <2>1, FailIsUp DEF Written, CallStates
<1>2. ASSUME NEW d \in Calls, DialRecord(d) \/ DialFail(d)
      PROVE  Overwritten(d) \/ Written
  BY <1>1, <1>2 DEF Overwritten
<1>3. ASSUME NEW d \in Calls, NEW k \in inflight[d], Deliver(d, k)
      PROVE  UNCHANGED status \/ Written
  <2> DEFINE after == next(status[d], EventOf(k))
  <2>1. status' = [status EXCEPT ![d] = IF after = NoMove THEN @ ELSE after]
    BY <1>3 DEF Deliver
  <2>2. CASE after = NoMove
    BY <2>1, <2>2 DEF TypeOK
  <2>3. CASE after # NoMove
    <3>1. status[d] \in CallStates
      BY <1>3 DEF Deliver, TypeOK, TrackInv, Tracked, Begun
    <3>2. EventOf(k) \in CallEvents
      BY EventIsEvent DEF Wires, TypeOK
    <3>3. ~is_terminal(status[d])
      BY <2>3, TerminalAbsorbs
    <3>4. after \in CallStates /\ rank(after) > rank(status[d])
      BY <2>3, <3>1, <3>2, NextClimbs
    <3>5. Up(status[d], after)
      <4>1. rank(after) \in Nat /\ rank(status[d]) \in Nat
        BY <3>1, <3>4, Ranks, LastRanks DEF CallStates
      <4> QED BY <3>1, <3>3, <3>4, <4>1 DEF Up, is_terminal
    <3> QED BY <2>1, <2>3, <3>4, <3>5 DEF Written
  <2> QED BY <2>2, <2>3
<1>4. ASSUME NEW d \in Calls, EndMark(d) PROVE Written
  <2>1. status[d] \in CallStates \ {"completed", "failed"}
    BY <1>4 DEF TypeOK, TrackInv, Tracked, Begun, Heard, EndMark, Ended
  <2> QED BY <1>4, <2>1, FailIsUp DEF EndMark, Written, CallStates
<1>5. ASSUME NEW d \in Calls, fail_stalled_calls(d) PROVE Written
  <2>1. /\ status[d] \in {"created", "dialing", "ringing"}
        /\ status' = [status EXCEPT ![d] = "failed"]
    BY <1>5 DEF fail_stalled_calls, Stalled
  <2> QED BY <2>1, FailIsUp DEF Written, CallStates
<1>6. ASSUME NEW d \in Calls, ReapMark(d)
      PROVE  UNCHANGED status \/ Written
  <2>1. CASE status[d] \in {"answered", "bridged"}
    <3>1. status' = [status EXCEPT ![d] = "ending"]
      BY <1>6, <2>1 DEF ReapMark
    <3> QED BY <2>1, <3>1, EndingIsUp DEF Written, CallStates
  <2>2. CASE status[d] \notin {"answered", "bridged"}
    BY <1>6, <2>2 DEF ReapMark, TypeOK
  <2> QED BY <2>1, <2>2
<1>7. ASSUME NEW d \in Calls, Dialling(d)
      PROVE  UNCHANGED status \/ DialAdmit(d) \/ Overwritten(d) \/ Written
  BY <1>1, <1>2, <1>7 DEF Dialling, DialReserve, DialUnpaid, DialRelease,
     DialDbError, rowVars
<1>8. ASSUME NEW d \in Calls, Carrier(d) \/ Room(d) PROVE UNCHANGED status
  BY <1>8 DEF Carrier, CarrierPlaces, CarrierRejects, Answer, RingEnds,
     FarHangup, Room, RequestHangup, RoomOrphaned, hangup_orphaned_leg, rowVars
<1>9. ASSUME NEW d \in Calls, Webhook(d) PROVE UNCHANGED status \/ Written
  BY <1>3, <1>9 DEF Webhook, LoseWebhook, HookArm, HookReclaim, rowVars
<1>10. ASSUME NEW d \in Calls, Bridge(d) PROVE UNCHANGED status \/ Written
  BY <1>4, <1>10 DEF Bridge, SocketOpens, PumpProviderEnds, PumpRoomEnds,
     PumpFails, GraceSeesTerminal, GraceElapses, EndHangup, EndSkips,
     EndRelease, rowVars
<1>11. ASSUME NEW d \in Calls, Sweep(d) PROVE UNCHANGED status \/ Written
  BY <1>5, <1>6, <1>11 DEF Sweep, settle_finished_calls, ReapHangup, rowVars
<1>12. CASE Crash \/ UNCHANGED vars
             \/ (\E o \in Orgs, n \in Amounts : OtherCharge(o, n))
  BY <1>12 DEF Crash, vars, OtherCharge, rowVars
<1> QED BY <1>7, <1>8, <1>9, <1>10, <1>11, <1>12 DEF Next

(* Before its dial request has returned, a call is overwritten upwards. *)
LEMMA StatusWrites ==
  ASSUME TypeOK, CallInv, TrackInv, [Next]_vars
  PROVE  \/ UNCHANGED status
         \/ \E d \in Calls : DialAdmit(d)
         \/ Written
<1>1. ASSUME NEW d \in Calls, DialFail(d) PROVE Written
  <2>1. status[d] = "created" /\ status' = [status EXCEPT ![d] = "failed"]
    BY <1>1 DEF CallInv, Placing, DialFail, fail
  <2> QED BY <2>1, FailIsUp DEF Written, CallStates
<1>2. ASSUME NEW d \in Calls, DialRecord(d) PROVE Written
  <2>1. status[d] = "created" /\ status' = [status EXCEPT ![d] = "dialing"]
    BY <1>2 DEF CallInv, Placing, DialRecord
  <2>2. Up("created", "dialing")
    BY Ranks DEF Up, CallStates
  <2> QED BY <2>1, <2>2 DEF Written, CallStates
<1> QED BY <1>1, <1>2, StatusMoves DEF Overwritten

(* What LifecycleNeverTurnsBack says of a step and a call. *)
Rises(c) ==
  /\ status'[c] # "absent" /\ rank(status'[c]) >= rank(status[c])
  /\ Ended(c) => status'[c] = status[c]

(* A row that is left alone or written upwards rises. *)
LEMMA WrittenRises ==
  ASSUME TypeOK, NEW c \in Calls, status[c] # "absent",
         status'[c] = status[c] \/ Written
  PROVE  Rises(c)
<1>1. status[c] \in CallStates /\ rank(status[c]) \in Nat
  BY Ranks, LastRanks DEF TypeOK, CallStates
<1>2. CASE status'[c] = status[c]
  BY <1>1, <1>2 DEF Rises, CallStates
<1>3. CASE Written
  <2>1. PICK d \in Calls, t \in CallStates :
          Up(status[d], t) /\ status' = [status EXCEPT ![d] = t]
    BY <1>3 DEF Written
  <2>2. CASE c = d
    BY <2>1, <2>2 DEF Rises, Up, Ended, TypeOK, CallStates
  <2>3. CASE c # d
    BY <1>2, <2>1, <2>3 DEF TypeOK
  <2> QED BY <2>2, <2>3
<1> QED BY <1>2, <1>3

(* An admission writes the row of a call that had none. *)
LEMMA AdmitRises ==
  ASSUME TypeOK, TrackInv, NEW c \in Calls, status[c] # "absent",
         NEW d \in Calls, DialAdmit(d)
  PROVE  status'[c] = status[c]
<1>1. status[d] = "absent" /\ status' = [status EXCEPT ![d] = "created"]
  BY DEF DialAdmit, TrackInv, Tracked, Begun
<1> QED BY <1>1 DEF TypeOK

(* Monotonic and Absorbing, for every writer of the row and not only for   *)
(* `next`: as long as `dial` has returned before its webhooks are applied.  *)
THEOREM LifecycleRises ==
  ASSUME ~EarlyWebhooks PROVE Spec => LifecycleNeverTurnsBack
<1> DEFINE A == \A c \in Calls : status[c] # "absent" => Rises(c)
<1>1. TypeOK /\ CallInv /\ TrackInv /\ [Next]_vars => [A]_vars
  BY StatusWrites, WrittenRises, AdmitRises
<1> QED BY <1>1, CallTypes, CallInvariant, TrackInvariant, PTL
       DEF Spec, LifecycleNeverTurnsBack, Rises

(* No writer but the dial request turns a row back or out of a terminal    *)
(* state, and of that request only the two statements that do not look at  *)
(* the row: the one that records the carrier's answer, and the one for an  *)
(* answer that was lost.                                                   *)
OnlyTheDialTurnsBack ==
  [][\A c \in Calls :
       status[c] # "absent" =>
         Rises(c) \/ DialRecord(c) \/ (Faults /\ DialFail(c))]_vars

(* Webhooks may overtake the request, be lost, statements may fail and the *)
(* server restart: a row that turns back was overwritten by `dial`         *)
(* (service.rs), and by nobody else.                                       *)
THEOREM OnlyTheDialOverwrites == Spec => OnlyTheDialTurnsBack
<1> DEFINE A == \A c \in Calls :
       status[c] # "absent" =>
         Rises(c) \/ DialRecord(c) \/ (Faults /\ DialFail(c))
<1>1. TypeOK /\ TrackInv /\ [Next]_vars => [A]_vars
  <2> SUFFICES ASSUME TypeOK, TrackInv, [Next]_vars,
                      NEW c \in Calls, status[c] # "absent"
               PROVE  Rises(c) \/ Overwritten(c)
    BY DEF Overwritten
  <2>1. ASSUME NEW d \in Calls, Overwritten(d), c # d
        PROVE  status'[c] = status[c]
    BY <2>1 DEF Overwritten, DialRecord, DialFail, fail, TypeOK
  <2> QED BY <2>1, StatusMoves, WrittenRises, AdmitRises
<1> QED BY <1>1, CallTypes, TrackInvariant, PTL
       DEF Spec, OnlyTheDialTurnsBack

(* Nobody pays for a call that was never answered, and nothing is owed for *)
(* one.                                                                    *)
OnlyTheAnsweredPay ==
  \A c \in Calls :
    consumed[c] > 0 \/ owed[c] > 0 \/ hold[c].settled > 0 => answered[c]

(* Whichever of the transactions that settle a call commits, in whichever  *)
(* order, with early and lost webhooks and over any restart.               *)
THEOREM NobodyPaysUnanswered == Spec => []OnlyTheAnsweredPay
<1>1. TrackInv => OnlyTheAnsweredPay
  BY DEF TrackInv, Tracked, Owing, OnlyTheAnsweredPay
<1> QED BY <1>1, TrackInvariant, PTL

(* The line a lost webhook leaves behind: the sweep has failed a call that *)
(* was picked up and whose `answered` never came.  It cost nothing, and    *)
(* nobody has heard a word on it.                                          *)
LeftLinesAreUnheard ==
  \A c \in Calls :
    leg[c] \in {"ringing", "up"} /\ Ended(c)
      => /\ leg[c] = "up" /\ status[c] = "failed"
         /\ ~answered[c] /\ media[c] = "none" /\ hold[c].settled = 0

(* As long as no request fails, whatever webhooks are lost or come early.  *)
THEOREM LossLeavesUnheardLines ==
  ASSUME ~Faults PROVE Spec => []LeftLinesAreUnheard
<1>1. TypeOK /\ TrackInv => LeftLinesAreUnheard
  <2> SUFFICES ASSUME TypeOK, TrackInv, NEW c \in Calls,
                      leg[c] \in {"ringing", "up"}, Ended(c)
               PROVE  /\ leg[c] = "up" /\ status[c] = "failed"
                      /\ ~answered[c] /\ media[c] = "none"
                      /\ hold[c].settled = 0
    BY DEF LeftLinesAreUnheard
  <2>1. Tracked(c)
    BY DEF TrackInv
  <2>2. hold[c].settled \in Nat
    BY DEF TypeOK, Credits!TypeOK, Credits!HoldRow
  <2> QED BY <2>1, <2>2 DEF Tracked, Heard, Owing, Left
<1> QED BY <1>1, CallTypes, TrackInvariant, PTL

-----------------------------------------------------------------------------
(* The caps.  Only an admission adds to the live calls, and it adds one.   *)

LiveOf(S) == {c \in S : status[c] \in Live}

(* The live calls can be counted. *)
LEMMA LiveIsFinite ==
  ASSUME NEW S \in SUBSET Calls
  PROVE  /\ IsFiniteSet(LiveOf(S)) /\ Cardinality(LiveOf(S)) \in Nat
         /\ LiveAmong(S) = Cardinality(LiveOf(S))
<1>1. IsFiniteSet(LiveOf(S))
  <2>1. LiveOf(S) \in SUBSET Calls
    BY DEF LiveOf
  <2> QED BY <2>1, VoipAssumption, FS_Subset
<1>2. Cardinality(LiveOf(S)) \in Nat
  BY <1>1, FS_CardinalityType
<1> QED BY <1>1, <1>2 DEF LiveAmong, LiveOf

(* No call is made live that was not. *)
NoneRevived == \A c \in Calls : status'[c] \in Live => status[c] \in Live

(* What writes the row upwards revives nobody. *)
LEMMA WrittenRevivesNobody ==
  ASSUME TypeOK, UNCHANGED status \/ Written
  PROVE  NoneRevived
<1>1. CASE UNCHANGED status
  BY <1>1 DEF NoneRevived
<1>2. CASE Written
  <2>1. PICK d \in Calls, t \in CallStates :
          Up(status[d], t) /\ status' = [status EXCEPT ![d] = t]
    BY <1>2 DEF Written
  <2> QED BY <2>1 DEF NoneRevived, Up, Live, TypeOK
<1> QED BY <1>1, <1>2

(* Without a revival no count of live calls grows. *)
LEMMA NobodyRevived ==
  ASSUME NoneRevived, NEW S \in SUBSET Calls
  PROVE  LiveAmong(S)' \in Nat /\ LiveAmong(S)' <= LiveAmong(S)
<1>1. LiveOf(S)' \in SUBSET LiveOf(S)
  BY DEF NoneRevived, LiveOf
<1>2. /\ Cardinality(LiveOf(S)') \in Nat
      /\ Cardinality(LiveOf(S)') <= Cardinality(LiveOf(S))
  BY <1>1, LiveIsFinite, FS_Subset, FS_CardinalityType
<1>3. LiveAmong(S)' = Cardinality(LiveOf(S)')
  BY DEF LiveAmong, LiveOf
<1> QED BY <1>2, <1>3, LiveIsFinite

(* An admission adds the admitted call to the sets it is in. *)
LEMMA OneAdmitted ==
  ASSUME TypeOK, NEW d \in Calls, DialAdmit(d), NEW S \in SUBSET Calls
  PROVE  /\ LiveAmong(S)' \in Nat
         /\ LiveAmong(S)' <= LiveAmong(S) + 1
         /\ d \notin S => LiveAmong(S)' = LiveAmong(S)
<1>1. status' = [status EXCEPT ![d] = "created"]
  BY DEF DialAdmit
<1>2. LiveOf(S)' = IF d \in S THEN LiveOf(S) \cup {d} ELSE LiveOf(S)
  <2>1. "created" \in Live
    BY DEF Live, CallStates
  <2>2. \A c \in S : status'[c] = IF c = d THEN "created" ELSE status[c]
    BY <1>1 DEF TypeOK
  <2> QED BY <2>1, <2>2 DEF LiveOf
<1>3. LiveAmong(S)' = Cardinality(LiveOf(S)')
  BY DEF LiveAmong, LiveOf
<1>4. /\ IsFiniteSet(LiveOf(S)) /\ Cardinality(LiveOf(S)) \in Nat
      /\ LiveAmong(S) = Cardinality(LiveOf(S))
  BY LiveIsFinite
<1>5. /\ Cardinality(LiveOf(S) \cup {d}) \in Nat
      /\ Cardinality(LiveOf(S) \cup {d}) <= Cardinality(LiveOf(S)) + 1
  <2>1. Cardinality(LiveOf(S) \cup {d}) =
          IF d \in LiveOf(S) THEN Cardinality(LiveOf(S))
          ELSE Cardinality(LiveOf(S)) + 1
    BY <1>4, FS_AddElement
  <2> QED BY <1>4, <2>1
<1> QED BY <1>2, <1>3, <1>4, <1>5

(* Neither an admission nor what revives nobody lifts a count over a cap. *)
LEMMA CapsStep ==
  ASSUME TypeOK, CapsHold, NoneRevived \/ \E d \in Calls : DialAdmit(d)
  PROVE  CapsHold'
<1>1. \A c \in Calls : /\ SameUser(c) \subseteq Calls
                        /\ SameOrg(c) \subseteq Calls
  BY DEF SameUser, SameOrg
<1>2. \A S \in SUBSET Calls : LiveAmong(S) \in Nat
  BY LiveIsFinite
<1>3. CASE NoneRevived
  <2>1. \A S \in SUBSET Calls :
          LiveAmong(S)' \in Nat /\ LiveAmong(S)' <= LiveAmong(S)
    BY <1>3, NobodyRevived
  <2>2. ASSUME NEW S \in SUBSET Calls, NEW m \in Nat, LiveAmong(S) <= m
        PROVE  LiveAmong(S)' <= m
    BY <1>2, <2>1, <2>2
  <2> QED BY <1>1, <2>2, VoipAssumption DEF CapsHold
<1>4. ASSUME NEW d \in Calls, DialAdmit(d) PROVE CapsHold'
  <2>1. /\ LiveAmong(SameUser(d)) < MaxPerUser
        /\ LiveAmong(SameOrg(d)) < MaxPerOrg
        /\ LiveAmong(Calls) < MaxGlobal
    BY <1>4 DEF DialAdmit, BelowCaps
  <2>2. ASSUME NEW S \in SUBSET Calls, NEW m \in Nat, LiveAmong(S) <= m,
               d \in S => LiveAmong(S) < m
        PROVE  LiveAmong(S)' <= m
    <3>1. /\ LiveAmong(S) \in Nat /\ LiveAmong(S)' \in Nat
          /\ LiveAmong(S)' <= LiveAmong(S) + 1
          /\ d \notin S => LiveAmong(S)' = LiveAmong(S)
      BY <1>2, <1>4, OneAdmitted
    <3> QED BY <2>2, <3>1
  <2>3. ASSUME NEW c \in Calls
        PROVE  /\ d \in SameUser(c) => SameUser(c) = SameUser(d)
               /\ d \in SameOrg(c) => SameOrg(c) = SameOrg(d)
    BY DEF SameUser, SameOrg
  <2>4. \A c \in Calls : LiveAmong(SameUser(c))' <= MaxPerUser
    BY <1>1, <2>1, <2>2, <2>3, VoipAssumption DEF CapsHold
  <2>5. \A c \in Calls : LiveAmong(SameOrg(c))' <= MaxPerOrg
    BY <1>1, <2>1, <2>2, <2>3, VoipAssumption DEF CapsHold
  <2>6. LiveAmong(Calls)' <= MaxGlobal
    BY <2>1, <2>2, VoipAssumption DEF CapsHold
  <2> QED BY <2>4, <2>5, <2>6 DEF CapsHold
<1> QED BY <1>3, <1>4

(* No interleaving of dials and endings puts more calls on the air than a  *)
(* user, an organisation or the platform may have.                         *)
THEOREM CapsAlwaysHold == ASSUME ~EarlyWebhooks PROVE Spec => []CapsHold
<1>1. Init => CapsHold
  <2> SUFFICES ASSUME Init PROVE CapsHold
    OBVIOUS
  <2>1. ASSUME NEW S \in SUBSET Calls PROVE LiveAmong(S) = 0
    <3>1. LiveOf(S) = {}
      BY DEF LiveOf, Live, CallStates, Init
    <3> QED BY <3>1, LiveIsFinite, FS_EmptySet
  <2>2. \A c \in Calls : /\ SameUser(c) \subseteq Calls
                          /\ SameOrg(c) \subseteq Calls
    BY DEF SameUser, SameOrg
  <2> QED BY <2>1, <2>2, VoipAssumption DEF CapsHold
<1>2. TypeOK /\ CallInv /\ TrackInv /\ CapsHold /\ [Next]_vars => CapsHold'
  BY StatusWrites, WrittenRevivesNobody, CapsStep
<1> QED BY <1>1, <1>2, CallTypes, CallInvariant, TrackInvariant, PTL DEF Spec

(* Whatever the webhooks do, the live calls pass a cap only in the step in *)
(* which a dial request writes over a call that was over already.          *)
OnlyARevivalLiftsTheCaps ==
  [][CapsHold => \/ CapsHold'
                 \/ \E c \in Calls : DialRecord(c) /\ Ended(c)]_vars

(* Early and lost webhooks, failing statements and restarts included.      *)
THEOREM RevivalAloneLiftsCaps == Spec => OnlyARevivalLiftsTheCaps
<1> DEFINE A == CapsHold => \/ CapsHold'
                           \/ \E c \in Calls : DialRecord(c) /\ Ended(c)
<1>1. TypeOK /\ TrackInv /\ [Next]_vars => [A]_vars
  <2> SUFFICES ASSUME TypeOK, TrackInv, [Next]_vars, CapsHold,
                      \A c \in Calls : ~(DialRecord(c) /\ Ended(c))
               PROVE  CapsHold'
    OBVIOUS
  <2>1. ASSUME NEW d \in Calls, Overwritten(d) PROVE NoneRevived
    <3>1. CASE DialRecord(d)
      <4>1. status[d] \in Live
        BY <3>1 DEF DialRecord, TypeOK, TrackInv, Tracked, Begun, Ended, Live
      <4> QED BY <3>1, <4>1 DEF DialRecord, TypeOK, NoneRevived
    <3>2. CASE DialFail(d)
      BY <3>2 DEF DialFail, fail, TypeOK, NoneRevived, Live
    <3> QED BY <2>1, <3>1, <3>2 DEF Overwritten
  <2> QED BY <2>1, StatusMoves, WrittenRevivesNobody, CapsStep
<1> QED BY <1>1, CallTypes, TrackInvariant, PTL
       DEF Spec, OnlyARevivalLiftsTheCaps

-----------------------------------------------------------------------------
(* What a call keeps in memory.  A webhook may be lost, and it may be       *)
(* applied before the dial request returns.                                *)

(* The phone in the room belongs to the request, to the parked leg or to   *)
(* the bridge that claimed it, and nothing is parked or bridged before the *)
(* hold is taken.  Whoever ends a call takes its parked leg, except a dial *)
(* request whose refund fails: it takes the phone, and leaves the leg.     *)
Owned(c) ==
  /\ leg[c] = "none" => inflight[c] = {}
  /\ dial[c] \in {"idle", "admitted", "unpaid"} => ~parked[c]
  /\ dial[c] \in {"idle", "admitted", "unpaid", "reserved"}
       => leg[c] = "none" /\ media[c] = "none"
  /\ dial[c] \in {"admitted", "unpaid", "reserved"} => status[c] = "created"
  /\ peer[c] /\ ~parked[c] => dial[c] \in {"admitted", "unpaid"}
                              \/ media[c] = "live"
  /\ dial[c] = "refunding" => status[c] = "failed"
  /\ parked[c] => \/ dial[c] = "refunding" \/ "reclaim" \in hook[c]
                  \/ ~Ended(c)
                  \/ Faults /\ status[c] = "failed" /\ ~peer[c]
  /\ media[c] # "none" => ~parked[c]

OwnInv == \A c \in Calls : Owned(c)

(* What Owned says of a call, it says of these. *)
Mark(c) == <<status[c], dial[c], hook[c], media[c], leg[c], inflight[c],
             parked[c], peer[c]>>

(* A step on one call that leaves it owned leaves every call owned. *)
LEMMA OneMark ==
  ASSUME OwnInv, NEW d \in Calls, Owned(d)',
         \A c \in Calls : c # d => UNCHANGED Mark(c)
  PROVE  OwnInv'
  BY DEF OwnInv, Owned, Mark, Ended, InFlight

(* A step that shows in no call's marks. *)
LEMMA NoMark ==
  ASSUME OwnInv, \A c \in Calls : UNCHANGED Mark(c)
  PROVE  OwnInv'
  BY DEF OwnInv, Owned, Mark, Ended, InFlight

(* The dial request parks the leg before the carrier is asked, and takes   *)
(* it back when it fails.                                                  *)
LEMMA DiallingOwns ==
  ASSUME TypeOK, OwnInv, NEW d \in Calls, Dialling(d)
  PROVE  OwnInv'
<1> USE DEF TypeOK
<1>1. CASE DialAdmit(d)
  <2>1. \A c \in Calls : c # d => UNCHANGED Mark(c)
    BY <1>1 DEF DialAdmit, Mark, rowVars, carrierVars, taskVars, asideVars
  <2>2. Owned(d)'
    BY <1>1 DEF DialAdmit, OwnInv, Owned, Ended, InFlight, rowVars,
       carrierVars, taskVars, asideVars
  <2> QED BY <2>1, <2>2, OneMark
<1>2. CASE \E n \in Quotes : DialReserve(d, n)
  <2>1. \A c \in Calls : c # d => UNCHANGED Mark(c)
    BY <1>2 DEF DialReserve, Mark, rowVars, carrierVars, taskVars, asideVars
  <2>2. Owned(d)'
    BY <1>2 DEF DialReserve, OwnInv, Owned, Ended, InFlight, rowVars,
       carrierVars, taskVars, asideVars
  <2> QED BY <2>1, <2>2, OneMark
<1>3. CASE \E n \in Quotes : DialUnpaid(d, n)
  <2>1. \A c \in Calls : c # d => UNCHANGED Mark(c)
    BY <1>3 DEF DialUnpaid, Mark, rowVars, carrierVars, taskVars, asideVars
  <2>2. Owned(d)'
    BY <1>3 DEF DialUnpaid, OwnInv, Owned, Ended, InFlight, rowVars,
       carrierVars, taskVars, asideVars
  <2> QED BY <2>1, <2>2, OneMark
<1>4. CASE DialRefuse(d)
  <2>1. \A c \in Calls : c # d => UNCHANGED Mark(c)
    BY <1>4 DEF DialRefuse, fail, Mark, rowVars, carrierVars, taskVars,
       asideVars
  <2>2. Owned(d)'
    BY <1>4 DEF DialRefuse, fail, OwnInv, Owned, Ended, InFlight, rowVars,
       carrierVars, taskVars, asideVars
  <2> QED BY <2>1, <2>2, OneMark
<1>5. CASE DialRecord(d)
  <2>1. \A c \in Calls : c # d => UNCHANGED Mark(c)
    BY <1>5 DEF DialRecord, Mark, rowVars, carrierVars, taskVars, asideVars
  <2>2. Owned(d)'
    BY <1>5 DEF DialRecord, OwnInv, Owned, Ended, InFlight, rowVars,
       carrierVars, taskVars, asideVars
  <2> QED BY <2>1, <2>2, OneMark
<1>6. CASE DialFail(d)
  <2>1. \A c \in Calls : c # d => UNCHANGED Mark(c)
    BY <1>6 DEF DialFail, fail, Mark, rowVars, carrierVars, taskVars, asideVars
  <2>2. Owned(d)'
    BY <1>6 DEF DialFail, fail, OwnInv, Owned, Ended, InFlight, rowVars,
       carrierVars, taskVars, asideVars
  <2> QED BY <2>1, <2>2, OneMark
<1>7. CASE DialRelease(d)
  <2>1. \A c \in Calls : c # d => UNCHANGED Mark(c)
    BY <1>7 DEF DialRelease, Mark, rowVars, carrierVars, taskVars, asideVars
  <2>2. Owned(d)'
    BY <1>7 DEF DialRelease, OwnInv, Owned, Ended, InFlight, rowVars,
       carrierVars, taskVars, asideVars
  <2> QED BY <2>1, <2>2, OneMark
<1>8. CASE DialDbError(d)
  <2>1. \A c \in Calls : c # d => UNCHANGED Mark(c)
    BY <1>8 DEF DialDbError, Mark, rowVars, carrierVars, taskVars, asideVars
  <2>2. Owned(d)'
    BY <1>8 DEF DialDbError, OwnInv, Owned, Ended, InFlight, rowVars,
       carrierVars, taskVars, asideVars
  <2> QED BY <2>1, <2>2, OneMark
<1> QED BY <1>1, <1>2, <1>3, <1>4, <1>5, <1>6, <1>7, <1>8 DEF Dialling

(* The carrier never touches the server's memory. *)
LEMMA CarrierOwns ==
  ASSUME TypeOK, OwnInv, NEW d \in Calls, Carrier(d)
  PROVE  OwnInv'
<1> USE DEF TypeOK
<1>1. CASE CarrierPlaces(d)
  <2>1. \A c \in Calls : c # d => UNCHANGED Mark(c)
    BY <1>1 DEF CarrierPlaces, Mark, rowVars, carrierVars, taskVars, asideVars
  <2>2. Owned(d)'
    BY <1>1 DEF CarrierPlaces, OwnInv, Owned, Ended, InFlight, rowVars,
       carrierVars, taskVars, asideVars
  <2> QED BY <2>1, <2>2, OneMark
<1>2. CASE CarrierRejects(d)
  <2>1. \A c \in Calls : c # d => UNCHANGED Mark(c)
    BY <1>2 DEF CarrierRejects, Mark, rowVars, carrierVars, taskVars, asideVars
  <2>2. Owned(d)'
    BY <1>2 DEF CarrierRejects, OwnInv, Owned, Ended, InFlight, rowVars,
       carrierVars, taskVars, asideVars
  <2> QED BY <2>1, <2>2, OneMark
<1>3. CASE Answer(d)
  <2>1. \A c \in Calls : c # d => UNCHANGED Mark(c)
    BY <1>3 DEF Answer, Mark, rowVars, carrierVars, taskVars, asideVars
  <2>2. Owned(d)'
    BY <1>3 DEF Answer, OwnInv, Owned, Ended, InFlight, rowVars, carrierVars,
       taskVars, asideVars
  <2> QED BY <2>1, <2>2, OneMark
<1>4. CASE RingEnds(d)
  <2>1. \A c \in Calls : c # d => UNCHANGED Mark(c)
    BY <1>4 DEF RingEnds, Down, Mark, rowVars, carrierVars, taskVars, asideVars
  <2>2. Owned(d)'
    BY <1>4 DEF RingEnds, Down, OwnInv, Owned, Ended, InFlight, rowVars,
       carrierVars, taskVars, asideVars
  <2> QED BY <2>1, <2>2, OneMark
<1>5. CASE FarHangup(d)
  <2>1. \A c \in Calls : c # d => UNCHANGED Mark(c)
    BY <1>5 DEF FarHangup, Down, Mark, rowVars, carrierVars, taskVars,
       asideVars
  <2>2. Owned(d)'
    BY <1>5 DEF FarHangup, Down, OwnInv, Owned, Ended, InFlight, rowVars,
       carrierVars, taskVars, asideVars
  <2> QED BY <2>1, <2>2, OneMark
<1> QED BY <1>1, <1>2, <1>3, <1>4, <1>5 DEF Carrier

(* The webhook that ends a call will reclaim what nobody claimed. *)
LEMMA WebhookOwns ==
  ASSUME TypeOK, OwnInv, NEW d \in Calls, Webhook(d)
  PROVE  OwnInv'
<1> USE DEF TypeOK
<1>1. CASE \E k \in inflight[d] : Deliver(d, k)
  <2>1. \A c \in Calls : c # d => UNCHANGED Mark(c)
    BY <1>1 DEF Deliver, is_terminal, Mark, rowVars, carrierVars, taskVars,
       asideVars
  <2>2. PICK k \in inflight[d] : Deliver(d, k)
    BY <1>1
  <2>3. Ended(d) => next(status[d], EventOf(k)) = NoMove
    BY TerminalAbsorbs DEF Ended, is_terminal
  <2>4. Owned(d)'
    BY <2>2, <2>3 DEF Deliver, is_terminal, NoMove, OwnInv, Owned, Ended,
       InFlight
  <2> QED BY <2>1, <2>4, OneMark
<1>2. CASE \E k \in inflight[d] : LoseWebhook(d, k)
  <2>1. \A c \in Calls : c # d => UNCHANGED Mark(c)
    BY <1>2 DEF LoseWebhook, Mark, rowVars, carrierVars, taskVars, asideVars
  <2>2. Owned(d)'
    BY <1>2 DEF LoseWebhook, OwnInv, Owned, Ended, InFlight, rowVars,
       carrierVars, taskVars, asideVars
  <2> QED BY <2>1, <2>2, OneMark
<1>3. CASE HookArm(d)
  <2>1. \A c \in Calls : c # d => UNCHANGED Mark(c)
    BY <1>3 DEF HookArm, Mark, rowVars, carrierVars, taskVars, asideVars
  <2>2. Owned(d)'
    BY <1>3 DEF HookArm, OwnInv, Owned, Ended, InFlight, rowVars, carrierVars,
       taskVars, asideVars
  <2> QED BY <2>1, <2>2, OneMark
<1>4. CASE HookReclaim(d)
  <2>1. \A c \in Calls : c # d => UNCHANGED Mark(c)
    BY <1>4 DEF HookReclaim, Reclaim, Mark, rowVars, carrierVars, taskVars,
       asideVars
  <2>2. Owned(d)'
    BY <1>4 DEF HookReclaim, Reclaim, OwnInv, Owned, Ended, InFlight, rowVars,
       carrierVars, taskVars, asideVars
  <2> QED BY <2>1, <2>2, OneMark
<1> QED BY <1>1, <1>2, <1>3, <1>4 DEF Webhook

(* The bridge claims the parked leg, and takes the phone out when it ends. *)
LEMMA BridgeOwns ==
  ASSUME TypeOK, OwnInv, NEW d \in Calls, Bridge(d)
  PROVE  OwnInv'
<1> USE DEF TypeOK
<1>1. CASE SocketOpens(d)
  <2>1. \A c \in Calls : c # d => UNCHANGED Mark(c)
    BY <1>1 DEF SocketOpens, Mark, rowVars, carrierVars, taskVars, asideVars
  <2>2. Owned(d)'
    BY <1>1 DEF SocketOpens, OwnInv, Owned, Ended, InFlight, rowVars,
       carrierVars, taskVars, asideVars
  <2> QED BY <2>1, <2>2, OneMark
<1>2. CASE PumpProviderEnds(d)
  <2>1. \A c \in Calls : c # d => UNCHANGED Mark(c)
    BY <1>2 DEF PumpProviderEnds, Mark, rowVars, carrierVars, taskVars,
       asideVars
  <2>2. Owned(d)'
    BY <1>2 DEF PumpProviderEnds, OwnInv, Owned, Ended, InFlight, rowVars,
       carrierVars, taskVars, asideVars
  <2> QED BY <2>1, <2>2, OneMark
<1>3. CASE PumpRoomEnds(d)
  <2>1. \A c \in Calls : c # d => UNCHANGED Mark(c)
    BY <1>3 DEF PumpRoomEnds, Mark, rowVars, carrierVars, taskVars, asideVars
  <2>2. Owned(d)'
    BY <1>3 DEF PumpRoomEnds, OwnInv, Owned, Ended, InFlight, rowVars,
       carrierVars, taskVars, asideVars
  <2> QED BY <2>1, <2>2, OneMark
<1>4. CASE PumpFails(d)
  <2>1. \A c \in Calls : c # d => UNCHANGED Mark(c)
    BY <1>4 DEF PumpFails, Mark, rowVars, carrierVars, taskVars, asideVars
  <2>2. Owned(d)'
    BY <1>4 DEF PumpFails, OwnInv, Owned, Ended, InFlight, rowVars,
       carrierVars, taskVars, asideVars
  <2> QED BY <2>1, <2>2, OneMark
<1>5. CASE GraceSeesTerminal(d)
  <2>1. \A c \in Calls : c # d => UNCHANGED Mark(c)
    BY <1>5 DEF GraceSeesTerminal, Mark, rowVars, carrierVars, taskVars,
       asideVars
  <2>2. Owned(d)'
    BY <1>5 DEF GraceSeesTerminal, OwnInv, Owned, Ended, InFlight, rowVars,
       carrierVars, taskVars, asideVars
  <2> QED BY <2>1, <2>2, OneMark
<1>6. CASE GraceElapses(d)
  <2>1. \A c \in Calls : c # d => UNCHANGED Mark(c)
    BY <1>6 DEF GraceElapses, Mark, rowVars, carrierVars, taskVars, asideVars
  <2>2. Owned(d)'
    BY <1>6 DEF GraceElapses, OwnInv, Owned, Ended, InFlight, rowVars,
       carrierVars, taskVars, asideVars
  <2> QED BY <2>1, <2>2, OneMark
<1>7. CASE EndHangup(d)
  <2>1. \A c \in Calls : c # d => UNCHANGED Mark(c)
    BY <1>7 DEF EndHangup, HangupLeg, Down, Mark, rowVars, carrierVars,
       taskVars, asideVars
  <2>2. Owned(d)'
    BY <1>7 DEF EndHangup, HangupLeg, Down, OwnInv, Owned, Ended, InFlight,
       rowVars, carrierVars, taskVars, asideVars
  <2> QED BY <2>1, <2>2, OneMark
<1>8. CASE EndMark(d)
  <2>1. \A c \in Calls : c # d => UNCHANGED Mark(c)
    BY <1>8 DEF EndMark, Mark, rowVars, carrierVars, taskVars, asideVars
  <2>2. Owned(d)'
    BY <1>8 DEF EndMark, OwnInv, Owned, Ended, InFlight, rowVars, carrierVars,
       taskVars, asideVars
  <2> QED BY <2>1, <2>2, OneMark
<1>9. CASE EndSkips(d)
  <2>1. \A c \in Calls : c # d => UNCHANGED Mark(c)
    BY <1>9 DEF EndSkips, Mark, rowVars, carrierVars, taskVars, asideVars
  <2>2. Owned(d)'
    BY <1>9 DEF EndSkips, OwnInv, Owned, Ended, InFlight, rowVars, carrierVars,
       taskVars, asideVars
  <2> QED BY <2>1, <2>2, OneMark
<1>10. CASE EndRelease(d)
  <2>1. \A c \in Calls : c # d => UNCHANGED Mark(c)
    BY <1>10 DEF EndRelease, Mark, rowVars, carrierVars, taskVars, asideVars
  <2>2. Owned(d)'
    BY <1>10 DEF EndRelease, OwnInv, Owned, Ended, InFlight, rowVars,
       carrierVars, taskVars, asideVars
  <2> QED BY <2>1, <2>2, OneMark
<1> QED BY <1>1, <1>2, <1>3, <1>4, <1>5, <1>6, <1>7, <1>8, <1>9,
           <1>10 DEF Bridge

(* A room that is dropped loses its phone. *)
LEMMA RoomOwns ==
  ASSUME TypeOK, OwnInv, NEW d \in Calls, Room(d)
  PROVE  OwnInv'
<1> USE DEF TypeOK
<1>1. CASE RequestHangup(d)
  <2>1. \A c \in Calls : c # d => UNCHANGED Mark(c)
    BY <1>1 DEF RequestHangup, HangupLeg, Down, Mark, rowVars, carrierVars,
       taskVars, asideVars
  <2>2. Owned(d)'
    BY <1>1 DEF RequestHangup, HangupLeg, Down, OwnInv, Owned, Ended, InFlight,
       rowVars, carrierVars, taskVars, asideVars
  <2> QED BY <2>1, <2>2, OneMark
<1>2. CASE RoomOrphaned(d)
  <2>1. \A c \in Calls : c # d => UNCHANGED Mark(c)
    BY <1>2 DEF RoomOrphaned, Mark, rowVars, carrierVars, taskVars, asideVars
  <2>2. Owned(d)'
    BY <1>2 DEF RoomOrphaned, OwnInv, Owned, Ended, InFlight, rowVars,
       carrierVars, taskVars, asideVars
  <2> QED BY <2>1, <2>2, OneMark
<1>3. CASE hangup_orphaned_leg(d)
  <2>1. \A c \in Calls : c # d => UNCHANGED Mark(c)
    BY <1>3 DEF hangup_orphaned_leg, HangupLeg, Down, Mark, rowVars,
       carrierVars, taskVars, asideVars
  <2>2. Owned(d)'
    BY <1>3 DEF hangup_orphaned_leg, HangupLeg, Down, OwnInv, Owned, Ended,
       InFlight, rowVars, carrierVars, taskVars, asideVars
  <2> QED BY <2>1, <2>2, OneMark
<1> QED BY <1>1, <1>2, <1>3 DEF Room

(* The sweep that fails a call reclaims its parked leg. *)
LEMMA SweepOwns ==
  ASSUME TypeOK, OwnInv, NEW d \in Calls, Sweep(d)
  PROVE  OwnInv'
<1> USE DEF TypeOK
<1>1. CASE fail_stalled_calls(d)
  <2>1. \A c \in Calls : c # d => UNCHANGED Mark(c)
    BY <1>1 DEF fail_stalled_calls, Reclaim, Mark, rowVars, carrierVars,
       taskVars, asideVars
  <2>2. Owned(d)'
    BY <1>1 DEF fail_stalled_calls, Stalled, Reclaim, OwnInv, Owned, Ended,
       InFlight,
       rowVars, carrierVars, taskVars, asideVars
  <2> QED BY <2>1, <2>2, OneMark
<1>2. CASE settle_finished_calls(d)
  <2>1. \A c \in Calls : c # d => UNCHANGED Mark(c)
    BY <1>2 DEF settle_finished_calls, Mark, rowVars, carrierVars, taskVars,
       asideVars
  <2>2. Owned(d)'
    BY <1>2 DEF settle_finished_calls, OwnInv, Owned, Ended, InFlight, rowVars,
       carrierVars, taskVars, asideVars
  <2> QED BY <2>1, <2>2, OneMark
<1>3. CASE ReapHangup(d)
  <2>1. \A c \in Calls : c # d => UNCHANGED Mark(c)
    BY <1>3 DEF ReapHangup, HangupLeg, Down, Mark, rowVars, carrierVars,
       taskVars, asideVars
  <2>2. Owned(d)'
    BY <1>3 DEF ReapHangup, HangupLeg, Down, OwnInv, Owned, Ended, InFlight,
       rowVars, carrierVars, taskVars, asideVars
  <2> QED BY <2>1, <2>2, OneMark
<1>4. CASE ReapMark(d)
  <2>1. \A c \in Calls : c # d => UNCHANGED Mark(c)
    BY <1>4 DEF ReapMark, Mark, rowVars, carrierVars, taskVars, asideVars
  <2>2. Owned(d)'
    BY <1>4 DEF ReapMark, OwnInv, Owned, Ended, InFlight, rowVars, carrierVars,
       taskVars, asideVars
  <2> QED BY <2>1, <2>2, OneMark
<1> QED BY <1>1, <1>2, <1>3, <1>4 DEF Sweep

(* Every step keeps it, a restart included. *)
LEMMA OwnStep ==
  ASSUME TypeOK, OwnInv, [Next]_vars
  PROVE  OwnInv'
<1>1. ASSUME NEW o \in Orgs, NEW n \in Amounts, OtherCharge(o, n)
      PROVE  OwnInv'
  <2>1. \A c \in Calls : UNCHANGED Mark(c)
    BY <1>1 DEF OtherCharge, Mark, rowVars, carrierVars, taskVars
  <2> QED BY <2>1, NoMark
<1>2. CASE UNCHANGED vars
  <2>1. \A c \in Calls : UNCHANGED Mark(c)
    BY <1>2 DEF vars, Mark, rowVars, carrierVars, taskVars
  <2> QED BY <2>1, NoMark
<1>3. CASE Crash
  BY <1>3 DEF Crash, OwnInv, Owned, InFlight, Ended, rowVars, carrierVars
<1> QED BY <1>1, <1>2, <1>3, DiallingOwns, CarrierOwns, WebhookOwns,
           BridgeOwns, RoomOwns, SweepOwns DEF Next

(* It holds of every behaviour, whatever fails, is lost or comes early. *)
LEMMA OwnInvariant == Spec => []OwnInv
<1>1. Init => OwnInv
  BY DEF Init, OwnInv, Owned, InFlight, Ended
<1>2. TypeOK /\ OwnInv /\ [Next]_vars => OwnInv'
  BY OwnStep
<1> QED BY <1>1, <1>2, CallTypes, PTL DEF Spec

(* Without failing statements nothing a call keeps in memory outlives it,  *)
(* for any number of calls and restarts, whichever webhooks are lost, and  *)
(* also when a webhook overtakes the dial request it answers.              *)
THEOREM PhoneLegAlwaysOwned ==
  ASSUME ~Faults PROVE Spec => []PhoneLegHasAnOwner
<1>1. OwnInv => PhoneLegHasAnOwner
  BY DEF OwnInv, Owned, InFlight, PhoneLegHasAnOwner
<1> QED BY <1>1, OwnInvariant, PTL

(* Whichever statements and requests fail: the phone is always taken out   *)
(* of the room, and only a failed refund of `dial` (service.rs) leaves an  *)
(* entry of LiveCalls behind.                                              *)
THEOREM FaultsLeaveNoPhone == Spec => []LeaksAreBare
<1>1. OwnInv => LeaksAreBare
  BY DEF OwnInv, Owned, InFlight, LeaksAreBare
<1> QED BY <1>1, OwnInvariant, PTL

-----------------------------------------------------------------------------
(* The line at the carrier, when no statement and no request fails and no  *)
(* webhook is lost.                                                        *)

(* The line at the carrier is told of by a webhook under way or by the row, *)
(* and nobody ends the row of a line that is up.                           *)
Traced(c) ==
  /\ leg[c] \in {"ringing", "up"} => ~Ended(c)
  /\ leg[c] = "none" => inflight[c] = {}
  /\ "hangup" \in inflight[c] => leg[c] = "down"
  /\ dial[c] \in {"rejected", "refunding"} => leg[c] = "none"
  /\ stream[c] \/ "arm" \in hook[c] => legs[c]
  /\ media[c] # "none" => legs[c] /\ leg[c] \in {"up", "down"}
  /\ media[c] = "hungup" => leg[c] = "down"
  /\ leg[c] = "up" => \/ "answered" \in inflight[c]
                      \/ status[c] \notin {"created", "dialing", "ringing"}

LegInv == \A c \in Calls : Traced(c)

(* What LegInv says of a call, it says of these. *)
Trace(c) == <<status[c], dial[c], legs[c], hook[c], media[c], stream[c],
              leg[c], inflight[c]>>

(* A step that does not show in a call's trace leaves it traced. *)
LEMMA TraceFrame ==
  ASSUME NEW c \in Calls, Traced(c), UNCHANGED Trace(c)
  PROVE  Traced(c)'
  BY DEF Trace, Traced, Ended, InFlight

(* A step on one call that leaves it traced leaves every call traced. *)
LEMMA OneTrace ==
  ASSUME LegInv, NEW d \in Calls, Traced(d)',
         \A c \in Calls : c # d => UNCHANGED Trace(c)
  PROVE  LegInv'
  BY TraceFrame DEF LegInv

(* A step that shows in no call's trace. *)
LEMMA NoTrace ==
  ASSUME LegInv, \A c \in Calls : UNCHANGED Trace(c)
  PROVE  LegInv'
  BY TraceFrame DEF LegInv

(* The dial request parks the leg before the carrier is asked. *)
LEMMA DiallingTraces ==
  ASSUME TypeOK, CallInv, LegInv, NEW d \in Calls, Dialling(d),
         ~Faults
  PROVE  LegInv'
<1> USE DEF TypeOK
<1>1. CASE DialAdmit(d)
  <2>1. \A c \in Calls : c # d => UNCHANGED Trace(c)
    BY <1>1 DEF DialAdmit, Trace, carrierVars, asideVars
  <2>2. Traced(d)'
    BY <1>1 DEF DialAdmit, LegInv, CallInv, Placing, Traced, Ended,
       InFlight, carrierVars, asideVars
  <2> QED BY <2>1, <2>2, OneTrace
<1>2. CASE \E n \in Quotes : DialReserve(d, n)
  <2>1. \A c \in Calls : c # d => UNCHANGED Trace(c)
    BY <1>2 DEF DialReserve, Trace, rowVars, carrierVars
  <2>2. Traced(d)'
    BY <1>2 DEF DialReserve, LegInv, CallInv, Placing, Traced, Ended,
       InFlight, rowVars, carrierVars
  <2> QED BY <2>1, <2>2, OneTrace
<1>3. CASE \E n \in Quotes : DialUnpaid(d, n)
  <2>1. \A c \in Calls : c # d => UNCHANGED Trace(c)
    BY <1>3 DEF DialUnpaid, Trace, rowVars, carrierVars
  <2>2. Traced(d)'
    BY <1>3 DEF DialUnpaid, LegInv, CallInv, Placing, Traced, Ended,
       InFlight, rowVars, carrierVars
  <2> QED BY <2>1, <2>2, OneTrace
<1>4. CASE DialRefuse(d)
  <2>1. \A c \in Calls : c # d => UNCHANGED Trace(c)
    BY <1>4 DEF DialRefuse, fail, Trace, carrierVars
  <2>2. Traced(d)'
    BY <1>4 DEF DialRefuse, fail, LegInv, CallInv, Placing, Traced,
       Ended, InFlight, carrierVars
  <2> QED BY <2>1, <2>2, OneTrace
<1>5. CASE DialRecord(d)
  <2>1. \A c \in Calls : c # d => UNCHANGED Trace(c)
    BY <1>5 DEF DialRecord, Trace, carrierVars
  <2>2. Traced(d)'
    BY <1>5 DEF DialRecord, LegInv, CallInv, Placing, Traced, Ended,
       InFlight, carrierVars
  <2> QED BY <2>1, <2>2, OneTrace
<1>6. CASE DialFail(d)
  <2>1. \A c \in Calls : c # d => UNCHANGED Trace(c)
    BY <1>6 DEF DialFail, fail, Trace, carrierVars
  <2>2. Traced(d)'
    BY <1>6 DEF DialFail, fail, LegInv, CallInv, Placing, Traced, Ended,
       InFlight, carrierVars
  <2> QED BY <2>1, <2>2, OneTrace
<1>7. CASE DialRelease(d)
  <2>1. \A c \in Calls : c # d => UNCHANGED Trace(c)
    BY <1>7 DEF DialRelease, Trace, rowVars, carrierVars
  <2>2. Traced(d)'
    BY <1>7 DEF DialRelease, LegInv, CallInv, Placing, Traced, Ended,
       InFlight, rowVars, carrierVars
  <2> QED BY <2>1, <2>2, OneTrace
<1>8. CASE DialDbError(d)
  BY <1>8 DEF DialDbError
<1> QED BY <1>1, <1>2, <1>3, <1>4, <1>5, <1>6, <1>7, <1>8 DEF Dialling

(* The carrier tells of everything it does to the line. *)
LEMMA CarrierTraces ==
  ASSUME TypeOK, CallInv, LegInv, NEW d \in Calls, Carrier(d), ~Faults
  PROVE  LegInv'
<1> USE DEF TypeOK
<1>1. CASE CarrierPlaces(d)
  <2>1. \A c \in Calls : c # d => UNCHANGED Trace(c)
    BY <1>1 DEF CarrierPlaces, Trace, rowVars
  <2>2. Traced(d)'
    BY <1>1 DEF CarrierPlaces, LegInv, CallInv, Placing, Traced, Ended,
       InFlight, rowVars
  <2> QED BY <2>1, <2>2, OneTrace
<1>2. CASE CarrierRejects(d)
  <2>1. \A c \in Calls : c # d => UNCHANGED Trace(c)
    BY <1>2 DEF CarrierRejects, Trace, rowVars, carrierVars
  <2>2. Traced(d)'
    BY <1>2 DEF CarrierRejects, LegInv, CallInv, Placing, Traced, Ended,
       InFlight, rowVars, carrierVars
  <2> QED BY <2>1, <2>2, OneTrace
<1>3. CASE Answer(d)
  <2>1. \A c \in Calls : c # d => UNCHANGED Trace(c)
    BY <1>3 DEF Answer, Trace, rowVars, taskVars
  <2>2. Traced(d)'
    BY <1>3 DEF Answer, LegInv, CallInv, Placing, Traced, Ended,
       InFlight, rowVars, taskVars
  <2> QED BY <2>1, <2>2, OneTrace
<1>4. CASE RingEnds(d)
  <2>1. \A c \in Calls : c # d => UNCHANGED Trace(c)
    BY <1>4 DEF RingEnds, Down, Trace, rowVars, taskVars
  <2>2. Traced(d)'
    BY <1>4 DEF RingEnds, Down, LegInv, CallInv, Placing, Traced, Ended,
       InFlight, rowVars, taskVars
  <2> QED BY <2>1, <2>2, OneTrace
<1>5. CASE FarHangup(d)
  <2>1. \A c \in Calls : c # d => UNCHANGED Trace(c)
    BY <1>5 DEF FarHangup, Down, Trace, rowVars, taskVars
  <2>2. Traced(d)'
    BY <1>5 DEF FarHangup, Down, LegInv, CallInv, Placing, Traced,
       Ended, InFlight, rowVars, taskVars
  <2> QED BY <2>1, <2>2, OneTrace
<1> QED BY <1>1, <1>2, <1>3, <1>4, <1>5 DEF Carrier

(* The bridge ends a row only after its line has been hung up. *)
LEMMA BridgeTraces ==
  ASSUME TypeOK, CallInv, LegInv, NEW d \in Calls, Bridge(d), ~Faults
  PROVE  LegInv'
<1> USE DEF TypeOK
<1>1. CASE SocketOpens(d)
  <2>1. \A c \in Calls : c # d => UNCHANGED Trace(c)
    BY <1>1 DEF SocketOpens, Trace, rowVars
  <2>2. Traced(d)'
    BY <1>1 DEF SocketOpens, LegInv, CallInv, Placing, Traced, Ended,
       InFlight, rowVars
  <2> QED BY <2>1, <2>2, OneTrace
<1>2. CASE PumpProviderEnds(d)
  <2>1. \A c \in Calls : c # d => UNCHANGED Trace(c)
    BY <1>2 DEF PumpProviderEnds, Trace, rowVars, carrierVars
  <2>2. Traced(d)'
    BY <1>2 DEF PumpProviderEnds, LegInv, CallInv, Placing, Traced,
       Ended, InFlight, rowVars, carrierVars
  <2> QED BY <2>1, <2>2, OneTrace
<1>3. CASE PumpRoomEnds(d)
  <2>1. \A c \in Calls : c # d => UNCHANGED Trace(c)
    BY <1>3 DEF PumpRoomEnds, Trace, rowVars, carrierVars
  <2>2. Traced(d)'
    BY <1>3 DEF PumpRoomEnds, LegInv, CallInv, Placing, Traced, Ended,
       InFlight, rowVars, carrierVars
  <2> QED BY <2>1, <2>2, OneTrace
<1>4. CASE PumpFails(d)
  <2>1. \A c \in Calls : c # d => UNCHANGED Trace(c)
    BY <1>4 DEF PumpFails, Trace, rowVars, carrierVars
  <2>2. Traced(d)'
    BY <1>4 DEF PumpFails, LegInv, CallInv, Placing, Traced, Ended,
       InFlight, rowVars, carrierVars
  <2> QED BY <2>1, <2>2, OneTrace
<1>5. CASE GraceSeesTerminal(d)
  <2>1. \A c \in Calls : c # d => UNCHANGED Trace(c)
    BY <1>5 DEF GraceSeesTerminal, Trace, rowVars, carrierVars
  <2>2. Traced(d)'
    BY <1>5 DEF GraceSeesTerminal, LegInv, CallInv, Placing, Traced,
       Ended, InFlight, rowVars, carrierVars
  <2> QED BY <2>1, <2>2, OneTrace
<1>6. CASE GraceElapses(d)
  <2>1. \A c \in Calls : c # d => UNCHANGED Trace(c)
    BY <1>6 DEF GraceElapses, Trace, rowVars, carrierVars
  <2>2. Traced(d)'
    BY <1>6 DEF GraceElapses, LegInv, CallInv, Placing, Traced, Ended,
       InFlight, rowVars, carrierVars
  <2> QED BY <2>1, <2>2, OneTrace
<1>7. CASE EndHangup(d)
  <2>1. \A c \in Calls : c # d => UNCHANGED Trace(c)
    BY <1>7 DEF EndHangup, HangupLeg, Down, Trace, rowVars
  <2>2. Traced(d)'
    BY <1>7 DEF EndHangup, HangupLeg, Down, LegInv, CallInv, Placing, Traced,
       Ended, InFlight, rowVars
  <2> QED BY <2>1, <2>2, OneTrace
<1>8. CASE EndMark(d)
  <2>1. \A c \in Calls : c # d => UNCHANGED Trace(c)
    BY <1>8 DEF EndMark, Trace, carrierVars
  <2>2. Traced(d)'
    BY <1>8 DEF EndMark, LegInv, CallInv, Placing, Traced, Ended,
       InFlight, carrierVars
  <2> QED BY <2>1, <2>2, OneTrace
<1>9. CASE EndSkips(d)
  <2>1. \A c \in Calls : c # d => UNCHANGED Trace(c)
    BY <1>9 DEF EndSkips, Trace, rowVars, carrierVars
  <2>2. Traced(d)'
    BY <1>9 DEF EndSkips, LegInv, CallInv, Placing, Traced, Ended,
       InFlight, rowVars, carrierVars
  <2> QED BY <2>1, <2>2, OneTrace
<1>10. CASE EndRelease(d)
  <2>1. \A c \in Calls : c # d => UNCHANGED Trace(c)
    BY <1>10 DEF EndRelease, Trace, rowVars, carrierVars
  <2>2. Traced(d)'
    BY <1>10 DEF EndRelease, LegInv, CallInv, Placing, Traced, Ended,
       InFlight, rowVars, carrierVars
  <2> QED BY <2>1, <2>2, OneTrace
<1> QED BY <1>1, <1>2, <1>3, <1>4, <1>5, <1>6, <1>7, <1>8, <1>9, <1>10
        DEF Bridge

(* The people in the room keep it. *)
LEMMA RoomTraces ==
  ASSUME TypeOK, CallInv, LegInv, NEW d \in Calls, Room(d), ~Faults
  PROVE  LegInv'
<1> USE DEF TypeOK
<1>1. CASE RequestHangup(d)
  <2>1. \A c \in Calls : c # d => UNCHANGED Trace(c)
    BY <1>1 DEF RequestHangup, HangupLeg, Down, Trace, rowVars, taskVars
  <2>2. Traced(d)'
    BY <1>1 DEF RequestHangup, HangupLeg, Down, LegInv, CallInv, Placing,
       Traced, Ended, InFlight, rowVars, taskVars
  <2> QED BY <2>1, <2>2, OneTrace
<1>2. CASE RoomOrphaned(d)
  <2>1. \A c \in Calls : c # d => UNCHANGED Trace(c)
    BY <1>2 DEF RoomOrphaned, Trace, rowVars, carrierVars
  <2>2. Traced(d)'
    BY <1>2 DEF RoomOrphaned, LegInv, CallInv, Placing, Traced, Ended,
       InFlight, rowVars, carrierVars
  <2> QED BY <2>1, <2>2, OneTrace
<1>3. CASE hangup_orphaned_leg(d)
  <2>1. \A c \in Calls : c # d => UNCHANGED Trace(c)
    BY <1>3 DEF hangup_orphaned_leg, HangupLeg, Down, Trace, rowVars
  <2>2. Traced(d)'
    BY <1>3 DEF hangup_orphaned_leg, HangupLeg, Down, LegInv, CallInv, Placing,
       Traced, Ended, InFlight, rowVars
  <2> QED BY <2>1, <2>2, OneTrace
<1> QED BY <1>1, <1>2, <1>3 DEF Room

(* An answer is never late for a call that rings. *)
LEMMA AnswerAnswers ==
  ASSUME NEW s \in {"created", "dialing", "ringing"}
  PROVE  next(s, EventOf("answered")) = "answered"
  BY Ranks, Candidates, NextAsksFor DEF EventOf

(* A webhook that ends the call reclaims what nobody claimed. *)
LEMMA WebhookTraces ==
  ASSUME TypeOK, CallInv, LegInv, NEW d \in Calls, Webhook(d),
         ~EarlyWebhooks, ~LossyWebhooks, ~Faults
  PROVE  LegInv'
<1> USE DEF TypeOK
<1>1. CASE \E k \in inflight[d] : Deliver(d, k)
  <2> PICK k \in inflight[d] : Deliver(d, k)
    BY <1>1
  <2> DEFINE after == next(status[d], EventOf(k))
  <2>1. Placing(d) /\ Traced(d)
    BY DEF CallInv, LegInv
  <2>2. dial[d] = "over" /\ status[d] \in CallStates
    BY <2>1 DEF Deliver, InFlight, Placing
  <2>3. k \in Wires /\ EventOf(k) \in CallEvents
    BY EventIsEvent DEF Wires
  <2>4. is_terminal(after) => k = "hangup"
    BY <2>2, <2>3, HangupAlone DEF Wires
  <2>5. after = NoMove \/ after \in CallStates
    BY <2>2, <2>3, NextClimbs
  <2>6. k = "answered" /\ status[d] \in {"created", "dialing", "ringing"}
          => after = "answered"
    BY AnswerAnswers DEF EventOf
  <2>7. status[d] \notin {"created", "dialing", "ringing"}
          => after \notin {"created", "dialing", "ringing"}
    BY <2>2, <2>3, NextClimbs, Ranks, LastRanks DEF CallStates, NoMove
  <2>8. Ended(d) => after = NoMove
    BY TerminalAbsorbs DEF Ended, is_terminal
  <2> HIDE DEF after
  <2>9. /\ status'[d] = IF after = NoMove THEN status[d] ELSE after
        /\ hook'[d] = hook[d]
                        \cup (IF after = "answered" THEN {"arm"} ELSE {})
                        \cup (IF is_terminal(after) THEN {"reclaim"} ELSE {})
        /\ inflight'[d] = inflight[d] \ {k} /\ legs'[d] = TRUE
        /\ UNCHANGED <<dial, media, leg, stream, parked, peer>>
    BY DEF Deliver, after
  <2>10. \A c \in Calls : c # d => UNCHANGED Trace(c)
    BY DEF Deliver, Trace
  <2> HIDE DEF TypeOK
  <2>11. Traced(d)'
    BY <2>1, <2>2, <2>4, <2>5, <2>6, <2>7, <2>8, <2>9
       DEF Traced, Ended, is_terminal, NoMove
  <2> QED BY <2>10, <2>11, OneTrace
<1>2. CASE \E k \in inflight[d] : LoseWebhook(d, k)
  BY <1>2 DEF LoseWebhook
<1>3. CASE HookArm(d)
  <2>1. \A c \in Calls : c # d => UNCHANGED Trace(c)
    BY <1>3 DEF HookArm, Trace, rowVars
  <2>2. Traced(d)'
    BY <1>3 DEF HookArm, LegInv, CallInv, Placing, Traced, Ended,
       InFlight, rowVars
  <2> QED BY <2>1, <2>2, OneTrace
<1>4. CASE HookReclaim(d)
  <2>1. \A c \in Calls : c # d => UNCHANGED Trace(c)
    BY <1>4 DEF HookReclaim, Reclaim, Trace, rowVars, carrierVars
  <2>2. Traced(d)'
    BY <1>4 DEF HookReclaim, Reclaim, LegInv, CallInv, Placing, Traced,
       Ended, InFlight, rowVars, carrierVars
  <2> QED BY <2>1, <2>2, OneTrace
<1> QED BY <1>1, <1>2, <1>3, <1>4 DEF Webhook

(* The sweeps fail only a call whose line is not up. *)
LEMMA SweepTraces ==
  ASSUME TypeOK, CallInv, LegInv, NEW d \in Calls, Sweep(d), ~Faults
  PROVE  LegInv'
<1> USE DEF TypeOK
<1>1. CASE fail_stalled_calls(d)
  <2>1. \A c \in Calls : c # d => UNCHANGED Trace(c)
    BY <1>1 DEF fail_stalled_calls, Stalled, Reclaim, Trace, carrierVars
  <2>2. Traced(d)'
    BY <1>1 DEF fail_stalled_calls, Stalled, Reclaim, LegInv, CallInv, Placing,
       Traced, Ended, InFlight, carrierVars
  <2> QED BY <2>1, <2>2, OneTrace
<1>2. CASE settle_finished_calls(d)
  <2>1. \A c \in Calls : c # d => UNCHANGED Trace(c)
    BY <1>2 DEF settle_finished_calls, Trace, rowVars, taskVars, asideVars,
       carrierVars
  <2>2. Traced(d)'
    BY <1>2 DEF settle_finished_calls, LegInv, CallInv, Placing, Traced,
       Ended, InFlight, rowVars, taskVars, asideVars, carrierVars
  <2> QED BY <2>1, <2>2, OneTrace
<1>3. CASE ReapHangup(d)
  <2>1. \A c \in Calls : c # d => UNCHANGED Trace(c)
    BY <1>3 DEF ReapHangup, HangupLeg, Down, Trace, rowVars
  <2>2. Traced(d)'
    BY <1>3 DEF ReapHangup, HangupLeg, Down, LegInv, CallInv, Placing, Traced,
       Ended, InFlight, rowVars
  <2> QED BY <2>1, <2>2, OneTrace
<1>4. CASE ReapMark(d)
  <2>1. \A c \in Calls : c # d => UNCHANGED Trace(c)
    BY <1>4 DEF ReapMark, Trace, carrierVars
  <2>2. Traced(d)'
    BY <1>4 DEF ReapMark, LegInv, CallInv, Placing, Traced, Ended,
       InFlight, carrierVars
  <2> QED BY <2>1, <2>2, OneTrace
<1> QED BY <1>1, <1>2, <1>3, <1>4 DEF Sweep

(* Every step keeps it, a restart included. *)
LEMMA TraceStep ==
  ASSUME TypeOK, CallInv, LegInv, ~EarlyWebhooks, ~LossyWebhooks, ~Faults,
         [Next]_vars
  PROVE  LegInv'
<1>1. ASSUME NEW o \in Orgs, NEW n \in Amounts, OtherCharge(o, n)
      PROVE  LegInv'
  <2>1. \A c \in Calls : UNCHANGED Trace(c)
    BY <1>1 DEF OtherCharge, Trace, rowVars, carrierVars, taskVars
  <2> QED BY <2>1, NoTrace
<1>2. CASE UNCHANGED vars
  <2>1. \A c \in Calls : UNCHANGED Trace(c)
    BY <1>2 DEF vars, Trace, rowVars, carrierVars, taskVars
  <2> QED BY <2>1, NoTrace
<1>3. CASE Crash
  <2> SUFFICES ASSUME NEW c \in Calls PROVE Traced(c)'
    BY DEF LegInv
  <2>1. Traced(c) /\ Placing(c)
    BY DEF LegInv, CallInv
  <2>2. /\ dial'[c] = IF dial[c] = "idle" THEN "idle" ELSE "over"
        /\ media'[c] = IF media[c] = "none" THEN "none" ELSE "over"
        /\ hook'[c] = {} /\ parked'[c] = FALSE /\ peer'[c] = FALSE
        /\ UNCHANGED <<rowVars, carrierVars>>
    BY <1>3 DEF Crash
  <2> QED BY <2>1, <2>2 DEF Traced, Placing, Ended, InFlight, rowVars,
             carrierVars
<1> QED BY <1>1, <1>2, <1>3, DiallingTraces, CarrierTraces, WebhookTraces,
           BridgeTraces, RoomTraces, SweepTraces DEF Next

(* It holds of every behaviour without losses and faults, with restarts. *)
LEMMA TraceInvariant ==
  ASSUME ~EarlyWebhooks, ~LossyWebhooks, ~Faults PROVE Spec => []LegInv
<1>1. Init => LegInv
  BY DEF Init, LegInv, Traced, Ended, InFlight
<1>2. TypeOK /\ CallInv /\ LegInv /\ [Next]_vars => LegInv'
  BY TraceStep
<1> QED BY <1>1, <1>2, CallTypes, CallInvariant, PTL DEF Spec

(* Without failing requests and lost webhooks no line is left up behind a  *)
(* call that is over, whoever ended it.                                    *)
THEOREM NoLegIsLeftBehind ==
  ASSUME ~EarlyWebhooks, ~LossyWebhooks, ~Faults
  PROVE  Spec => []NoLegBehindAFinishedCall
<1>1. LegInv => NoLegBehindAFinishedCall
  BY DEF LegInv, Traced, NoLegBehindAFinishedCall
<1> QED BY <1>1, TraceInvariant, PTL

-----------------------------------------------------------------------------
(* Who ends a call.  A row is open for a reason somebody acts on: this is  *)
(* the safety half of CallSettles, and it needs no fairness.               *)

(* answered_at is set exactly when the row says that the call was answered, *)
(* and no media is told of before that.                                     *)
Answering(c) ==
  /\ status[c] \in {"absent", "created", "dialing", "ringing"} => ~answered[c]
  /\ status[c] \in {"answered", "bridged", "ending"} => answered[c]
  /\ \/ "media_started" \in inflight[c] \/ "arm" \in hook[c] \/ stream[c]
     => answered[c]

AnswerInv == \A c \in Calls : Answering(c)

(* What Answering says of a call, it says of these. *)
Told(c) == <<status[c], answered[c], inflight[c], hook[c], stream[c]>>

(* A step on one call that keeps it keeps it for every call. *)
LEMMA OneTold ==
  ASSUME AnswerInv, NEW d \in Calls, Answering(d)',
         \A c \in Calls : c # d => UNCHANGED Told(c)
  PROVE  AnswerInv'
  BY DEF AnswerInv, Answering, Told

(* A step that shows in no call. *)
LEMMA NoneTold ==
  ASSUME AnswerInv, \A c \in Calls : UNCHANGED Told(c)
  PROVE  AnswerInv'
  BY DEF AnswerInv, Answering, Told

(* Which webhook may lead where. *)
LEMMA WireMoves ==
  ASSUME NEW s \in CallStates, NEW k \in Wires
  PROVE  LET after == next(s, EventOf(k))
         IN  /\ after = "answered" => k = "answered"
             /\ after \in {"bridged", "ending"} => k = "media_started"
             /\ after # NoMove => after \in CallStates
             /\ after \in {"created", "dialing", "ringing"}
                  => s \in {"created", "dialing", "ringing"}
<1>1. next(s, EventOf(k)) # NoMove
        => /\ next(s, EventOf(k)) \in CallStates
           /\ rank(next(s, EventOf(k))) > rank(s)
  BY EventIsEvent, NextClimbs
<1>2. /\ next(s, EventOf(k)) = "answered" => k = "answered"
      /\ next(s, EventOf(k)) \in {"bridged", "ending"} => k = "media_started"
  BY DEF Wires, EventOf, next, Candidate, NoMove
<1>3. next(s, EventOf(k)) \in {"created", "dialing", "ringing"}
        => s \in {"created", "dialing", "ringing"}
  BY <1>1, Ranks, LastRanks DEF CallStates, NoMove
<1> QED BY <1>1, <1>2, <1>3

(* The dial request writes the row of a call nobody has answered. *)
LEMMA DiallingAnswers ==
  ASSUME TypeOK, CallInv, AnswerInv, NEW d \in Calls, Dialling(d)
  PROVE  AnswerInv'
<1> USE DEF TypeOK
<1>1. CASE DialAdmit(d)
  <2>1. \A c \in Calls : c # d => UNCHANGED Told(c)
    BY <1>1 DEF DialAdmit, Told, rowVars, carrierVars, taskVars, asideVars
  <2>2. Answering(d)'
    BY <1>1 DEF DialAdmit, CallInv, Placing, AnswerInv, Answering, rowVars,
       carrierVars, taskVars, asideVars
  <2> QED BY <2>1, <2>2, OneTold
<1>2. CASE \E n \in Quotes : DialReserve(d, n) \/ DialUnpaid(d, n)
  <2>1. \A c \in Calls : c # d => UNCHANGED Told(c)
    BY <1>2 DEF DialReserve, DialUnpaid, Told, rowVars, carrierVars, taskVars,
       asideVars
  <2>2. Answering(d)'
    BY <1>2 DEF DialReserve, DialUnpaid, CallInv, Placing, AnswerInv,
       Answering, rowVars, carrierVars, taskVars, asideVars
  <2> QED BY <2>1, <2>2, OneTold
<1>3. CASE DialRefuse(d) \/ DialFail(d)
  <2>1. \A c \in Calls : c # d => UNCHANGED Told(c)
    BY <1>3 DEF DialRefuse, DialFail, fail, Told, rowVars, carrierVars,
       taskVars, asideVars
  <2>2. Answering(d)'
    BY <1>3 DEF DialRefuse, DialFail, fail, CallInv, Placing, AnswerInv,
       Answering, rowVars, carrierVars, taskVars, asideVars
  <2> QED BY <2>1, <2>2, OneTold
<1>4. CASE DialRecord(d)
  <2>1. \A c \in Calls : c # d => UNCHANGED Told(c)
    BY <1>4 DEF DialRecord, Told, rowVars, carrierVars, taskVars, asideVars
  <2>2. Answering(d)'
    BY <1>4 DEF DialRecord, CallInv, Placing, AnswerInv, Answering, rowVars,
       carrierVars, taskVars, asideVars
  <2> QED BY <2>1, <2>2, OneTold
<1>5. CASE DialRelease(d) \/ DialDbError(d)
  <2>1. \A c \in Calls : c # d => UNCHANGED Told(c)
    BY <1>5 DEF DialRelease, DialDbError, Told, rowVars, carrierVars, taskVars,
       asideVars
  <2>2. Answering(d)'
    BY <1>5 DEF DialRelease, DialDbError, CallInv, Placing, AnswerInv,
       Answering, rowVars, carrierVars, taskVars, asideVars
  <2> QED BY <2>1, <2>2, OneTold
<1> QED BY <1>1, <1>2, <1>3, <1>4, <1>5 DEF Dialling

(* The carrier tells, and writes nothing. *)
LEMMA CarrierAnswers ==
  ASSUME TypeOK, CallInv, AnswerInv, NEW d \in Calls, Carrier(d)
  PROVE  AnswerInv'
<1> USE DEF TypeOK
<1>1. CASE CarrierPlaces(d)
  <2>1. \A c \in Calls : c # d => UNCHANGED Told(c)
    BY <1>1 DEF CarrierPlaces, Told, rowVars, carrierVars, taskVars, asideVars
  <2>2. Answering(d)'
    BY <1>1 DEF CarrierPlaces, CallInv, Placing, AnswerInv, Answering, rowVars,
       carrierVars, taskVars, asideVars
  <2> QED BY <2>1, <2>2, OneTold
<1>2. CASE CarrierRejects(d)
  <2>1. \A c \in Calls : c # d => UNCHANGED Told(c)
    BY <1>2 DEF CarrierRejects, Told, rowVars, carrierVars, taskVars, asideVars
  <2>2. Answering(d)'
    BY <1>2 DEF CarrierRejects, CallInv, Placing, AnswerInv, Answering,
       rowVars, carrierVars, taskVars, asideVars
  <2> QED BY <2>1, <2>2, OneTold
<1>3. CASE Answer(d)
  <2>1. \A c \in Calls : c # d => UNCHANGED Told(c)
    BY <1>3 DEF Answer, Told, rowVars, carrierVars, taskVars, asideVars
  <2>2. Answering(d)'
    BY <1>3 DEF Answer, CallInv, Placing, AnswerInv, Answering, rowVars,
       carrierVars, taskVars, asideVars
  <2> QED BY <2>1, <2>2, OneTold
<1>4. CASE RingEnds(d) \/ FarHangup(d)
  <2>1. \A c \in Calls : c # d => UNCHANGED Told(c)
    BY <1>4 DEF RingEnds, FarHangup, Down, Told, rowVars, carrierVars,
       taskVars, asideVars
  <2>2. Answering(d)'
    BY <1>4 DEF RingEnds, FarHangup, Down, CallInv, Placing, AnswerInv,
       Answering, rowVars, carrierVars, taskVars, asideVars
  <2> QED BY <2>1, <2>2, OneTold
<1> QED BY <1>1, <1>2, <1>3, <1>4 DEF Carrier

(* The answer is noted in the transaction that moves the call to it. *)
LEMMA WebhookAnswers ==
  ASSUME TypeOK, CallInv, AnswerInv, NEW d \in Calls, Webhook(d),
         ~EarlyWebhooks
  PROVE  AnswerInv'
<1> USE DEF TypeOK
<1>1. CASE \E k \in inflight[d] : Deliver(d, k)
  <2>1. \A c \in Calls : c # d => UNCHANGED Told(c)
    BY <1>1 DEF Deliver, Told
  <2> PICK k \in inflight[d] : Deliver(d, k)
    BY <1>1
  <2> DEFINE after == next(status[d], EventOf(k))
  <2>2. Placing(d) /\ Answering(d)
    BY DEF CallInv, AnswerInv
  <2>3. dial[d] = "over" /\ status[d] \in CallStates
    BY <2>2 DEF Deliver, InFlight, Placing
  <2>4. k \in Wires
    BY DEF Wires
  <2>5. /\ after = "answered" => k = "answered"
        /\ after \in {"bridged", "ending"} => k = "media_started"
        /\ after # NoMove => after \in CallStates
        /\ after \in {"created", "dialing", "ringing"}
             => status[d] \in {"created", "dialing", "ringing"}
    BY <2>3, <2>4, WireMoves
  <2> HIDE DEF after
  <2>6. /\ status'[d] = IF after = NoMove THEN status[d] ELSE after
        /\ answered'[d] = (answered[d] \/ after = "answered")
        /\ inflight'[d] = inflight[d] \ {k}
        /\ hook'[d] = hook[d]
                        \cup (IF after = "answered" THEN {"arm"} ELSE {})
                        \cup (IF is_terminal(after) THEN {"reclaim"} ELSE {})
        /\ UNCHANGED stream
    BY DEF Deliver, after
  <2> HIDE DEF TypeOK
  <2>7. Answering(d)'
    BY <2>2, <2>3, <2>5, <2>6 DEF Answering, NoMove, CallStates
  <2> QED BY <2>1, <2>7, OneTold
<1>2. CASE \E k \in inflight[d] : LoseWebhook(d, k)
  <2>1. \A c \in Calls : c # d => UNCHANGED Told(c)
    BY <1>2 DEF LoseWebhook, Told, rowVars, carrierVars, taskVars, asideVars
  <2>2. Answering(d)'
    BY <1>2 DEF LoseWebhook, CallInv, Placing, AnswerInv, Answering, rowVars,
       carrierVars, taskVars, asideVars
  <2> QED BY <2>1, <2>2, OneTold
<1>3. CASE HookArm(d)
  <2>1. \A c \in Calls : c # d => UNCHANGED Told(c)
    BY <1>3 DEF HookArm, Told, rowVars, carrierVars, taskVars, asideVars
  <2>2. Answering(d)'
    BY <1>3 DEF HookArm, CallInv, Placing, AnswerInv, Answering, rowVars,
       carrierVars, taskVars, asideVars
  <2> QED BY <2>1, <2>2, OneTold
<1>4. CASE HookReclaim(d)
  <2>1. \A c \in Calls : c # d => UNCHANGED Told(c)
    BY <1>4 DEF HookReclaim, Reclaim, Told, rowVars, carrierVars, taskVars,
       asideVars
  <2>2. Answering(d)'
    BY <1>4 DEF HookReclaim, Reclaim, CallInv, Placing, AnswerInv, Answering,
       rowVars, carrierVars, taskVars, asideVars
  <2> QED BY <2>1, <2>2, OneTold
<1> QED BY <1>1, <1>2, <1>3, <1>4 DEF Webhook

(* The carrier only opens a socket it was given after the answer. *)
LEMMA BridgeAnswers ==
  ASSUME TypeOK, CallInv, AnswerInv, NEW d \in Calls, Bridge(d)
  PROVE  AnswerInv'
<1> USE DEF TypeOK
<1>1. CASE SocketOpens(d)
  <2>1. \A c \in Calls : c # d => UNCHANGED Told(c)
    BY <1>1 DEF SocketOpens, Told, rowVars, carrierVars, taskVars, asideVars
  <2>2. Answering(d)'
    BY <1>1 DEF SocketOpens, CallInv, Placing, AnswerInv, Answering, rowVars,
       carrierVars, taskVars, asideVars
  <2> QED BY <2>1, <2>2, OneTold
<1>2. CASE EndHangup(d)
  <2>1. \A c \in Calls : c # d => UNCHANGED Told(c)
    BY <1>2 DEF EndHangup, HangupLeg, Down, Told, rowVars, carrierVars,
       taskVars, asideVars
  <2>2. Answering(d)'
    BY <1>2 DEF EndHangup, HangupLeg, Down, CallInv, Placing, AnswerInv,
       Answering, rowVars, carrierVars, taskVars, asideVars
  <2> QED BY <2>1, <2>2, OneTold
<1>3. CASE EndMark(d)
  <2>1. \A c \in Calls : c # d => UNCHANGED Told(c)
    BY <1>3 DEF EndMark, Told, rowVars, carrierVars, taskVars, asideVars
  <2>2. Answering(d)'
    BY <1>3 DEF EndMark, CallInv, Placing, AnswerInv, Answering, rowVars,
       carrierVars, taskVars, asideVars
  <2> QED BY <2>1, <2>2, OneTold
<1>4. CASE EndRelease(d)
  <2>1. \A c \in Calls : c # d => UNCHANGED Told(c)
    BY <1>4 DEF EndRelease, Told, rowVars, carrierVars, taskVars, asideVars
  <2>2. Answering(d)'
    BY <1>4 DEF EndRelease, CallInv, Placing, AnswerInv, Answering, rowVars,
       carrierVars, taskVars, asideVars
  <2> QED BY <2>1, <2>2, OneTold
<1>5. CASE \/ PumpProviderEnds(d) \/ PumpRoomEnds(d) \/ PumpFails(d)
          \/ GraceSeesTerminal(d) \/ GraceElapses(d) \/ EndSkips(d)
  <2>1. \A c \in Calls : c # d => UNCHANGED Told(c)
    BY <1>5 DEF PumpProviderEnds, PumpRoomEnds, PumpFails, GraceSeesTerminal,
       GraceElapses, EndSkips, Told, rowVars, carrierVars, taskVars, asideVars
  <2>2. Answering(d)'
    BY <1>5 DEF PumpProviderEnds, PumpRoomEnds, PumpFails, GraceSeesTerminal,
       GraceElapses, EndSkips, CallInv, Placing, AnswerInv, Answering, rowVars,
       carrierVars, taskVars, asideVars
  <2> QED BY <2>1, <2>2, OneTold
<1> QED BY <1>1, <1>2, <1>3, <1>4, <1>5 DEF Bridge

(* The people in the room ask for a hangup at most. *)
LEMMA RoomAnswers ==
  ASSUME TypeOK, CallInv, AnswerInv, NEW d \in Calls, Room(d)
  PROVE  AnswerInv'
<1> USE DEF TypeOK
<1>1. CASE RequestHangup(d)
  <2>1. \A c \in Calls : c # d => UNCHANGED Told(c)
    BY <1>1 DEF RequestHangup, HangupLeg, Down, Told, rowVars, carrierVars,
       taskVars, asideVars
  <2>2. Answering(d)'
    BY <1>1 DEF RequestHangup, HangupLeg, Down, CallInv, Placing, AnswerInv,
       Answering, rowVars, carrierVars, taskVars, asideVars
  <2> QED BY <2>1, <2>2, OneTold
<1>2. CASE RoomOrphaned(d)
  <2>1. \A c \in Calls : c # d => UNCHANGED Told(c)
    BY <1>2 DEF RoomOrphaned, Told, rowVars, carrierVars, taskVars, asideVars
  <2>2. Answering(d)'
    BY <1>2 DEF RoomOrphaned, CallInv, Placing, AnswerInv, Answering, rowVars,
       carrierVars, taskVars, asideVars
  <2> QED BY <2>1, <2>2, OneTold
<1>3. CASE hangup_orphaned_leg(d)
  <2>1. \A c \in Calls : c # d => UNCHANGED Told(c)
    BY <1>3 DEF hangup_orphaned_leg, HangupLeg, Down, Told, rowVars,
       carrierVars, taskVars, asideVars
  <2>2. Answering(d)'
    BY <1>3 DEF hangup_orphaned_leg, HangupLeg, Down, CallInv, Placing,
       AnswerInv, Answering, rowVars, carrierVars, taskVars, asideVars
  <2> QED BY <2>1, <2>2, OneTold
<1> QED BY <1>1, <1>2, <1>3 DEF Room

(* The sweeps fail what nobody answered and end what somebody did. *)
LEMMA SweepAnswers ==
  ASSUME TypeOK, CallInv, AnswerInv, NEW d \in Calls, Sweep(d)
  PROVE  AnswerInv'
<1> USE DEF TypeOK
<1>1. CASE fail_stalled_calls(d)
  <2>1. \A c \in Calls : c # d => UNCHANGED Told(c)
    BY <1>1 DEF fail_stalled_calls, Stalled, Reclaim, Told, rowVars,
       carrierVars, taskVars, asideVars
  <2>2. Answering(d)'
    BY <1>1 DEF fail_stalled_calls, Stalled, Reclaim, CallInv, Placing,
       AnswerInv, Answering, rowVars, carrierVars, taskVars, asideVars
  <2> QED BY <2>1, <2>2, OneTold
<1>2. CASE settle_finished_calls(d)
  <2>1. \A c \in Calls : c # d => UNCHANGED Told(c)
    BY <1>2 DEF settle_finished_calls, Told, rowVars, carrierVars, taskVars,
       asideVars
  <2>2. Answering(d)'
    BY <1>2 DEF settle_finished_calls, CallInv, Placing, AnswerInv, Answering,
       rowVars, carrierVars, taskVars, asideVars
  <2> QED BY <2>1, <2>2, OneTold
<1>3. CASE ReapHangup(d)
  <2>1. \A c \in Calls : c # d => UNCHANGED Told(c)
    BY <1>3 DEF ReapHangup, HangupLeg, Down, Told, rowVars, carrierVars,
       taskVars, asideVars
  <2>2. Answering(d)'
    BY <1>3 DEF ReapHangup, HangupLeg, Down, CallInv, Placing, AnswerInv,
       Answering, rowVars, carrierVars, taskVars, asideVars
  <2> QED BY <2>1, <2>2, OneTold
<1>4. CASE ReapMark(d)
  <2>1. \A c \in Calls : c # d => UNCHANGED Told(c)
    BY <1>4 DEF ReapMark, Told, rowVars, carrierVars, taskVars, asideVars
  <2>2. Answering(d)'
    BY <1>4 DEF ReapMark, CallInv, Placing, AnswerInv, Answering, rowVars,
       carrierVars, taskVars, asideVars
  <2> QED BY <2>1, <2>2, OneTold
<1> QED BY <1>1, <1>2, <1>3, <1>4 DEF Sweep

(* Every step keeps it, a restart included. *)
LEMMA AnswerStep ==
  ASSUME TypeOK, CallInv, AnswerInv, ~EarlyWebhooks, [Next]_vars
  PROVE  AnswerInv'
<1>1. ASSUME NEW o \in Orgs, NEW n \in Amounts, OtherCharge(o, n)
      PROVE  AnswerInv'
  <2>1. \A c \in Calls : UNCHANGED Told(c)
    BY <1>1 DEF OtherCharge, Told, rowVars, carrierVars, taskVars
  <2> QED BY <2>1, NoneTold
<1>2. CASE UNCHANGED vars
  <2>1. \A c \in Calls : UNCHANGED Told(c)
    BY <1>2 DEF vars, Told, rowVars, carrierVars, taskVars
  <2> QED BY <2>1, NoneTold
<1>3. CASE Crash
  BY <1>3 DEF Crash, AnswerInv, Answering, rowVars, carrierVars
<1> QED BY <1>1, <1>2, <1>3, DiallingAnswers, CarrierAnswers, WebhookAnswers,
           BridgeAnswers, RoomAnswers, SweepAnswers DEF Next

(* The row of the call is over and nothing is held for it. *)
Closed(c) == Ended(c) /\ hold[c].state # "held"

(* The dial request is under way, the telephone rings, a webhook is coming, *)
(* or one of the sweeps finds the row: fail_stalled_calls,                  *)
(* reap_overrunning_calls or settle_finished_calls (webhook.rs).            *)
InHand(c) ==
  \/ InFlight(c) \/ leg[c] = "ringing" \/ inflight[c] # {}
  \/ Stalled(c)
  \/ status[c] \in {"answered", "bridged", "ending"} /\ answered[c]
  \/ Ended(c) /\ hold[c].state = "held"

(* No admitted call is ever in a state that nobody looks for, whatever     *)
(* fails, is lost or is forgotten in a restart: the WHERE clauses of the   *)
(* three sweeps together cover every row that is not closed.               *)
THEOREM NoCallIsForgotten ==
  ASSUME ~EarlyWebhooks
  PROVE  Spec => [](\A c \in Calls :
                      status[c] # "absent" /\ ~Closed(c) => InHand(c))
<1>1. Init => AnswerInv
  BY DEF Init, AnswerInv, Answering
<1>2. TypeOK /\ CallInv /\ AnswerInv /\ [Next]_vars => AnswerInv'
  BY AnswerStep
<1>3. TypeOK /\ AnswerInv
        => \A c \in Calls : status[c] # "absent" /\ ~Closed(c) => InHand(c)
  BY DEF TypeOK, CallStates, AnswerInv, Answering, Closed, InHand, Stalled,
         Ended
<1> QED BY <1>1, <1>2, <1>3, CallTypes, CallInvariant, PTL DEF Spec
=============================================================================
