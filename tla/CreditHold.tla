----------------------------- MODULE CreditHold -----------------------------
(***************************************************************************)
(* The organisation credit pool and the holds telephone calls take on it:  *)
(* server/src/voip/reservation.rs over server/src/business/credits.rs.     *)
(*                                                                         *)
(* Every action is one database transaction.  `deduct_org_credits_tx` and  *)
(* `add_org_credits_tx` lock the organisation row FOR UPDATE and `close`   *)
(* locks the reservation row first, so transactions on the same pool or    *)
(* the same hold are serialised and a transaction is one step.             *)
(***************************************************************************)
EXTENDS Integers, FiniteSets, Functions

CONSTANTS
  Calls,     (* voip_calls.id *)
  Orgs,      (* organizations.id *)
  OrgOf,     (* the organisation a call's hold is taken on *)
  Quotes,    (* reserve_credits a quote may ask for *)
  Costs,     (* what a connected call may turn out to owe *)
  Amounts,   (* charges and grants of the other features on the same pool *)
  Opening,   (* the pool of each organisation at the start *)
  MaxGrants  (* bound: how many grants a behaviour contains *)

ASSUME CreditAssumption ==
  /\ IsFiniteSet(Calls)
  /\ OrgOf \in [Calls -> Orgs]
  /\ Quotes \subseteq Nat
  /\ Costs \subseteq Nat
  /\ Amounts \subseteq Nat
  /\ Opening \in [Orgs -> Nat]
  /\ MaxGrants \in Nat

VARIABLES
  balance,   (* organizations.credits_balance *)
  hold,      (* the call's latest voip_credit_reservations row *)
  ledger,    (* net of the call's organization_credits_transactions rows *)
  owed,      (* history: the `actual` the hold was closed against *)
  other,     (* net of the ledger rows of every other feature *)
  grants     (* history: how many grants there were, for the bound *)

creditVars == <<balance, hold, ledger, owed, other, grants>>

NoHold == [state |-> "none", held |-> 0, settled |-> 0, released |-> 0,
           shortfall |-> 0]

OpenHold(n) == [state |-> "held", held |-> n, settled |-> 0, released |-> 0,
                shortfall |-> 0]

HoldRow == [state : {"none", "held", "settled", "released"}, held : Nat,
            settled : Nat, released : Nat, shortfall : Nat]

(* Mutant: max for min. *)
LeastSwapped(a, b) == IF a <= b THEN b ELSE a

Least(a, b) == IF a <= b THEN a ELSE b

(* Mutant: the balance is not checked. *)
CanCoverUnchecked(o, n) == TRUE

(* The balance check of deduct_org_credits_tx. *)
CanCover(o, n) == ~(n > 0 /\ balance[o] < n)

Init ==
  /\ balance = Opening
  /\ hold = [c \in Calls |-> NoHold]
  /\ ledger = [c \in Calls |-> 0]
  /\ owed = [c \in Calls |-> 0]
  /\ other = [o \in Orgs |-> 0]
  /\ grants = 0

(* Take a hold of n credits: the money leaves the pool now.  When the pool  *)
(* cannot cover it nothing is written, so the refusal is no step of this   *)
(* module.  A call is reserved for once, by the dial that created it.      *)
Reserve(c, n) ==
  /\ hold[c].state = "none"
  /\ CanCover(OrgOf[c], n)
  /\ balance' = [balance EXCEPT ![OrgOf[c]] = @ - n]
  /\ ledger' = [ledger EXCEPT ![c] = @ - n]
  /\ hold' = [hold EXCEPT ![c] = OpenHold(n)]
  /\ UNCHANGED <<owed, other, grants>>

(* Mutant: an overrun the pool cannot cover in full is written off whole. *)
ChargeAllOrNothing(o, extra) == IF CanCover(o, extra) THEN extra ELSE 0

(* Mutant: the overrun is charged whatever the pool holds. *)
ChargeRegardless(o, extra) == extra

(* What an overrun of `extra` credits takes from the pool: all of it, or    *)
(* what is there.                                                          *)
ChargeFor(o, extra) == IF CanCover(o, extra) THEN extra
                       ELSE IF balance[o] > 0 THEN balance[o] ELSE 0

(* Mutant: a hold is closed again by whoever comes second. *)
OpenEvenIfClosed(c) == hold[c].state # "none"

(* `state = 'held'`, under the lock on the reservation row. *)
Open(c) == hold[c].state = "held"

(* Close an open hold against what the call consumed. *)
Close(c, actual, final) ==
  LET o        == OrgOf[c]
      covered  == Least(actual, hold[c].held)
      released == hold[c].held - covered
      charged  == ChargeFor(o, actual - covered)
  IN  /\ Open(c)
      /\ balance' = [balance EXCEPT ![o] = @ + released - charged]
      /\ ledger' = [ledger EXCEPT ![c] = @ + released - charged]
      /\ hold' = [hold EXCEPT ![c] =
                    [state |-> final, held |-> @.held,
                     settled |-> covered + charged, released |-> released,
                     shortfall |-> actual - covered - charged]]
      /\ owed' = [owed EXCEPT ![c] = actual]
      /\ UNCHANGED <<other, grants>>

settle(c, actual) == Close(c, actual, "settled")

release(c) == Close(c, 0, "released")

(* settle_tx and release_tx as their callers see them: a call without an   *)
(* open hold is reported, and nothing moves.                               *)
SettleIfHeld(c, actual) ==
  IF Open(c) THEN settle(c, actual) ELSE UNCHANGED creditVars

ReleaseIfHeld(c) ==
  IF Open(c) THEN release(c) ELSE UNCHANGED creditVars

(* deduct_org_credits for anything that is not a call: meeting minutes,    *)
(* recordings, AI jobs, number renewals.                                   *)
OtherCharge(o, n) ==
  /\ CanCover(o, n)
  /\ balance' = [balance EXCEPT ![o] = @ - n]
  /\ other' = [other EXCEPT ![o] = @ - n]
  /\ UNCHANGED <<hold, ledger, owed, grants>>

(* Mutant: the pool is topped up without its ledger row. *)
OtherGrantWithoutRow(o, n) ==
  /\ grants < MaxGrants
  /\ grants' = grants + 1
  /\ balance' = [balance EXCEPT ![o] = @ + n]
  /\ UNCHANGED <<hold, ledger, owed, other>>

(* add_org_credits for anything that is not a call: a purchase, a plan. *)
OtherGrant(o, n) ==
  /\ grants < MaxGrants
  /\ grants' = grants + 1
  /\ balance' = [balance EXCEPT ![o] = @ + n]
  /\ other' = [other EXCEPT ![o] = @ + n]
  /\ UNCHANGED <<hold, ledger, owed>>

Next ==
  \/ \E c \in Calls, n \in Quotes : Reserve(c, n)
  \/ \E c \in Calls, a \in Costs : settle(c, a)
  \/ \E c \in Calls : release(c)
  \/ \E o \in Orgs, n \in Amounts : OtherCharge(o, n)
  \/ \E o \in Orgs, n \in Amounts : OtherGrant(o, n)

Spec == Init /\ [][Next]_creditVars

-----------------------------------------------------------------------------
(* Every credit count is a whole number of credits, no pool is overdrawn   *)
(* and every hold is a row the schema accepts (056_voip.sql CHECKs).       *)
TypeOK ==
  /\ balance \in [Orgs -> Nat]
  /\ hold \in [Calls -> HoldRow]
  /\ ledger \in [Calls -> Int]
  /\ owed \in [Calls -> Nat]
  /\ other \in [Orgs -> Int]
  /\ grants \in Nat

Closed(c) == hold[c].state \in {"settled", "released"}

(* The accounting identities of reservation.rs, Settlement::is_coherent:    *)
(* whatever order a hangup, a redelivered hangup, a media teardown and two *)
(* sweeps close a hold in, the row they leave accounts for what was owed.  *)
Coherent(c) ==
  Closed(c) =>
    /\ hold[c].released = IF owed[c] <= hold[c].held
                          THEN hold[c].held - owed[c] ELSE 0
    /\ hold[c].settled + hold[c].shortfall = owed[c]

SettlementsCohere == \A c \in Calls : Coherent(c)

(* "net pool movement = -settled": the ledger rows of a call add up to the  *)
(* open hold while it is open and to what the call settled afterwards, so  *)
(* no order of closings refunds a hold or charges an overrun twice.        *)
Explained(c) ==
  ledger[c] = IF hold[c].state = "held" THEN -hold[c].held
              ELSE -hold[c].settled

CallLedgerExplained == \A c \in Calls : Explained(c)

CallsOf(o) == {c \in Calls : OrgOf[c] = o}

(* The pool is the opening balance plus every ledger row of the            *)
(* organisation: no transaction moves the balance without its row.         *)
PoolIsLedgerSum ==
  \A o \in Orgs :
    balance[o] = Opening[o] + other[o] + SumFunctionOnSet(ledger, CallsOf(o))

(* A closed reservation is final: a redelivered webhook or a late sweep    *)
(* finds the row closed and moves neither the row nor the money of it.     *)
ClosedStaysClosed ==
  [][\A c \in Calls : Closed(c) => /\ hold'[c] = hold[c]
                                   /\ ledger'[c] = ledger[c]]_creditVars

(* An overrun is only written off when the pool is empty: a step that      *)
(* records a shortfall leaves nothing in the pool it charged.              *)
ShortfallDrainsPool ==
  [][\A c \in Calls :
       hold'[c].shortfall > hold[c].shortfall
         => balance'[OrgOf[c]] = 0]_creditVars

(* What is still held for each call. *)
StillHeld ==
  [c \in Calls |-> IF hold[c].state = "held" THEN hold[c].held ELSE 0]

(* The pool and its holds behave as an account that is paid into in        *)
(* advance: the funds are the pool together with every open hold.          *)
Account == INSTANCE PrepaidAccount WITH
  funds <- [o \in Orgs |->
              balance[o] + SumFunctionOnSet(StillHeld, CallsOf(o))],
  aside <- StillHeld,
  bill  <- [c \in Calls |->
              [state |-> CASE hold[c].state = "none" -> "none"
                           [] hold[c].state = "held" -> "open"
                           [] OTHER -> "billed",
               paid  |-> hold[c].settled]]

(* Refinement: whatever order the closings and the other features' charges *)
(* come in, a call is billed once, for min(owed, hold + pool), and nobody  *)
(* else's hold pays for it.                                                *)
PrepaidAccountRefined == Account!Spec

(* The comment on voip_credit_reservations in migrations/056_voip.sql:     *)
(* "held_credits = settled_credits + released_credits + shortfall_credits". *)
HeldIsSplit ==
  \A c \in Calls :
    Closed(c) => hold[c].held = hold[c].settled + hold[c].released
                                                + hold[c].shortfall
=============================================================================
