-------------------------- MODULE CreditHoldProofs --------------------------
(***************************************************************************)
(* Theorems about the credit holds of telephone calls, for any set of      *)
(* calls, organisations and amounts.                                       *)
(***************************************************************************)
EXTENDS CreditHold, FiniteSetTheorems, WellFoundedInduction, TLAPS

(* What an overrun takes from the pool is never more than is asked for or  *)
(* than is there, and less than what is asked for only by emptying it.     *)
LEMMA ChargeForBound ==
  ASSUME NEW o \in Orgs, NEW extra \in Nat, balance \in [Orgs -> Nat]
  PROVE  /\ ChargeFor(o, extra) \in Nat
         /\ ChargeFor(o, extra) <= extra
         /\ ChargeFor(o, extra) <= balance[o]
         /\ ChargeFor(o, extra) < extra => ChargeFor(o, extra) = balance[o]
  BY DEF ChargeFor, CanCover

(* What closing a hold of `n` credits against `actual` does, with `charged` *)
(* standing for the part of the overrun that the pool paid.                *)
Closing(c, actual, final, charged) ==
  LET o == OrgOf[c]
      n == hold[c].held
      released == IF actual <= n THEN n - actual ELSE 0
      overrun  == IF actual <= n THEN 0 ELSE actual - n
  IN  /\ charged \in Nat /\ charged <= overrun /\ charged <= balance[o]
      /\ charged < overrun => charged = balance[o]
      /\ balance' = [balance EXCEPT ![o] = @ + released - charged]
      /\ ledger' = [ledger EXCEPT ![c] = @ + released - charged]
      /\ hold' = [hold EXCEPT ![c] =
                    [state |-> final, held |-> n,
                     settled |-> actual - overrun + charged,
                     released |-> released, shortfall |-> overrun - charged]]
      /\ owed' = [owed EXCEPT ![c] = actual]
      /\ UNCHANGED <<other, grants>>

(* The arithmetic of `close`, done once for every theorem below. *)
LEMMA CloseIsClosing ==
  ASSUME TypeOK, CreditAssumption, NEW c \in Calls, NEW actual \in Nat,
         NEW final, Close(c, actual, final)
  PROVE  /\ hold[c].state = "held"
         /\ hold[c].held \in Nat
         /\ OrgOf[c] \in Orgs
         /\ \E charged \in Nat : Closing(c, actual, final, charged)
<1> DEFINE o == OrgOf[c]
           n == hold[c].held
           covered == Least(actual, n)
           charged == ChargeFor(o, actual - covered)
<1>1. /\ hold[c] \in HoldRow
      /\ n \in Nat
      /\ o \in Orgs
      /\ balance \in [Orgs -> Nat]
  BY DEF TypeOK, HoldRow, CreditAssumption
<1>2. /\ covered = IF actual <= n THEN actual ELSE n
      /\ covered \in Nat
      /\ actual - covered \in Nat
  BY <1>1 DEF Least
<1>3. /\ charged \in Nat
      /\ charged <= actual - covered
      /\ charged <= balance[o]
      /\ charged < actual - covered => charged = balance[o]
  BY <1>1, <1>2, ChargeForBound
<1>4. /\ hold[c].state = "held"
      /\ balance' = [balance EXCEPT ![o] = @ + (n - covered) - charged]
      /\ ledger' = [ledger EXCEPT ![c] = @ + (n - covered) - charged]
      /\ hold' = [hold EXCEPT ![c] =
                    [state |-> final, held |-> n,
                     settled |-> covered + charged, released |-> n - covered,
                     shortfall |-> actual - covered - charged]]
      /\ owed' = [owed EXCEPT ![c] = actual]
      /\ UNCHANGED <<other, grants>>
  BY DEF Close, Open
<1> HIDE DEF covered, charged
<1>5. /\ n - covered = IF actual <= n THEN n - actual ELSE 0
      /\ actual - covered = IF actual <= n THEN 0 ELSE actual - n
      /\ covered = actual - (IF actual <= n THEN 0 ELSE actual - n)
  BY <1>1, <1>2
<1>6. Closing(c, actual, final, charged)
  BY <1>3, <1>4, <1>5 DEF Closing
<1> QED BY <1>1, <1>3, <1>4, <1>6

-----------------------------------------------------------------------------
(* A call that was never reserved for has an empty hold: the fact that     *)
(* makes CallLedgerExplained inductive, since `reserve` starts its ledger. *)
Untouched == \A c \in Calls : hold[c].state = "none" => hold[c] = NoHold

HoldInv == TypeOK /\ Untouched /\ SettlementsCohere /\ CallLedgerExplained

(* No hold, no ledger row: the pool starts coherent. *)
LEMMA HoldInit == CreditAssumption /\ Init => HoldInv
<1> SUFFICES ASSUME CreditAssumption, Init PROVE HoldInv
  OBVIOUS
<1> USE DEF Init, NoHold
<1>1. TypeOK
  BY DEF TypeOK, HoldRow, CreditAssumption
<1>2. \A c \in Calls : hold[c] = NoHold /\ ledger[c] = 0
  OBVIOUS
<1>3. Untouched /\ SettlementsCohere /\ CallLedgerExplained
  BY <1>2 DEF Untouched, SettlementsCohere, Coherent, Closed,
              CallLedgerExplained, Explained
<1> QED BY <1>1, <1>3 DEF HoldInv

(* `reserve` opens the hold of one call and of no other. *)
LEMMA ReserveKeepsInv ==
  ASSUME CreditAssumption, HoldInv, NEW d \in Calls, NEW n \in Quotes,
         Reserve(d, n)
  PROVE  HoldInv'
<1> DEFINE o == OrgOf[d]
<1>1. n \in Nat /\ o \in Orgs
  BY DEF CreditAssumption
<1>2. balance[o] \in Nat /\ balance[o] - n \in Nat
  BY <1>1 DEF HoldInv, TypeOK, Reserve, CanCover
<1>3. TypeOK'
  <2>1. balance' \in [Orgs -> Nat] /\ ledger' \in [Calls -> Int]
    BY <1>1, <1>2 DEF HoldInv, TypeOK, Reserve
  <2>2. OpenHold(n) \in HoldRow
    BY <1>1 DEF OpenHold, HoldRow
  <2>3. hold' \in [Calls -> HoldRow]
    BY <2>2 DEF HoldInv, TypeOK, Reserve
  <2> QED BY <2>1, <2>3 DEF HoldInv, TypeOK, Reserve
<1>4. ASSUME NEW c \in Calls, c # d
      PROVE  hold'[c] = hold[c] /\ ledger'[c] = ledger[c] /\ owed'[c] = owed[c]
  BY <1>4 DEF HoldInv, TypeOK, Reserve
<1>5. /\ hold'[d] = OpenHold(n)
      /\ ledger'[d] = -n
  <2>1. ledger[d] = 0
    BY DEF HoldInv, Untouched, CallLedgerExplained, Explained, Reserve, NoHold
  <2> QED BY <1>1, <2>1 DEF HoldInv, TypeOK, Reserve
<1>6. hold'[d].state = "held" /\ hold'[d].held = n
  BY <1>5 DEF OpenHold
<1>7. Untouched' /\ SettlementsCohere' /\ CallLedgerExplained'
  BY <1>4, <1>5, <1>6 DEF HoldInv, Untouched, SettlementsCohere, Coherent,
     Closed, CallLedgerExplained, Explained
<1> QED BY <1>3, <1>7 DEF HoldInv

(* `close` accounts for the hold it closes and touches no other. *)
LEMMA CloseKeepsInv ==
  ASSUME CreditAssumption, HoldInv, NEW d \in Calls, NEW actual \in Nat,
         NEW final \in {"settled", "released"}, Close(d, actual, final)
  PROVE  HoldInv'
<1> DEFINE o == OrgOf[d]
           n == hold[d].held
           freed == IF actual <= n THEN n - actual ELSE 0
           overrun == IF actual <= n THEN 0 ELSE actual - n
<1>1. TypeOK
  BY DEF HoldInv
<1>2. PICK charged \in Nat : Closing(d, actual, final, charged)
  BY <1>1, CloseIsClosing
<1>3. hold[d].state = "held" /\ n \in Nat /\ o \in Orgs
  BY <1>1, CloseIsClosing
<1>4. charged <= overrun /\ charged <= balance[o]
  BY <1>2 DEF Closing
<1>5. /\ balance' = [balance EXCEPT ![o] = @ + freed - charged]
      /\ ledger' = [ledger EXCEPT ![d] = @ + freed - charged]
      /\ hold' = [hold EXCEPT ![d] =
                    [state |-> final, held |-> n,
                     settled |-> actual - overrun + charged,
                     released |-> freed, shortfall |-> overrun - charged]]
      /\ owed' = [owed EXCEPT ![d] = actual]
      /\ UNCHANGED <<other, grants>>
  BY <1>2 DEF Closing
<1>6. /\ freed \in Nat
      /\ overrun \in Nat
      /\ actual - overrun + charged \in Nat
      /\ overrun - charged \in Nat
      /\ actual - overrun = n - freed
  BY <1>3, <1>4
<1> HIDE DEF freed, overrun
<1>7. TypeOK'
  <2>1. balance[o] \in Nat /\ ledger[d] \in Int
    BY <1>1, <1>3 DEF TypeOK
  <2>2. balance' \in [Orgs -> Nat]
    <3>1. balance[o] + freed - charged \in Nat
      BY <2>1, <1>4, <1>6
    <3> QED BY <1>1, <1>3, <1>5, <3>1 DEF TypeOK
  <2>3. ledger' \in [Calls -> Int]
    BY <1>1, <1>5, <1>6, <2>1 DEF TypeOK
  <2>4. hold' \in [Calls -> HoldRow]
    BY <1>1, <1>3, <1>5, <1>6 DEF TypeOK, HoldRow
  <2>5. owed' \in [Calls -> Nat] /\ other' \in [Orgs -> Int] /\ grants' \in Nat
    BY <1>1, <1>5 DEF TypeOK
  <2> QED BY <2>2, <2>3, <2>4, <2>5 DEF TypeOK
<1>8. ASSUME NEW c \in Calls, c # d
      PROVE  hold'[c] = hold[c] /\ ledger'[c] = ledger[c] /\ owed'[c] = owed[c]
  BY <1>1, <1>5, <1>8 DEF TypeOK
<1>9. /\ hold'[d] = [state |-> final, held |-> n,
                     settled |-> actual - overrun + charged,
                     released |-> freed, shortfall |-> overrun - charged]
      /\ ledger'[d] = ledger[d] + freed - charged
      /\ owed'[d] = actual
  BY <1>1, <1>5 DEF TypeOK
<1>10. Coherent(d)'
  <2>1. /\ hold'[d].released = freed
        /\ hold'[d].settled + hold'[d].shortfall = actual
        /\ hold'[d].held = n
    BY <1>6, <1>9
  <2> QED BY <2>1, <1>9 DEF Coherent, freed
<1>11. Explained(d)'
  <2>1. ledger[d] = -n
    BY <1>3 DEF HoldInv, CallLedgerExplained, Explained
  <2>2. /\ hold'[d].state = final
        /\ hold'[d].settled = n - freed + charged
    BY <1>6, <1>9
  <2>3. ledger'[d] = -hold'[d].settled
    BY <1>3, <1>6, <1>9, <2>1, <2>2
  <2> QED BY <2>2, <2>3 DEF Explained
<1>12. hold'[d].state # "none"
  BY <1>9
<1>13. Untouched'
  BY <1>8, <1>12 DEF HoldInv, Untouched
<1>14. SettlementsCohere'
  BY <1>8, <1>10 DEF HoldInv, SettlementsCohere, Coherent, Closed
<1>15. CallLedgerExplained'
  BY <1>8, <1>11 DEF HoldInv, CallLedgerExplained, Explained
<1> QED BY <1>7, <1>13, <1>14, <1>15 DEF HoldInv

(* The transactions of the other features leave every hold alone. *)
LEMMA OthersKeepInv ==
  ASSUME CreditAssumption, HoldInv, NEW o \in Orgs, NEW n \in Amounts,
         OtherCharge(o, n) \/ OtherGrant(o, n)
  PROVE  HoldInv'
<1>1. n \in Nat
  BY DEF CreditAssumption
<1>2. UNCHANGED <<hold, ledger, owed>>
  BY DEF OtherCharge, OtherGrant
<1>3. TypeOK'
  <2>1. CASE OtherCharge(o, n)
    <3>1. balance[o] \in Nat /\ balance[o] - n \in Nat
      BY <1>1, <2>1 DEF HoldInv, TypeOK, OtherCharge, CanCover
    <3> QED BY <1>1, <2>1, <3>1 DEF HoldInv, TypeOK, OtherCharge
  <2>2. CASE OtherGrant(o, n)
    BY <1>1, <2>2 DEF HoldInv, TypeOK, OtherGrant
  <2> QED BY <2>1, <2>2
<1>4. Untouched' /\ SettlementsCohere' /\ CallLedgerExplained'
  BY <1>2 DEF HoldInv, Untouched, SettlementsCohere, Coherent, Closed,
              CallLedgerExplained, Explained
<1> QED BY <1>3, <1>4 DEF HoldInv

(* Every transaction on the pool keeps the invariant. *)
LEMMA HoldStep == CreditAssumption /\ HoldInv /\ [Next]_creditVars => HoldInv'
<1> SUFFICES ASSUME CreditAssumption, HoldInv, [Next]_creditVars
             PROVE  HoldInv'
  OBVIOUS
<1>1. ASSUME NEW c \in Calls, NEW n \in Quotes, Reserve(c, n) PROVE HoldInv'
  BY <1>1, ReserveKeepsInv
<1>2. ASSUME NEW c \in Calls, NEW a \in Costs, settle(c, a) PROVE HoldInv'
  <2>1. a \in Nat
    BY DEF CreditAssumption
  <2> QED BY <1>2, <2>1, CloseKeepsInv DEF settle
<1>3. ASSUME NEW c \in Calls, release(c) PROVE HoldInv'
  BY <1>3, CloseKeepsInv DEF release
<1>4. ASSUME NEW o \in Orgs, NEW n \in Amounts,
             OtherCharge(o, n) \/ OtherGrant(o, n)
      PROVE  HoldInv'
  BY <1>4, OthersKeepInv
<1>5. ASSUME UNCHANGED creditVars PROVE HoldInv'
  BY <1>5 DEF creditVars, HoldInv, TypeOK, Untouched, SettlementsCohere,
     Coherent, Closed, CallLedgerExplained, Explained
<1> QED BY <1>1, <1>2, <1>3, <1>4, <1>5 DEF Next

(* The inductive invariant of credits.rs and reservation.rs together:      *)
(* types, the identities of a closed row and the ledger of every call.     *)
THEOREM HoldInvariant == Spec => []HoldInv
<1>1. Init => HoldInv
  BY HoldInit, CreditAssumption
<1>2. HoldInv /\ [Next]_creditVars => HoldInv'
  BY HoldStep, CreditAssumption
<1> QED BY <1>1, <1>2, PTL DEF Spec

-----------------------------------------------------------------------------
(* No pool is ever overdrawn and every hold is a row the schema accepts,   *)
(* for any quotes, charges and orders of closing.                          *)
THEOREM CreditTypes == Spec => []TypeOK
<1>1. HoldInv => TypeOK
  BY DEF HoldInv
<1> QED BY <1>1, HoldInvariant, PTL

(* The identities of Settlement::is_coherent hold of every closed row.     *)
THEOREM SettlementsAlwaysCohere == Spec => []SettlementsCohere
<1>1. HoldInv => SettlementsCohere
  BY DEF HoldInv
<1> QED BY <1>1, HoldInvariant, PTL

(* "net pool movement = -settled", for every call and at every moment.     *)
THEOREM LedgerAlwaysExplained == Spec => []CallLedgerExplained
<1>1. HoldInv => CallLedgerExplained
  BY DEF HoldInv
<1> QED BY <1>1, HoldInvariant, PTL

(* A step on one hold is no step on another. *)
LEMMA OtherHoldsStay ==
  ASSUME HoldInv, NEW c \in Calls, NEW d \in Calls, c # d,
         (\E n \in Quotes : Reserve(d, n))
           \/ (\E a, f : Close(d, a, f))
  PROVE  hold'[c] = hold[c] /\ ledger'[c] = ledger[c]
<1> USE DEF HoldInv, TypeOK
<1>1. ASSUME NEW n \in Quotes, Reserve(d, n)
      PROVE  hold'[c] = hold[c] /\ ledger'[c] = ledger[c]
  BY <1>1 DEF Reserve
<1>2. ASSUME NEW a, NEW f, Close(d, a, f)
      PROVE  hold'[c] = hold[c] /\ ledger'[c] = ledger[c]
  BY <1>2 DEF Close
<1> QED BY <1>1, <1>2

(* What ClosedStaysClosed and ShortfallDrainsPool say of a step. *)
ClosedStays ==
  \A c \in Calls : Closed(c) => /\ hold'[c] = hold[c]
                                /\ ledger'[c] = ledger[c]

Drains ==
  \A c \in Calls :
    hold'[c].shortfall > hold[c].shortfall => balance'[OrgOf[c]] = 0

(* No transaction moves what is closed. *)
LEMMA ClosedStep ==
  HoldInv /\ [Next]_creditVars => [ClosedStays]_creditVars
<1> SUFFICES ASSUME HoldInv, Next, NEW c \in Calls, Closed(c)
             PROVE  hold'[c] = hold[c] /\ ledger'[c] = ledger[c]
  BY DEF ClosedStays, creditVars
<1>1. ASSUME NEW d \in Calls, NEW n \in Quotes, Reserve(d, n)
      PROVE  hold'[c] = hold[c] /\ ledger'[c] = ledger[c]
  <2>1. c # d
    BY <1>1 DEF Reserve, Closed
  <2> QED BY <1>1, <2>1, OtherHoldsStay
<1>2. ASSUME NEW d \in Calls, NEW a, NEW f, Close(d, a, f)
      PROVE  hold'[c] = hold[c] /\ ledger'[c] = ledger[c]
  <2>1. c # d
    BY <1>2 DEF Close, Open, Closed
  <2> QED BY <1>2, <2>1, OtherHoldsStay
<1>3. ASSUME NEW o \in Orgs, NEW n \in Amounts,
             OtherCharge(o, n) \/ OtherGrant(o, n)
      PROVE  hold'[c] = hold[c] /\ ledger'[c] = ledger[c]
  BY <1>3 DEF OtherCharge, OtherGrant
<1> QED BY <1>1, <1>2, <1>3 DEF Next, settle, release

(* A closed reservation is final, for every later transaction.             *)
THEOREM ClosedIsFinal == Spec => ClosedStaysClosed
<1> QED BY ClosedStep, HoldInvariant, PTL
        DEF Spec, ClosedStaysClosed, ClosedStays

(* A transaction that writes off an overrun empties the pool. *)
LEMMA DrainStep ==
  HoldInv /\ [Next]_creditVars => [Drains]_creditVars
<1> SUFFICES ASSUME HoldInv, Next, NEW c \in Calls,
                    hold'[c].shortfall > hold[c].shortfall
             PROVE  balance'[OrgOf[c]] = 0
  BY DEF Drains, creditVars
<1>0. hold[c].shortfall \in Nat
  BY DEF HoldInv, TypeOK, HoldRow
<1>1. ASSUME NEW d \in Calls, NEW n \in Quotes, Reserve(d, n)
      PROVE  FALSE
  <2>1. c = d
    BY <1>0, <1>1, OtherHoldsStay
  <2>2. hold'[c].shortfall = 0
    BY <1>1, <2>1 DEF HoldInv, TypeOK, Reserve, OpenHold
  <2> QED BY <1>0, <2>2
<1>2. ASSUME NEW d \in Calls, NEW a \in Nat, NEW f, Close(d, a, f)
      PROVE  balance'[OrgOf[c]] = 0
  <2>1. c = d
    BY <1>0, <1>2, OtherHoldsStay
  <2> DEFINE n == hold[c].held
             overrun == IF a <= n THEN 0 ELSE a - n
             freed == IF a <= n THEN n - a ELSE 0
  <2>2. /\ n \in Nat /\ OrgOf[c] \in Orgs
        /\ \E charged \in Nat : Closing(c, a, f, charged)
    BY <1>2, <2>1, CloseIsClosing, CreditAssumption DEF HoldInv
  <2>3. PICK charged \in Nat : Closing(c, a, f, charged)
    BY <2>2
  <2>4. /\ hold'[c].shortfall = overrun - charged
        /\ balance'[OrgOf[c]] = balance[OrgOf[c]] + freed - charged
        /\ charged < overrun => charged = balance[OrgOf[c]]
        /\ charged <= overrun
    BY <2>2, <2>3 DEF Closing, HoldInv, TypeOK
  <2>5. balance[OrgOf[c]] \in Nat
    BY <2>2 DEF HoldInv, TypeOK
  <2>6. overrun - charged > 0 /\ overrun \in Nat
    BY <1>0, <2>2, <2>3, <2>4
  <2>7. freed = 0
    BY <2>2, <2>6
  <2> QED BY <2>4, <2>5, <2>6, <2>7
<1>3. ASSUME NEW o \in Orgs, NEW n \in Amounts,
             OtherCharge(o, n) \/ OtherGrant(o, n)
      PROVE  FALSE
  BY <1>0, <1>3 DEF OtherCharge, OtherGrant
<1>4. ASSUME NEW d \in Calls, NEW a \in Costs, settle(d, a)
      PROVE  balance'[OrgOf[c]] = 0
  BY <1>2, <1>4, CreditAssumption DEF settle, CreditAssumption
<1>5. ASSUME NEW d \in Calls, release(d) PROVE balance'[OrgOf[c]] = 0
  BY <1>2, <1>5 DEF release
<1> QED BY <1>1, <1>3, <1>4, <1>5 DEF Next

(* An overrun is written off only by a step that empties the pool.         *)
THEOREM ShortfallOnlyWhenEmpty == Spec => ShortfallDrainsPool
<1> QED BY DrainStep, HoldInvariant, PTL
        DEF Spec, ShortfallDrainsPool, Drains

-----------------------------------------------------------------------------
(***************************************************************************)
(* Sums over a finite set of calls.  SumFunctionOnSet is a fold, defined   *)
(* by recursion over the subsets of the set, so every fact about it needs  *)
(* an induction; each is made by taking a smallest subset (or natural)     *)
(* for which the fact would fail, which exists because the ordering is     *)
(* well founded, and adding one call to something smaller.                 *)
(***************************************************************************)
(* The element the fold takes next. *)
Any(s) == CHOOSE x \in s : TRUE

(* It is an element of the set. *)
LEMMA AnyIsIn == ASSUME NEW s, s # {} PROVE Any(s) \in s
  BY DEF Any

(* The recursion of the fold, for the subsets in D. *)
Adds(f, D, g) ==
  g = [s \in D |-> IF s = {} THEN 0 ELSE f[Any(s)] + g[s \ {Any(s)}]]

(* The library's sum is the value of a function that satisfies that        *)
(* recursion, when there is one.                                           *)
LEMMA SumIsChoice ==
  ASSUME NEW f, NEW S
  PROVE SumFunctionOnSet(f, S) = (CHOOSE g : Adds(f, SUBSET S, g))[S]
  BY DEF SumFunctionOnSet, FoldFunctionOnSet, MapThenFoldSet, Adds, Any

(* The least-number principle, for a set. *)
LEMMA LeastNatural ==
  ASSUME NEW T \in SUBSET Nat, T # {}
  PROVE  \E n \in T : \A m \in T : n <= m
<1> DEFINE Below == {p \in Nat \X Nat : p[1] < p[2]}
<1>1. IsWellFoundedOn(Below, Nat)
  BY NatLessThanWellFounded DEF OpToRel
<1> HIDE DEF Below
<1>2. PICK n \in T : \A m \in T : ~(<<m, n>> \in Below)
  BY <1>1, WFMin
<1>3. ASSUME NEW m \in T PROVE n <= m
  <2>1. m \in Nat /\ n \in Nat
    OBVIOUS
  <2>2. ~(m < n)
    BY <1>2, <2>1 DEF Below
  <2> QED BY <2>1, <2>2
<1> QED BY <1>3

(* A smallest set of a collection of subsets of S: what is left of it when *)
(* the fold has taken one element is no longer in the collection.          *)
LEMMA LeastSubset ==
  ASSUME NEW S, IsFiniteSet(S), NEW T, \A t \in T : t \subseteq S, T # {}
  PROVE  \E s \in T : /\ s \subseteq S
                      /\ s # {} => /\ Any(s) \in s
                                   /\ s \ {Any(s)} \subseteq S
                                   /\ s \ {Any(s)} \notin T
<1>1. IsWellFoundedOn(StrictSubsetOrdering(S), SUBSET S)
  BY FS_StrictSubsetOrderingWellFounded, FS_FiniteSubsetsOfFinite
<1>2. PICK s \in T : \A t \in T : ~(<<t, s>> \in StrictSubsetOrdering(S))
  BY <1>1, WFMin
<1>3. s \subseteq S
  OBVIOUS
<1>4. ASSUME s # {}
      PROVE  /\ Any(s) \in s
             /\ s \ {Any(s)} \subseteq S
             /\ s \ {Any(s)} \notin T
  <2>1. Any(s) \in s
    BY <1>4, AnyIsIn
  <2>2. <<s \ {Any(s)}, s>> \in StrictSubsetOrdering(S)
    BY <1>3, <2>1 DEF StrictSubsetOrdering
  <2> QED BY <1>2, <1>3, <2>1, <2>2
<1> QED BY <1>3, <1>4

UpTo(S, n) == {s \in SUBSET S : Cardinality(s) <= n}

(* The recursion has a solution on the subsets of at most k elements: each *)
(* size extends the solution for the size before it.                       *)
LEMMA AddsUpTo ==
  ASSUME NEW f, NEW S, IsFiniteSet(S), NEW k \in Nat
  PROVE  \E g : Adds(f, UpTo(S, k), g)
<1> DEFINE T == {n \in Nat : ~\E g : Adds(f, UpTo(S, n), g)}
<1> SUFFICES ASSUME T # {} PROVE FALSE
  OBVIOUS
<1>1. PICK n \in T : \A m \in T : n <= m
  BY LeastNatural
<1>2. n \in Nat
  OBVIOUS
<1>3. ASSUME NEW s \in SUBSET S
      PROVE  /\ Cardinality(s) \in Nat
             /\ Cardinality(s) = 0 <=> s = {}
             /\ s # {} => /\ s \ {Any(s)} \in SUBSET S
                          /\ Cardinality(s \ {Any(s)}) = Cardinality(s) - 1
  BY FS_Subset, FS_EmptySet, FS_CardinalityType, FS_RemoveElement, AnyIsIn
<1>4. CASE n = 0
  <2> DEFINE g == [s \in UpTo(S, 0) |-> 0]
  <2>1. ASSUME NEW s \in UpTo(S, 0) PROVE s = {}
    <3>1. s \in SUBSET S /\ Cardinality(s) <= 0
      BY DEF UpTo
    <3>2. Cardinality(s) \in Nat
      BY <1>3, <3>1
    <3>3. Cardinality(s) = 0
      BY <3>1, <3>2
    <3> QED BY <1>3, <3>1, <3>3
  <2>2. Adds(f, UpTo(S, 0), g)
    BY <2>1 DEF Adds
  <2> QED BY <1>4, <2>2
<1>5. CASE n > 0
  <2>1. n - 1 \in Nat /\ n - 1 \notin T
    BY <1>1, <1>5
  <2>2. PICK g : Adds(f, UpTo(S, n - 1), g)
    BY <2>1
  <2> DEFINE h == [s \in UpTo(S, n) |->
                     IF s = {} THEN 0 ELSE f[Any(s)] + g[s \ {Any(s)}]]
  <2>3. ASSUME NEW s \in UpTo(S, n - 1) PROVE s \in UpTo(S, n) /\ h[s] = g[s]
    <3>1. s \in SUBSET S /\ Cardinality(s) <= n - 1
      BY DEF UpTo
    <3>2. Cardinality(s) \in Nat
      BY <1>3, <3>1
    <3>3. Cardinality(s) <= n
      BY <1>2, <3>1, <3>2
    <3>4. s \in UpTo(S, n)
      BY <3>1, <3>3 DEF UpTo
    <3> QED BY <2>2, <3>4 DEF Adds
  <2>4. ASSUME NEW s \in UpTo(S, n), s # {}
        PROVE  s \ {Any(s)} \in UpTo(S, n - 1)
    BY <1>3, <2>1, <2>4 DEF UpTo
  <2>5. ASSUME NEW s \in UpTo(S, n), s # {}
        PROVE  h[s] = f[Any(s)] + h[s \ {Any(s)}]
    BY <2>3, <2>4, <2>5
  <2>6. Adds(f, UpTo(S, n), h)
    BY <2>5 DEF Adds
  <2> QED BY <2>6
<1> QED BY <1>2, <1>4, <1>5

(* What the inductions below use of the fold. *)
Table(f, S, g) ==
  /\ g[{}] = 0
  /\ \A s \in SUBSET S :
       s # {} => g[s] = f[Any(s)] + g[s \ {Any(s)}]

(* The sum over a finite set is the last entry of a table of sums.         *)
LEMMA SumTable ==
  ASSUME NEW f, NEW S, IsFiniteSet(S)
  PROVE  \E g : Table(f, S, g) /\ SumFunctionOnSet(f, S) = g[S]
<1>1. Cardinality(S) \in Nat
  BY FS_CardinalityType
<1>2. UpTo(S, Cardinality(S)) = SUBSET S
  BY FS_Subset DEF UpTo
<1>3. \E g : Adds(f, UpTo(S, Cardinality(S)), g)
  BY <1>1, AddsUpTo
<1>4. PICK g : Adds(f, SUBSET S, g) /\ SumFunctionOnSet(f, S) = g[S]
  BY <1>2, <1>3, SumIsChoice
<1>5. g[{}] = 0
  BY <1>4 DEF Adds
<1>6. ASSUME NEW s \in SUBSET S, s # {}
      PROVE  g[s] = f[Any(s)] + g[s \ {Any(s)}]
  BY <1>4, <1>6 DEF Adds
<1> QED BY <1>4, <1>5, <1>6 DEF Table

(* Every entry of a table of sums of integers is an integer. *)
LEMMA SumIsInt ==
  ASSUME NEW f, NEW S, IsFiniteSet(S), NEW g, Table(f, S, g),
         \A d \in S : f[d] \in Int
  PROVE  \A s \in SUBSET S : g[s] \in Int
<1> DEFINE T == {s \in SUBSET S : g[s] \notin Int}
<1> SUFFICES ASSUME T # {} PROVE FALSE
  OBVIOUS
<1>1. \A t \in T : t \subseteq S
  OBVIOUS
<1> HIDE DEF T
<1>2. PICK s \in T : /\ s \subseteq S
                     /\ s # {} => /\ Any(s) \in s
                                  /\ s \ {Any(s)} \subseteq S
                                  /\ s \ {Any(s)} \notin T
  BY <1>1, LeastSubset
<1>3. g[s] \notin Int
  BY DEF T
<1>4. s # {}
  BY <1>3 DEF Table
<1>5. g[s] = f[Any(s)] + g[s \ {Any(s)}]
  BY <1>2, <1>4 DEF Table
<1>6. g[s \ {Any(s)}] \in Int
  BY <1>2, <1>4 DEF T
<1>7. f[Any(s)] \in Int
  BY <1>2, <1>4
<1> QED BY <1>3, <1>5, <1>6, <1>7

(* Nothing adds up to nothing. *)
LEMMA SumOfZeros ==
  ASSUME NEW f, NEW S, IsFiniteSet(S), \A d \in S : f[d] = 0
  PROVE  SumFunctionOnSet(f, S) = 0
<1>1. PICK g : Table(f, S, g) /\ SumFunctionOnSet(f, S) = g[S]
  BY SumTable
<1> DEFINE T == {s \in SUBSET S : g[s] # 0}
<1> SUFFICES ASSUME T # {} PROVE FALSE
  BY <1>1
<1>2. \A t \in T : t \subseteq S
  OBVIOUS
<1> HIDE DEF T
<1>3. PICK s \in T : /\ s \subseteq S
                     /\ s # {} => /\ Any(s) \in s
                                  /\ s \ {Any(s)} \subseteq S
                                  /\ s \ {Any(s)} \notin T
  BY <1>2, LeastSubset
<1>4. g[s] # 0
  BY DEF T
<1>5. s # {}
  BY <1>1, <1>4 DEF Table
<1>6. g[s] = f[Any(s)] + g[s \ {Any(s)}]
  BY <1>1, <1>3, <1>5 DEF Table
<1>7. f[Any(s)] = 0 /\ g[s \ {Any(s)}] = 0
  BY <1>3, <1>5 DEF T
<1> QED BY <1>4, <1>6, <1>7

(* A sum of naturals is a natural and covers each of its terms.            *)
LEMMA SumOfNaturals ==
  ASSUME NEW f, NEW S, IsFiniteSet(S), \A d \in S : f[d] \in Nat
  PROVE  /\ SumFunctionOnSet(f, S) \in Nat
         /\ \A c \in S : f[c] <= SumFunctionOnSet(f, S)
<1>1. PICK g : Table(f, S, g) /\ SumFunctionOnSet(f, S) = g[S]
  BY SumTable
<1> DEFINE Covers(s) == g[s] \in Nat /\ \A c \in s : f[c] <= g[s]
           T == {s \in SUBSET S : ~Covers(s)}
<1> SUFFICES ASSUME T # {} PROVE FALSE
  <2>1. S \in SUBSET S
    OBVIOUS
  <2> QED BY <1>1, <2>1
<1>2. \A t \in T : t \subseteq S
  OBVIOUS
<1> HIDE DEF T
<1>3. PICK s \in T : /\ s \subseteq S
                     /\ s # {} => /\ Any(s) \in s
                                  /\ s \ {Any(s)} \subseteq S
                                  /\ s \ {Any(s)} \notin T
  BY <1>2, LeastSubset
<1>4. ~Covers(s)
  BY DEF T
<1>5. s # {}
  <2>1. g[{}] = 0
    BY <1>1 DEF Table
  <2> QED BY <1>4, <2>1
<1> DEFINE r == s \ {Any(s)}
<1>6. g[s] = f[Any(s)] + g[r]
  BY <1>1, <1>3, <1>5 DEF Table
<1>7. /\ f[Any(s)] \in Nat
      /\ g[r] \in Nat
      /\ \A c \in r : f[c] <= g[r]
  BY <1>3, <1>5 DEF T
<1>8. g[s] \in Nat /\ f[Any(s)] <= g[s] /\ g[r] <= g[s]
  BY <1>6, <1>7
<1>9. ASSUME NEW c \in s PROVE f[c] <= g[s]
  <2>1. CASE c = Any(s)
    BY <1>8, <2>1
  <2>2. CASE c # Any(s)
    <3>1. f[c] \in Nat /\ f[c] <= g[r]
      BY <1>3, <1>7, <2>2
    <3> QED BY <1>7, <1>8, <3>1
  <2> QED BY <2>1, <2>2
<1> QED BY <1>4, <1>8, <1>9

(* Changing one term changes the sum by what the term changed.             *)
LEMMA SumChanges ==
  ASSUME NEW f, NEW h, NEW S, IsFiniteSet(S), NEW c,
         \A d \in S : f[d] \in Int /\ h[d] \in Int,
         \A d \in S : d # c => h[d] = f[d]
  PROVE  /\ SumFunctionOnSet(f, S) \in Int
         /\ SumFunctionOnSet(h, S) =
              SumFunctionOnSet(f, S) + (IF c \in S THEN h[c] - f[c] ELSE 0)
<1>1. PICK p : Table(f, S, p) /\ SumFunctionOnSet(f, S) = p[S]
  BY SumTable
<1>2. PICK q : Table(h, S, q) /\ SumFunctionOnSet(h, S) = q[S]
  BY SumTable
<1>3. \A s \in SUBSET S : p[s] \in Int
  BY <1>1, SumIsInt
<1>4. \A s \in SUBSET S : q[s] \in Int
  BY <1>2, SumIsInt
<1>5. ASSUME NEW s \in SUBSET S
      PROVE  q[s] - p[s] = IF c \in s THEN h[c] - f[c] ELSE 0
  <2> DEFINE T == {t \in SUBSET S :
                     q[t] - p[t] # IF c \in t THEN h[c] - f[c] ELSE 0}
  <2> SUFFICES ASSUME T # {} PROVE FALSE
    OBVIOUS
  <2>1. \A t \in T : t \subseteq S
    OBVIOUS
  <2> HIDE DEF T
  <2>2. PICK u \in T : /\ u \subseteq S
                       /\ u # {} => /\ Any(u) \in u
                                    /\ u \ {Any(u)} \subseteq S
                                    /\ u \ {Any(u)} \notin T
    BY <2>1, LeastSubset
  <2>3. q[u] - p[u] # IF c \in u THEN h[c] - f[c] ELSE 0
    BY DEF T
  <2>4. u # {}
    <3>1. p[{}] = 0 /\ q[{}] = 0
      BY <1>1, <1>2 DEF Table
    <3> QED BY <2>3, <3>1
  <2>5. PICK x : x = Any(u)
    OBVIOUS
  <2>6. PICK r : r = u \ {x}
    OBVIOUS
  <2>7. p[u] = f[x] + p[r]
    BY <1>1, <2>2, <2>4, <2>5, <2>6 DEF Table
  <2>8. q[u] = h[x] + q[r]
    BY <1>2, <2>2, <2>4, <2>5, <2>6 DEF Table
  <2>9. x \in u /\ r \subseteq S
    BY <2>2, <2>4, <2>5, <2>6
  <2>10. q[r] - p[r] = IF c \in r THEN h[c] - f[c] ELSE 0
    BY <2>2, <2>4, <2>5, <2>6 DEF T
  <2>11. /\ f[x] \in Int /\ h[x] \in Int
         /\ p[r] \in Int /\ q[r] \in Int
    BY <1>3, <1>4, <2>2, <2>9
  <2>12. CASE c = x
    <3>1. c \in u /\ c \notin r
      BY <2>6, <2>9, <2>12
    <3> QED BY <2>3, <2>7, <2>8, <2>10, <2>11, <2>12, <3>1
  <2>13. CASE c # x
    <3>1. c \in u <=> c \in r
      BY <2>6, <2>9, <2>13
    <3>2. h[x] = f[x]
      BY <2>2, <2>9, <2>13
    <3>3. q[u] - p[u] = q[r] - p[r]
      BY <2>7, <2>8, <2>11, <3>2
    <3> QED BY <2>3, <2>10, <3>1, <3>3
  <2> QED BY <2>12, <2>13
<1>6. S \in SUBSET S
  OBVIOUS
<1>7. q[S] - p[S] = IF c \in S THEN h[c] - f[c] ELSE 0
  BY <1>5, <1>6
<1>8. p[S] \in Int /\ q[S] \in Int
  BY <1>3, <1>4, <1>6
<1>9. q[S] = p[S] + (IF c \in S THEN h[c] - f[c] ELSE 0)
  BY <1>7, <1>8
<1> QED BY <1>1, <1>2, <1>8, <1>9

(* A sum of integers is an integer. *)
LEMMA SumOfInts ==
  ASSUME NEW f, NEW S, IsFiniteSet(S), \A d \in S : f[d] \in Int
  PROVE  SumFunctionOnSet(f, S) \in Int
<1>1. PICK p : Table(f, S, p) /\ SumFunctionOnSet(f, S) = p[S]
  BY SumTable
<1>2. S \in SUBSET S
  OBVIOUS
<1>3. \A s \in SUBSET S : p[s] \in Int
  BY <1>1, SumIsInt
<1> QED BY <1>1, <1>2, <1>3

(* One term of f, that of c, moves by m and gives h. *)
Moves(f, h, S, c, m) ==
  /\ c \in S
  /\ m \in Int
  /\ \A d \in S : f[d] \in Int
  /\ \A d \in S : h[d] = IF d = c THEN f[d] + m ELSE f[d]

(* A sum moves with its terms. *)
LEMMA SumMoves ==
  ASSUME NEW f, NEW h, NEW S, NEW c, NEW m,
         IsFiniteSet(S), Moves(f, h, S, c, m)
  PROVE  SumFunctionOnSet(h, S) = SumFunctionOnSet(f, S) + m
<1> USE DEF Moves
<1>1. \A d \in S : f[d] \in Int /\ h[d] \in Int
  OBVIOUS
<1>2. \A d \in S : d # c => h[d] = f[d]
  OBVIOUS
<1>3. h[c] - f[c] = m
  OBVIOUS
<1> QED BY <1>1, <1>2, <1>3, SumChanges

(* A sum depends on its terms only. *)
LEMMA SumAgrees ==
  ASSUME NEW f, NEW h, NEW S, IsFiniteSet(S),
         \A d \in S : f[d] \in Int /\ h[d] = f[d]
  PROVE  SumFunctionOnSet(h, S) = SumFunctionOnSet(f, S)
<1>1. \A d \in S : f[d] \in Int /\ h[d] \in Int
  OBVIOUS
<1>2. PICK c : c \notin S
  <2> DEFINE R == {s \in S : s \notin s}
  <2> SUFFICES R \notin S
    OBVIOUS
  <2> QED OBVIOUS
<1>3. \A d \in S : d # c => h[d] = f[d]
  OBVIOUS
<1>4. SumFunctionOnSet(f, S) \in Int
  BY <1>1, <1>3, SumChanges
<1>5. SumFunctionOnSet(h, S) = SumFunctionOnSet(f, S) + 0
  BY <1>1, <1>2, <1>3, SumChanges
<1> QED BY <1>4, <1>5

(* Three sums over the same calls cancel when their terms do. *)
LEMMA SumsCancel ==
  ASSUME NEW f, NEW h, NEW e, NEW S, IsFiniteSet(S),
         \A d \in S : f[d] \in Int /\ h[d] \in Int /\ e[d] \in Int,
         \A d \in S : f[d] + h[d] + e[d] = 0
  PROVE  SumFunctionOnSet(f, S) + SumFunctionOnSet(h, S)
                                + SumFunctionOnSet(e, S) = 0
<1>1. PICK p : Table(f, S, p) /\ SumFunctionOnSet(f, S) = p[S]
  BY SumTable
<1>2. PICK q : Table(h, S, q) /\ SumFunctionOnSet(h, S) = q[S]
  BY SumTable
<1>3. PICK r : Table(e, S, r) /\ SumFunctionOnSet(e, S) = r[S]
  BY SumTable
<1>4. \A s \in SUBSET S : p[s] \in Int
  BY <1>1, SumIsInt
<1>5. \A s \in SUBSET S : q[s] \in Int
  BY <1>2, SumIsInt
<1>6. \A s \in SUBSET S : r[s] \in Int
  BY <1>3, SumIsInt
<1> DEFINE T == {t \in SUBSET S : p[t] + q[t] + r[t] # 0}
<1> SUFFICES ASSUME T # {} PROVE FALSE
  <2>1. S \in SUBSET S
    OBVIOUS
  <2> QED BY <1>1, <1>2, <1>3, <2>1
<1>7. \A t \in T : t \subseteq S
  OBVIOUS
<1> HIDE DEF T
<1>8. PICK u \in T : /\ u \subseteq S
                     /\ u # {} => /\ Any(u) \in u
                                  /\ u \ {Any(u)} \subseteq S
                                  /\ u \ {Any(u)} \notin T
  BY <1>7, LeastSubset
<1>9. p[u] + q[u] + r[u] # 0
  BY DEF T
<1>10. u # {}
  <2>1. p[{}] = 0 /\ q[{}] = 0 /\ r[{}] = 0
    BY <1>1, <1>2, <1>3 DEF Table
  <2>2. u = {} => p[u] + q[u] + r[u] = 0 + 0 + 0
    BY <2>1, Zenon
  <2> QED BY <1>9, <2>2
<1>11. PICK x : x = Any(u)
  OBVIOUS
<1>12. PICK v : v = u \ {x}
  OBVIOUS
<1>13. p[u] = f[x] + p[v] /\ q[u] = h[x] + q[v] /\ r[u] = e[x] + r[v]
  <2>1. p[u] = f[x] + p[v]
    BY <1>1, <1>8, <1>10, <1>11, <1>12 DEF Table
  <2>2. q[u] = h[x] + q[v]
    BY <1>2, <1>8, <1>10, <1>11, <1>12 DEF Table
  <2>3. r[u] = e[x] + r[v]
    BY <1>3, <1>8, <1>10, <1>11, <1>12 DEF Table
  <2> QED BY <2>1, <2>2, <2>3
<1>14. x \in S /\ v \in SUBSET S
  BY <1>8, <1>10, <1>11, <1>12
<1>15. p[v] + q[v] + r[v] = 0
  BY <1>8, <1>10, <1>11, <1>12, <1>14 DEF T
<1>16. f[x] + h[x] + e[x] = 0
  BY <1>14
<1>17. /\ f[x] \in Int /\ h[x] \in Int /\ e[x] \in Int
       /\ p[v] \in Int /\ q[v] \in Int /\ r[v] \in Int
  BY <1>4, <1>5, <1>6, <1>14
<1> QED BY <1>9, <1>13, <1>15, <1>16, <1>17

-----------------------------------------------------------------------------
PoolInv == HoldInv /\ PoolIsLedgerSum

(* The calls of an organisation are finitely many.                         *)
LEMMA CallsOfFinite ==
  ASSUME CreditAssumption, NEW o \in Orgs
  PROVE  IsFiniteSet(CallsOf(o)) /\ CallsOf(o) \subseteq Calls
  BY FS_Subset DEF CreditAssumption, CallsOf

(* A transaction that moves the pool and writes the same amount to the     *)
(* ledger of a call of that organisation keeps the books.                  *)
LEMMA CallRowKeepsPool ==
  ASSUME CreditAssumption, TypeOK, PoolIsLedgerSum,
         NEW d \in Calls, NEW m \in Int,
         balance' = [balance EXCEPT ![OrgOf[d]] = @ + m],
         ledger' = [ledger EXCEPT ![d] = @ + m],
         UNCHANGED other
  PROVE  PoolIsLedgerSum'
<1> SUFFICES ASSUME NEW o \in Orgs
             PROVE  balance'[o] = Opening[o] + other'[o]
                                   + SumFunctionOnSet(ledger', CallsOf(o))
  BY DEF PoolIsLedgerSum, CallsOf
<1>1. /\ balance \in [Orgs -> Nat] /\ ledger \in [Calls -> Int]
      /\ other \in [Orgs -> Int] /\ Opening \in [Orgs -> Nat]
  BY DEF TypeOK, CreditAssumption
<1>2. IsFiniteSet(CallsOf(o)) /\ CallsOf(o) \subseteq Calls
  BY CallsOfFinite
<1>4. \A c \in CallsOf(o) : ledger[c] \in Int
  BY <1>1, <1>2
<1>5. \A c \in CallsOf(o) :
        ledger'[c] = IF c = d THEN ledger[c] + m ELSE ledger[c]
  BY <1>1, <1>2
<1>6. SumFunctionOnSet(ledger, CallsOf(o)) \in Int
  BY <1>2, <1>4, SumOfInts
<1>7. balance[o] = Opening[o] + other[o] + SumFunctionOnSet(ledger, CallsOf(o))
  BY DEF PoolIsLedgerSum
<1>8. other'[o] = other[o] /\ other[o] \in Int /\ Opening[o] \in Int
  BY <1>1
<1>9. CASE OrgOf[d] = o
  <2>1. d \in CallsOf(o) /\ balance'[o] = balance[o] + m
    BY <1>1, <1>9 DEF CallsOf
  <2>2. SumFunctionOnSet(ledger', CallsOf(o)) =
          SumFunctionOnSet(ledger, CallsOf(o)) + m
    <3>1. Moves(ledger, ledger', CallsOf(o), d, m)
      BY <1>4, <1>5, <2>1 DEF Moves
    <3> QED BY <1>2, <3>1, SumMoves
  <2> QED BY <1>6, <1>7, <1>8, <2>1, <2>2
<1>10. CASE OrgOf[d] # o
  <2>1. d \notin CallsOf(o) /\ balance'[o] = balance[o]
    BY <1>1, <1>10 DEF CallsOf
  <2>2. \A c \in CallsOf(o) : ledger[c] \in Int /\ ledger'[c] = ledger[c]
    BY <1>4, <1>5, <2>1
  <2>3. SumFunctionOnSet(ledger', CallsOf(o)) =
          SumFunctionOnSet(ledger, CallsOf(o))
    BY <1>2, <2>2, SumAgrees, ZenonT(40)
  <2> QED BY <1>7, <1>8, <2>1, <2>3
<1> QED BY <1>9, <1>10

(* Every transaction of credits.rs writes the ledger row of what it moves. *)
LEMMA PoolStep == CreditAssumption /\ PoolInv /\ [Next]_creditVars => PoolInv'
<1> SUFFICES ASSUME CreditAssumption, PoolInv, [Next]_creditVars
             PROVE  PoolInv'
  OBVIOUS
<1>1. HoldInv' /\ HoldInv /\ TypeOK /\ PoolIsLedgerSum
  BY HoldStep DEF PoolInv, HoldInv
<1>2. ASSUME NEW c \in Calls, NEW n \in Quotes, Reserve(c, n)
      PROVE  PoolIsLedgerSum'
  <2>1. n \in Nat /\ OrgOf[c] \in Orgs
    BY DEF CreditAssumption
  <2>2. balance[OrgOf[c]] \in Nat /\ ledger[c] \in Int
    BY <1>1, <2>1 DEF TypeOK
  <2>3. /\ balance[OrgOf[c]] - n = balance[OrgOf[c]] + (0 - n)
        /\ ledger[c] - n = ledger[c] + (0 - n)
    BY <2>1, <2>2
  <2>4. /\ balance' = [balance EXCEPT ![OrgOf[c]] = @ + (0 - n)]
        /\ ledger' = [ledger EXCEPT ![c] = @ + (0 - n)]
    BY <1>2, <2>3 DEF Reserve
  <2>5. 0 - n \in Int /\ UNCHANGED other
    BY <1>2, <2>1 DEF Reserve
  <2> QED BY <1>1, <2>4, <2>5, CallRowKeepsPool
<1>3. ASSUME NEW c \in Calls, NEW a \in Nat, NEW f, Close(c, a, f)
      PROVE  PoolIsLedgerSum'
  <2> DEFINE n == hold[c].held
             freed == IF a <= n THEN n - a ELSE 0
  <2>1. PICK charged \in Nat : Closing(c, a, f, charged)
    BY <1>1, <1>3, CloseIsClosing
  <2>2. n \in Nat /\ OrgOf[c] \in Orgs
    BY <1>1, <1>3, CloseIsClosing
  <2>3. freed \in Nat
    BY <2>2
  <2>4. /\ balance' = [balance EXCEPT ![OrgOf[c]] = @ + freed - charged]
        /\ ledger' = [ledger EXCEPT ![c] = @ + freed - charged]
        /\ UNCHANGED other
    BY <2>1 DEF Closing
  <2> HIDE DEF freed
  <2>5. /\ balance' = [balance EXCEPT ![OrgOf[c]] = @ + (freed - charged)]
        /\ ledger' = [ledger EXCEPT ![c] = @ + (freed - charged)]
    BY <1>1, <2>2, <2>3, <2>4 DEF TypeOK
  <2>6. freed - charged \in Int
    BY <2>3
  <2> QED BY <1>1, <2>4, <2>5, <2>6, CallRowKeepsPool
<1>4. ASSUME NEW o \in Orgs, NEW n \in Amounts,
             OtherCharge(o, n) \/ OtherGrant(o, n)
      PROVE  PoolIsLedgerSum'
  <2> SUFFICES ASSUME NEW p \in Orgs
               PROVE  balance'[p] = Opening[p] + other'[p]
                                     + SumFunctionOnSet(ledger', CallsOf(p))
    BY DEF PoolIsLedgerSum, CallsOf
  <2>1. n \in Nat /\ ledger' = ledger
    BY <1>4 DEF CreditAssumption, OtherCharge, OtherGrant
  <2>2. balance'[p] - balance[p] = other'[p] - other[p]
    BY <1>1, <1>4, <2>1 DEF TypeOK, OtherCharge, OtherGrant
  <2>3. /\ balance[p] = Opening[p] + other[p]
                         + SumFunctionOnSet(ledger, CallsOf(p))
        /\ balance[p] \in Int /\ other[p] \in Int /\ Opening[p] \in Int
    BY <1>1 DEF PoolIsLedgerSum, TypeOK, CreditAssumption
  <2>4. SumFunctionOnSet(ledger, CallsOf(p)) \in Int
    <3>1. \A c \in CallsOf(p) : ledger[c] \in Int
      BY <1>1, CallsOfFinite DEF TypeOK
    <3> QED BY <3>1, CallsOfFinite, SumOfInts
  <2>5. balance'[p] \in Int /\ other'[p] \in Int
    BY <1>1 DEF HoldInv, TypeOK
  <2> QED BY <2>1, <2>2, <2>3, <2>4, <2>5
<1>5. ASSUME UNCHANGED creditVars PROVE PoolIsLedgerSum'
  BY <1>1, <1>5 DEF creditVars, PoolIsLedgerSum, CallsOf
<1>6. ASSUME NEW c \in Calls, NEW a \in Costs, settle(c, a)
      PROVE  PoolIsLedgerSum'
  BY <1>3, <1>6 DEF settle, CreditAssumption
<1>7. ASSUME NEW c \in Calls, release(c) PROVE PoolIsLedgerSum'
  BY <1>3, <1>7 DEF release
<1>8. PoolIsLedgerSum'
  BY <1>2, <1>4, <1>5, <1>6, <1>7 DEF Next
<1> QED BY <1>1, <1>8 DEF PoolInv

(* The books are balanced when they are opened. *)
LEMMA PoolInit == CreditAssumption /\ Init => PoolInv
<1> SUFFICES ASSUME CreditAssumption, Init PROVE PoolInv
  OBVIOUS
<1>1. ASSUME NEW o \in Orgs
      PROVE  balance[o] = Opening[o] + other[o]
                           + SumFunctionOnSet(ledger, CallsOf(o))
  <2>1. \A c \in CallsOf(o) : ledger[c] = 0
    BY CallsOfFinite DEF Init
  <2>2. SumFunctionOnSet(ledger, CallsOf(o)) = 0
    BY <2>1, CallsOfFinite, SumOfZeros
  <2>3. balance[o] = Opening[o] /\ other[o] = 0 /\ Opening[o] \in Nat
    BY DEF Init, CreditAssumption
  <2> QED BY <2>2, <2>3
<1> QED BY <1>1, HoldInit DEF PoolInv, PoolIsLedgerSum

(* No transaction moves the balance of an organisation without its row.    *)
THEOREM PoolAlwaysLedgerSum == Spec => []PoolIsLedgerSum
<1>1. Init => PoolInv
  BY PoolInit, CreditAssumption
<1>2. PoolInv /\ [Next]_creditVars => PoolInv'
  BY PoolStep, CreditAssumption
<1>3. PoolInv => PoolIsLedgerSum
  BY DEF PoolInv
<1> QED BY <1>1, <1>2, <1>3, PTL DEF Spec

-----------------------------------------------------------------------------
(* The account's own words for the pool and the open holds. *)
Funds == [o \in Orgs |-> balance[o] + SumFunctionOnSet(StillHeld, CallsOf(o))]

Bills == [c \in Calls |->
            [state |-> CASE hold[c].state = "none" -> "none"
                         [] hold[c].state = "held" -> "open"
                         [] OTHER -> "billed",
             paid  |-> hold[c].settled]]

(* What is still held is a number of credits, and so is its sum.           *)
LEMMA StillHeldTypes ==
  ASSUME CreditAssumption, TypeOK
  PROVE  /\ StillHeld \in [Calls -> Nat]
         /\ \A o \in Orgs : SumFunctionOnSet(StillHeld, CallsOf(o)) \in Nat
<1>1. StillHeld \in [Calls -> Nat]
  BY DEF StillHeld, TypeOK, HoldRow
<1>2. ASSUME NEW o \in Orgs
      PROVE  SumFunctionOnSet(StillHeld, CallsOf(o)) \in Nat
  <2>1. IsFiniteSet(CallsOf(o)) /\ \A c \in CallsOf(o) : StillHeld[c] \in Nat
    BY <1>1, CallsOfFinite
  <2> QED BY <2>1, SumOfNaturals
<1> QED BY <1>1, <1>2

(* The account adds up the way this module does.                           *)
LEMMA AccountSum ==
  ASSUME NEW f, NEW S
  PROVE  Account!SumFunctionOnSet(f, S) = SumFunctionOnSet(f, S)
  BY DEF SumFunctionOnSet, FoldFunctionOnSet, MapThenFoldSet,
         Account!SumFunctionOnSet, Account!FoldFunctionOnSet,
         Account!MapThenFoldSet

(* What the account can spend is what is left in the pool.                 *)
LEMMA SpendableIsBalance ==
  ASSUME CreditAssumption, TypeOK, NEW o \in Orgs
  PROVE  Account!Spendable(o) = balance[o]
<1>1. SumFunctionOnSet(StillHeld, CallsOf(o)) \in Nat /\ balance[o] \in Nat
  BY StillHeldTypes DEF TypeOK
<1>2. Account!Spendable(o) =
        (balance[o] + SumFunctionOnSet(StillHeld, CallsOf(o)))
          - SumFunctionOnSet(StillHeld, CallsOf(o))
  <2>1. Account!SumFunctionOnSet(StillHeld, CallsOf(o)) =
          SumFunctionOnSet(StillHeld, CallsOf(o))
    BY AccountSum
  <2>2. Account!Spendable(o) =
          Funds[o] - Account!SumFunctionOnSet(StillHeld, CallsOf(o))
    BY DEF Account!Spendable, CallsOf, Funds
  <2>3. Funds[o] = balance[o] + SumFunctionOnSet(StillHeld, CallsOf(o))
    BY DEF Funds
  <2> QED BY <2>1, <2>2, <2>3
<1> QED BY <1>1, <1>2

(* m credits leave the pool of d's organisation, and p stay held for d. *)
PoolAndHold(d, m, p) ==
  /\ m \in Int /\ p \in Nat
  /\ balance' = [balance EXCEPT ![OrgOf[d]] = @ - m]
  /\ StillHeld' = [StillHeld EXCEPT ![d] = p]

(* A transaction on the hold of call d that leaves p of it held and takes  *)
(* m credits out of the pool takes them out of the funds, less what it     *)
(* newly holds.                                                            *)
LEMMA FundsFollowHold ==
  ASSUME CreditAssumption, TypeOK, NEW d \in Calls, NEW m, NEW p,
         PoolAndHold(d, m, p)
  PROVE  Funds' = [Funds EXCEPT ![OrgOf[d]] = @ - m + p - StillHeld[d]]
<1> USE DEF PoolAndHold
<1>1. /\ balance \in [Orgs -> Nat] /\ StillHeld \in [Calls -> Nat]
      /\ OrgOf[d] \in Orgs
  BY StillHeldTypes DEF TypeOK, CreditAssumption
<1>2. ASSUME NEW o \in Orgs
      PROVE  Funds'[o] = [Funds EXCEPT ![OrgOf[d]] =
                                         @ - m + p - StillHeld[d]][o]
  <2>1. /\ Funds[o] = balance[o] + SumFunctionOnSet(StillHeld, CallsOf(o))
        /\ Funds'[o] = balance'[o] + SumFunctionOnSet(StillHeld', CallsOf(o))
    BY DEF Funds, CallsOf
  <2>2. IsFiniteSet(CallsOf(o)) /\ CallsOf(o) \subseteq Calls
    BY CallsOfFinite
  <2>3. SumFunctionOnSet(StillHeld, CallsOf(o)) \in Nat /\ balance[o] \in Nat
    BY <1>1, StillHeldTypes
  <2>4. CASE OrgOf[d] = o
    <3>1. StillHeld[d] \in Nat /\ p - StillHeld[d] \in Int
      BY <1>1
    <3>2. Moves(StillHeld, StillHeld', CallsOf(o), d, p - StillHeld[d])
      BY <1>1, <2>2, <2>4, <3>1 DEF Moves, CallsOf
    <3>3. SumFunctionOnSet(StillHeld', CallsOf(o)) =
            SumFunctionOnSet(StillHeld, CallsOf(o)) + (p - StillHeld[d])
      BY <2>2, <3>2, SumMoves
    <3>4. balance'[o] = balance[o] - m
      BY <1>1, <2>4
    <3>5. Funds'[o] = Funds[o] - m + p - StillHeld[d]
      BY <2>1, <2>3, <3>1, <3>3, <3>4
    <3> QED BY <2>4, <3>5 DEF Funds
  <2>5. CASE OrgOf[d] # o
    <3>1. \A c \in CallsOf(o) : StillHeld[c] \in Int
                                 /\ StillHeld'[c] = StillHeld[c]
      BY <1>1, <2>2, <2>5 DEF CallsOf
    <3>2. SumFunctionOnSet(StillHeld', CallsOf(o)) =
            SumFunctionOnSet(StillHeld, CallsOf(o))
      BY <2>2, <3>1, SumAgrees
    <3>3. balance'[o] = balance[o]
      BY <1>1, <2>5
    <3>4. Funds'[o] = Funds[o]
      BY <2>1, <3>2, <3>3
    <3> QED BY <2>5, <3>4 DEF Funds
  <2> QED BY <2>4, <2>5
<1> QED BY <1>2 DEF Funds

(* Taking a hold is putting money aside: the funds stay what they are.     *)
LEMMA ReserveIsPutAside ==
  ASSUME CreditAssumption, HoldInv, TypeOK', NEW d \in Calls,
         NEW n \in Quotes, Reserve(d, n)
  PROVE  Account!PutAside(d, n)
<1>1. n \in Nat /\ OrgOf[d] \in Orgs /\ TypeOK
  BY DEF CreditAssumption, HoldInv
<1>2. n <= Account!Spendable(OrgOf[d])
  <2>1. balance[OrgOf[d]] \in Nat /\ n <= balance[OrgOf[d]]
    BY <1>1 DEF Reserve, CanCover, TypeOK
  <2> QED BY <1>1, <2>1, SpendableIsBalance
<1>3. /\ hold[d] = NoHold
      /\ hold' = [hold EXCEPT ![d] = OpenHold(n)]
      /\ balance' = [balance EXCEPT ![OrgOf[d]] = @ - n]
  BY DEF HoldInv, Untouched, Reserve
<1>4. hold \in [Calls -> HoldRow]
  BY <1>1 DEF TypeOK
<1>5. StillHeld' = [StillHeld EXCEPT ![d] = n]
  BY <1>3, <1>4 DEF StillHeld, OpenHold
<1>6. StillHeld[d] = 0
  BY <1>3 DEF StillHeld, NoHold
<1>7. Funds' = Funds
  <2>1. Funds' = [Funds EXCEPT ![OrgOf[d]] = @ - n + n - StillHeld[d]]
    <3>1. PoolAndHold(d, n, n)
      BY <1>1, <1>3, <1>5 DEF PoolAndHold
    <3> QED BY <1>1, <3>1, FundsFollowHold
  <2>2. Funds[OrgOf[d]] \in Int
    BY <1>1, StillHeldTypes DEF Funds, TypeOK
  <2>3. Funds[OrgOf[d]] - n + n - StillHeld[d] = Funds[OrgOf[d]]
    BY <1>1, <1>6, <2>2
  <2> QED BY <2>1, <2>3 DEF Funds
<1>8. Bills[d].state = "none"
  BY <1>3 DEF Bills, NoHold
<1>9. Bills' = [Bills EXCEPT ![d].state = "open"]
  <2>1. /\ Bills[d] = [state |-> "none", paid |-> 0]
        /\ Bills'[d] = [state |-> "open", paid |-> 0]
    BY <1>3, <1>4 DEF Bills, OpenHold, NoHold
  <2>2. ASSUME NEW c \in Calls, c # d PROVE Bills'[c] = Bills[c]
    BY <1>3, <1>4, <2>2 DEF Bills
  <2>3. [Bills[d] EXCEPT !.state = "open"] = Bills'[d]
    BY <2>1
  <2>4. /\ Bills = [c \in Calls |-> Bills[c]]
        /\ Bills' = [c \in Calls |-> Bills'[c]]
    BY DEF Bills
  <2> QED BY <2>2, <2>3, <2>4
<1> QED BY <1>2, <1>5, <1>7, <1>8, <1>9
        DEF Account!PutAside, Funds, Bills

(* Closing a hold is billing the call: for what it owes, or for all that   *)
(* its own hold and the pool hold together.                                *)
LEMMA CloseIsBill ==
  ASSUME CreditAssumption, HoldInv, TypeOK', NEW d \in Calls,
         NEW actual \in Nat, NEW final \in {"settled", "released"},
         Close(d, actual, final)
  PROVE  Account!Bill(d, actual)
<1> DEFINE o == OrgOf[d]
           n == hold[d].held
           freed == IF actual <= n THEN n - actual ELSE 0
           overrun == IF actual <= n THEN 0 ELSE actual - n
           reach == balance[o] + n
           paid == IF actual <= reach THEN actual ELSE reach
<1>1. TypeOK
  BY DEF HoldInv
<1>2. PICK charged \in Nat : Closing(d, actual, final, charged)
  BY <1>1, CloseIsClosing
<1>3. hold[d].state = "held" /\ n \in Nat /\ o \in Orgs
  BY <1>1, CloseIsClosing
<1>4. balance[o] \in Nat /\ hold \in [Calls -> HoldRow]
  BY <1>1, <1>3 DEF TypeOK
<1>5. /\ charged <= overrun
      /\ charged <= balance[o]
      /\ charged < overrun => charged = balance[o]
      /\ balance' = [balance EXCEPT ![o] = @ + freed - charged]
      /\ hold' = [hold EXCEPT ![d] =
                    [state |-> final, held |-> n,
                     settled |-> actual - overrun + charged,
                     released |-> freed, shortfall |-> overrun - charged]]
  BY <1>2 DEF Closing
<1>6. /\ paid \in Nat
      /\ actual - overrun + charged = paid
      /\ freed - charged = n - paid
      /\ balance[o] + freed - charged = balance[o] - (paid - n)
  BY <1>3, <1>4, <1>5
<1>7. /\ StillHeld[d] = n
      /\ StillHeld' = [StillHeld EXCEPT ![d] = 0]
  BY <1>3, <1>4, <1>5 DEF StillHeld
<1> HIDE DEF freed, overrun, paid
<1>8. Funds' = [Funds EXCEPT ![o] = @ - paid]
  <2>1. balance' = [balance EXCEPT ![o] = @ - (paid - n)]
    BY <1>5, <1>6
  <2>2. Funds' = [Funds EXCEPT ![o] = @ - (paid - n) + 0 - StillHeld[d]]
    <3>1. PoolAndHold(d, paid - n, 0)
      BY <1>3, <1>6, <1>7, <2>1 DEF PoolAndHold
    <3> QED BY <1>1, <3>1, FundsFollowHold
  <2>3. Funds[o] \in Int
    BY <1>1, <1>3, <1>4, StillHeldTypes DEF Funds
  <2>4. Funds[o] - (paid - n) + 0 - StillHeld[d] = Funds[o] - paid
    BY <1>3, <1>6, <1>7, <2>3
  <2> QED BY <2>2, <2>4
<1>9. Bills[d].state = "open"
  BY <1>3 DEF Bills
<1>10. Bills' = [Bills EXCEPT ![d] = [state |-> "billed", paid |-> paid]]
  BY <1>4, <1>5, <1>6 DEF Bills
<1>11. paid = IF actual <= Account!Spendable(o) + StillHeld[d]
              THEN actual ELSE Account!Spendable(o) + StillHeld[d]
  BY <1>1, <1>3, <1>7, SpendableIsBalance DEF paid
<1> QED BY <1>7, <1>8, <1>9, <1>10, <1>11 DEF Account!Bill, Funds, Bills

(* The charges and grants of the other features are the account's.         *)
LEMMA OthersSpendAndPayIn ==
  ASSUME CreditAssumption, HoldInv, NEW o \in Orgs, NEW n \in Amounts
  PROVE  /\ OtherCharge(o, n) => Account!Spend(o, n)
         /\ OtherGrant(o, n) => Account!PayIn(o, n)
<1>1. n \in Nat /\ TypeOK
  BY DEF CreditAssumption, HoldInv
<1>2. /\ balance \in [Orgs -> Nat]
      /\ \A p \in Orgs : SumFunctionOnSet(StillHeld, CallsOf(p)) \in Nat
  BY <1>1, StillHeldTypes DEF TypeOK
<1>3. UNCHANGED hold => UNCHANGED <<StillHeld, Bills>>
  BY DEF StillHeld, Bills
<1>4. ASSUME OtherCharge(o, n) PROVE Account!Spend(o, n)
  <2>1. n <= Account!Spendable(o)
    BY <1>1, <1>2, <1>4, SpendableIsBalance DEF OtherCharge, CanCover
  <2>2. /\ UNCHANGED <<StillHeld, Bills>>
        /\ balance' = [balance EXCEPT ![o] = @ - n]
    BY <1>3, <1>4 DEF OtherCharge
  <2>3. Funds' = [Funds EXCEPT ![o] = @ - n]
    <3>1. ASSUME NEW q \in Orgs
          PROVE  Funds'[q] = [Funds EXCEPT ![o] = @ - n][q]
      <4>1. /\ Funds[q] = balance[q] + SumFunctionOnSet(StillHeld, CallsOf(q))
            /\ Funds'[q] = balance'[q]
                            + SumFunctionOnSet(StillHeld, CallsOf(q))
        BY <2>2 DEF Funds, CallsOf
      <4>2. balance'[q] = IF q = o THEN balance[q] - n ELSE balance[q]
        BY <1>2, <2>2
      <4>3. /\ balance[q] \in Nat
            /\ SumFunctionOnSet(StillHeld, CallsOf(q)) \in Nat
        BY <1>2
      <4>4. Funds'[q] = IF q = o THEN Funds[q] - n ELSE Funds[q]
        BY <1>1, <4>1, <4>2, <4>3
      <4> QED BY <4>4 DEF Funds
    <3> QED BY <3>1 DEF Funds
  <2> QED BY <2>1, <2>2, <2>3 DEF Account!Spend, Funds, Bills
<1>5. ASSUME OtherGrant(o, n) PROVE Account!PayIn(o, n)
  <2>1. /\ UNCHANGED <<StillHeld, Bills>>
        /\ balance' = [balance EXCEPT ![o] = @ + n]
    BY <1>3, <1>5 DEF OtherGrant
  <2>2. Funds' = [Funds EXCEPT ![o] = @ + n]
    <3>1. ASSUME NEW q \in Orgs
          PROVE  Funds'[q] = [Funds EXCEPT ![o] = @ + n][q]
      <4>1. /\ Funds[q] = balance[q] + SumFunctionOnSet(StillHeld, CallsOf(q))
            /\ Funds'[q] = balance'[q]
                            + SumFunctionOnSet(StillHeld, CallsOf(q))
        BY <2>1 DEF Funds, CallsOf
      <4>2. balance'[q] = IF q = o THEN balance[q] + n ELSE balance[q]
        BY <1>2, <2>1
      <4>3. /\ balance[q] \in Nat
            /\ SumFunctionOnSet(StillHeld, CallsOf(q)) \in Nat
        BY <1>2
      <4>4. Funds'[q] = IF q = o THEN Funds[q] + n ELSE Funds[q]
        BY <1>1, <4>1, <4>2, <4>3
      <4> QED BY <4>4 DEF Funds
    <3> QED BY <3>1 DEF Funds
  <2> QED BY <2>1, <2>2 DEF Account!PayIn, Funds, Bills
<1> QED BY <1>4, <1>5

(* The account opens with the pool and nothing put aside.                  *)
LEMMA AccountInit == CreditAssumption /\ Init => Account!Init
<1> SUFFICES ASSUME CreditAssumption, Init PROVE Account!Init
  OBVIOUS
<1>1. StillHeld = [c \in Calls |-> 0]
  BY DEF StillHeld, Init, NoHold
<1>2. Bills = [c \in Calls |-> [state |-> "none", paid |-> 0]]
  BY DEF Bills, Init, NoHold
<1>3. ASSUME NEW o \in Orgs
      PROVE  balance[o] + SumFunctionOnSet(StillHeld, CallsOf(o)) = Opening[o]
  <2>1. \A c \in CallsOf(o) : StillHeld[c] = 0
    BY <1>1, CallsOfFinite
  <2>2. SumFunctionOnSet(StillHeld, CallsOf(o)) = 0
    BY <2>1, CallsOfFinite, SumOfZeros
  <2>3. balance[o] = Opening[o] /\ Opening[o] \in Nat
    BY DEF Init, CreditAssumption
  <2> QED BY <2>2, <2>3
<1>4. Funds = Opening
  BY <1>3 DEF Funds, CreditAssumption
<1> QED BY <1>1, <1>2, <1>4 DEF Account!Init, Funds, Bills

(* Every transaction is a step of the account, or changes nothing it sees. *)
LEMMA AccountStep ==
  ASSUME CreditAssumption, HoldInv, [Next]_creditVars
  PROVE  [Account!Next]_(Account!accountVars)
<1>1. TypeOK'
  BY HoldStep DEF HoldInv
<1>2. ASSUME NEW c \in Calls, NEW n \in Quotes, Reserve(c, n)
      PROVE  Account!Next
  BY <1>1, <1>2, ReserveIsPutAside DEF Account!Next
<1>3. ASSUME NEW c \in Calls, NEW a \in Costs, settle(c, a)
      PROVE  Account!Next
  <2>1. a \in Nat /\ a \in Costs \cup {0}
    BY DEF CreditAssumption
  <2>2. Account!Bill(c, a)
    BY <1>1, <1>3, <2>1, CloseIsBill DEF settle
  <2> QED BY <2>1, <2>2 DEF Account!Next
<1>4. ASSUME NEW c \in Calls, release(c) PROVE Account!Next
  <2>1. Account!Bill(c, 0)
    BY <1>1, <1>4, CloseIsBill DEF release
  <2>2. 0 \in Costs \cup {0}
    OBVIOUS
  <2> QED BY <2>1, <2>2 DEF Account!Next
<1>5. ASSUME NEW o \in Orgs, NEW n \in Amounts,
             OtherCharge(o, n) \/ OtherGrant(o, n)
      PROVE  Account!Next
  BY <1>5, OthersSpendAndPayIn DEF Account!Next
<1>6. ASSUME UNCHANGED creditVars PROVE UNCHANGED Account!accountVars
  BY <1>6 DEF creditVars, Account!accountVars, StillHeld, CallsOf
<1> QED BY <1>2, <1>3, <1>4, <1>5, <1>6 DEF Next

(* reservation.rs over credits.rs implements the prepaid account: a call   *)
(* is billed once, and what is held for one call pays for nothing else.    *)
THEOREM AccountAlwaysRefined == Spec => PrepaidAccountRefined
<1>1. Init => Account!Init
  BY AccountInit, CreditAssumption
<1>2. HoldInv /\ [Next]_creditVars => [Account!Next]_(Account!accountVars)
  BY AccountStep, CreditAssumption
<1> QED BY <1>1, <1>2, HoldInvariant, PTL
        DEF Spec, PrepaidAccountRefined, Account!Spec

-----------------------------------------------------------------------------
(* What each closed call was charged in the end. *)
Kept == [c \in Calls |-> IF Closed(c) THEN hold[c].settled ELSE 0]

(* Every credit an organisation had or was granted, less what its other    *)
(* features spent, is in its pool, in an open hold, or was settled for a   *)
(* call: closing and redelivery neither create credits nor lose any.       *)
CreditsConserved ==
  \A o \in Orgs :
    balance[o] + SumFunctionOnSet(StillHeld, CallsOf(o))
               + SumFunctionOnSet(Kept, CallsOf(o)) = Opening[o] + other[o]

(* The rows of the ledger and the rows of the holds add up to the same.    *)
LEMMA PoolConserves == CreditAssumption /\ PoolInv => CreditsConserved
<1> SUFFICES ASSUME CreditAssumption, PoolInv, NEW o \in Orgs
             PROVE  balance[o] + SumFunctionOnSet(StillHeld, CallsOf(o))
                       + SumFunctionOnSet(Kept, CallsOf(o))
                      = Opening[o] + other[o]
  BY DEF CreditsConserved
<1>1. /\ TypeOK
      /\ balance[o] \in Int /\ other[o] \in Int /\ Opening[o] \in Int
  BY DEF PoolInv, HoldInv, TypeOK, CreditAssumption
<1>2. IsFiniteSet(CallsOf(o)) /\ CallsOf(o) \subseteq Calls
  BY CallsOfFinite
<1>3. ASSUME NEW c \in CallsOf(o)
      PROVE  /\ ledger[c] \in Int /\ StillHeld[c] \in Int /\ Kept[c] \in Int
             /\ ledger[c] + StillHeld[c] + Kept[c] = 0
  <2>1. /\ c \in Calls /\ hold[c] \in HoldRow /\ ledger[c] \in Int
    BY <1>1, <1>2 DEF TypeOK
  <2>2. /\ Explained(c)
        /\ hold[c].state = "none" => hold[c].settled = 0
    BY <2>1 DEF PoolInv, HoldInv, CallLedgerExplained, Untouched, NoHold
  <2>3. /\ StillHeld[c] = IF hold[c].state = "held" THEN hold[c].held ELSE 0
        /\ Kept[c] = IF Closed(c) THEN hold[c].settled ELSE 0
    BY <2>1 DEF StillHeld, Kept
  <2> QED BY <2>1, <2>2, <2>3 DEF Explained, Closed, HoldRow
<1>4. SumFunctionOnSet(ledger, CallsOf(o))
        + SumFunctionOnSet(StillHeld, CallsOf(o))
        + SumFunctionOnSet(Kept, CallsOf(o)) = 0
  BY <1>2, <1>3, SumsCancel
<1>5. /\ SumFunctionOnSet(ledger, CallsOf(o)) \in Int
      /\ SumFunctionOnSet(StillHeld, CallsOf(o)) \in Int
      /\ SumFunctionOnSet(Kept, CallsOf(o)) \in Int
  BY <1>2, <1>3, SumOfInts
<1>6. balance[o] = Opening[o] + other[o]
                    + SumFunctionOnSet(ledger, CallsOf(o))
  BY DEF PoolInv, PoolIsLedgerSum
<1> QED BY <1>1, <1>4, <1>5, <1>6

(* The books of credits.rs and the rows of reservation.rs agree in total,  *)
(* whatever order holds are taken and closed in.                           *)
THEOREM CreditsAlwaysConserved == Spec => []CreditsConserved
<1>1. Init => PoolInv
  BY PoolInit, CreditAssumption
<1>2. PoolInv /\ [Next]_creditVars => PoolInv'
  BY PoolStep, CreditAssumption
<1>3. PoolInv => CreditsConserved
  BY PoolConserves, CreditAssumption
<1> QED BY <1>1, <1>2, <1>3, PTL DEF Spec
=============================================================================
