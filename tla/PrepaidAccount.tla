--------------------------- MODULE PrepaidAccount ---------------------------
(***************************************************************************)
(* What server/src/voip/reservation.rs promises about money, without its   *)
(* rows: an account that is paid into in advance, part of which is put     *)
(* aside for a call before it is dialled.  A call that was put money aside *)
(* for is billed exactly once, for what it owes or for all it can reach,   *)
(* and what is put aside for one call is never spent on anything else.     *)
(***************************************************************************)
EXTENDS Integers, Functions

CONSTANTS Calls, Orgs, OrgOf, Quotes, Costs, Amounts, Opening

VARIABLES
  funds,   (* what the account holds, money put aside included *)
  aside,   (* what is put aside for each call *)
  bill     (* "none", "open", or what the call was billed for *)

accountVars == <<funds, aside, bill>>

Spendable(o) ==
  funds[o] - SumFunctionOnSet(aside, {c \in Calls : OrgOf[c] = o})

Init ==
  /\ funds = Opening
  /\ aside = [c \in Calls |-> 0]
  /\ bill = [c \in Calls |-> [state |-> "none", paid |-> 0]]

PutAside(c, n) ==
  /\ bill[c].state = "none"
  /\ n <= Spendable(OrgOf[c])
  /\ aside' = [aside EXCEPT ![c] = n]
  /\ bill' = [bill EXCEPT ![c].state = "open"]
  /\ UNCHANGED funds

(* The call pays what it owes, out of its own money first and then out of  *)
(* what nobody else has put aside; it never pays more than it owes.        *)
Bill(c, owes) ==
  LET reach == Spendable(OrgOf[c]) + aside[c]
      paid  == IF owes <= reach THEN owes ELSE reach
  IN  /\ bill[c].state = "open"
      /\ funds' = [funds EXCEPT ![OrgOf[c]] = @ - paid]
      /\ aside' = [aside EXCEPT ![c] = 0]
      /\ bill' = [bill EXCEPT ![c] = [state |-> "billed", paid |-> paid]]

Spend(o, n) ==
  /\ n <= Spendable(o)
  /\ funds' = [funds EXCEPT ![o] = @ - n]
  /\ UNCHANGED <<aside, bill>>

PayIn(o, n) ==
  /\ funds' = [funds EXCEPT ![o] = @ + n]
  /\ UNCHANGED <<aside, bill>>

Next ==
  \/ \E c \in Calls, n \in Quotes : PutAside(c, n)
  \/ \E c \in Calls, n \in Costs \cup {0} : Bill(c, n)
  \/ \E o \in Orgs, n \in Amounts : Spend(o, n) \/ PayIn(o, n)

Spec == Init /\ [][Next]_accountVars
=============================================================================
