---------------------------- MODULE OrderBilling ----------------------------
(***************************************************************************)
(* What the wallet promises, with every operation atomic: the points of a  *)
(* user are moved for an order at most once in each direction.             *)
(*                                                                         *)
(* An order is quoted at a price that never changes, its price is then     *)
(* frozen (moved from the available to the frozen balance), and the frozen *)
(* points are either confirmed (spent) or refunded (given back).  Finance  *)
(* may give back part of a confirmed charge, once.  Module Wallet is the   *)
(* implementation: database transactions of src/wallet/service.py taking   *)
(* locks one at a time; WalletProofs proves that it implements this module. *)
(***************************************************************************)
EXTENDS Integers, FiniteSets, Functions

CONSTANTS
  Orders,   \* web_order_id values
  Users,    \* owners: pairs (web_tenant_id, web_user_id), one account each
  Amounts,  \* the hard prices an order can be quoted at, in points
  Opening   \* available points each account was seeded with

ASSUME OrdersAssumption == IsFiniteSet(Orders)
ASSUME AmountsAssumption == Amounts \subseteq Nat \ {0}
ASSUME OpeningAssumption == Opening \in [Users -> Nat]

VARIABLES
  balance,  \* user -> its available and frozen points
  bill      \* order -> what has been billed for it

vars == <<balance, bill>>

Phases == {"quoted", "frozen", "confirmed", "refunded"}

Balance == [available : Nat, frozen : Nat]
Bill == [phase : Phases, user : Users, amount : Amounts, credit : Nat]
NoBill == [phase |-> "none"]

\* Balances are natural numbers, so no order is ever paid with points the user
\* does not have.
TypeOK ==
  /\ balance \in [Users -> Balance]
  /\ bill \in [Orders -> Bill \union {NoBill}]

Init ==
  /\ balance = [u \in Users |-> [available |-> Opening[u], frozen |-> 0]]
  /\ bill = [o \in Orders |-> NoBill]

-----------------------------------------------------------------------------

\* The price of an order is pinned: it is quoted once.
Quote(o, u, amount) ==
  /\ bill[o].phase = "none"
  /\ bill' = [bill EXCEPT ![o] = [phase |-> "quoted", user |-> u,
                                  amount |-> amount, credit |-> 0]]
  /\ UNCHANGED balance

\* Moves the points of order o and its bill from phase "from" to phase "to".
Move(o, from, to, available, frozen) ==
  LET u == bill[o].user IN
  /\ bill[o].phase = from
  /\ bill' = [bill EXCEPT ![o].phase = to]
  /\ balance' = [balance EXCEPT ![u] = [available |-> @.available + available,
                                        frozen |-> @.frozen + frozen]]

Freeze(o) ==
  /\ bill[o].phase # "none"
  /\ balance[bill[o].user].available >= bill[o].amount
  /\ Move(o, "quoted", "frozen", - bill[o].amount, bill[o].amount)

\* Mutant: the frozen points are not released.
ConfirmKeepsFrozen(o) == Move(o, "frozen", "confirmed", 0, 0)

Confirm(o) == Move(o, "frozen", "confirmed", 0, - bill[o].amount)

Refund(o) == Move(o, "frozen", "refunded", bill[o].amount, - bill[o].amount)

\* Mutant: a second credit is given, and replaces the record of the first.
OverbillAgain(o) ==
  LET u == bill[o].user IN
  /\ bill[o].phase = "confirmed"
  /\ \E credit \in 1 .. bill[o].amount :
       /\ bill' = [bill EXCEPT ![o].credit = credit]
       /\ balance' = [balance EXCEPT ![u].available = @ + credit]

\* An overbill refund gives back at most the charge, once.
Overbill(o) ==
  LET u == bill[o].user IN
  /\ bill[o].phase = "confirmed"
  /\ bill[o].credit = 0
  /\ \E credit \in 1 .. bill[o].amount :
       /\ bill' = [bill EXCEPT ![o].credit = credit]
       /\ balance' = [balance EXCEPT ![u].available = @ + credit]

Next ==
  \E o \in Orders :
    \/ \E u \in Users, amount \in Amounts : Quote(o, u, amount)
    \/ Freeze(o)
    \/ Confirm(o)
    \/ Refund(o)
    \/ Overbill(o)

Spec == Init /\ [][Next]_vars

-----------------------------------------------------------------------------

\* Points of user u that each order holds frozen in the bills b, and points
\* each order has consumed.
Held(b, u)  == [o \in Orders |-> IF b[o].phase = "frozen" /\ b[o].user = u
                                 THEN b[o].amount ELSE 0]
Spent(b, u) == [o \in Orders |-> IF b[o].phase = "confirmed" /\ b[o].user = u
                                 THEN b[o].amount - b[o].credit ELSE 0]

HeldPoints(u)  == SumFunctionOnSet(Held(bill, u), Orders)
SpentPoints(u) == SumFunctionOnSet(Spent(bill, u), Orders)

\* The frozen balance of a user is exactly what its open orders hold: no
\* freeze is released twice, or settled without being released.
FrozenIsHeld == \A u \in Users : balance[u].frozen = HeldPoints(u)

\* No point is created or lost: what a user has available, what its open
\* orders hold and what its confirmed orders have consumed always add up to
\* what the account was seeded with.
PointsConserved ==
  \A u \in Users :
    balance[u].available + HeldPoints(u) + SpentPoints(u) = Opening[u]
=============================================================================
