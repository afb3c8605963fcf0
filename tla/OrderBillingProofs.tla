------------------------- MODULE OrderBillingProofs -------------------------
(***************************************************************************)
(* Conservation of points in OrderBilling, for any finite set of orders,   *)
(* any users, any prices and any opening balances; and what its readers,   *)
(* module WalletReads, show of an order is current, for any of them.       *)
(***************************************************************************)
EXTENDS WalletReads, SumLemmas, TLAPS

\* The bills that can exist: a credit is only given on a confirmed charge and
\* never exceeds it.
WellFormed(b) ==
  /\ b \in [Orders -> Bill \union {NoBill}]
  /\ \A o \in Orders :
       b[o] # NoBill => /\ b[o].credit <= b[o].amount
                        /\ b[o].phase # "confirmed" => b[o].credit = 0

Inv == TypeOK /\ WellFormed(bill) /\ FrozenIsHeld /\ PointsConserved

\* What each order contributes to the two sums of user u.
LEMMA ContributionType ==
  ASSUME NEW b, WellFormed(b), NEW u \in Users, NEW o \in Orders
  PROVE  Held(b, u)[o] \in Nat /\ Spent(b, u)[o] \in Nat
PROOF
  <1>1. CASE b[o] = NoBill
    BY <1>1 DEF Held, Spent, NoBill
  <1>2. CASE b[o] \in Bill /\ b[o].credit <= b[o].amount
    <2>1. b[o].amount \in Nat /\ b[o].credit \in Nat
      BY <1>2, AmountsAssumption DEF Bill
    <2>2. b[o].amount - b[o].credit \in Nat
      BY <1>2, <2>1
    <2> QED BY <2>1, <2>2 DEF Held, Spent
  <1> QED BY <1>1, <1>2 DEF WellFormed

\* When one bill changes, the sums of every user change by what that bill
\* contributed before and after.
LEMMA SumsOfChangedBill ==
  ASSUME NEW b, WellFormed(b), NEW c, WellFormed(c),
         NEW u \in Users, NEW o \in Orders,
         \A p \in Orders \ {o} : c[p] = b[p]
  PROVE  /\ SumFunctionOnSet(Held(b, u), Orders) \in Nat
         /\ SumFunctionOnSet(Spent(b, u), Orders) \in Nat
         /\ SumFunctionOnSet(Held(c, u), Orders) =
              SumFunctionOnSet(Held(b, u), Orders) - Held(b, u)[o] + Held(c, u)[o]
         /\ SumFunctionOnSet(Spent(c, u), Orders) =
              SumFunctionOnSet(Spent(b, u), Orders) - Spent(b, u)[o] + Spent(c, u)[o]
PROOF
  <1> DEFINE hb == Held(b, u)   hc == Held(c, u)
             sb == Spent(b, u)  sc == Spent(c, u)
  <1>1. hb \in [Orders -> Nat] /\ hc \in [Orders -> Nat]
    BY ContributionType DEF Held
  <1>2. sb \in [Orders -> Nat] /\ sc \in [Orders -> Nat]
    BY ContributionType DEF Spent
  <1>3. \A p \in Orders \ {o} : hb[p] = hc[p]
    BY DEF Held
  <1>4. \A p \in Orders \ {o} : sb[p] = sc[p]
    BY DEF Spent
  <1> HIDE DEF hb, hc, sb, sc
  <1>5. /\ SumFunctionOnSet(hb, Orders) \in Nat
        /\ SumFunctionOnSet(hc, Orders) =
             SumFunctionOnSet(hb, Orders) - hb[o] + hc[o]
    BY <1>1, <1>3, SumUpdate, OrdersAssumption
  <1>6. /\ SumFunctionOnSet(sb, Orders) \in Nat
        /\ SumFunctionOnSet(sc, Orders) =
             SumFunctionOnSet(sb, Orders) - sb[o] + sc[o]
    BY <1>2, <1>4, SumUpdate, OrdersAssumption
  <1> QED BY <1>5, <1>6 DEF hb, hc, sb, sc

\* With no order quoted nothing is held and every balance is the opening one.
LEMMA InitInv == Init => Inv
PROOF
  <1> SUFFICES ASSUME Init PROVE Inv
    OBVIOUS
  <1>1. TypeOK /\ WellFormed(bill)
    BY OpeningAssumption DEF Init, TypeOK, WellFormed, Balance, NoBill
  <1>2. \A u \in Users : HeldPoints(u) = 0 /\ SpentPoints(u) = 0
    <2> TAKE u \in Users
    <2>1. \A o \in Orders : Held(bill, u)[o] = 0 /\ Spent(bill, u)[o] = 0
      BY DEF Init, NoBill, Held, Spent
    <2> QED BY <2>1, SumOfZeroes, OrdersAssumption DEF HeldPoints, SpentPoints
  <1>3. \A u \in Users : balance[u].available = Opening[u] /\ balance[u].frozen = 0 /\ Opening[u] \in Nat
    BY OpeningAssumption DEF Init
  <1> QED BY <1>1, <1>2, <1>3 DEF Inv, FrozenIsHeld, PointsConserved

\* A step that changes the bill of order o and the balance of its user u keeps
\* both sums right, if the balance changes by what the bill contributes.
LEMMA StepKeepsSums ==
  ASSUME Inv, NEW o \in Orders, NEW u \in Users,
         TypeOK', WellFormed(bill'),
         \A p \in Orders \ {o} : bill'[p] = bill[p],
         \A v \in Users \ {u} :
            /\ balance'[v] = balance[v]
            /\ Held(bill', v)[o] = Held(bill, v)[o]
            /\ Spent(bill', v)[o] = Spent(bill, v)[o],
         balance'[u].frozen - balance[u].frozen
           = Held(bill', u)[o] - Held(bill, u)[o],
         balance'[u].available - balance[u].available
           = (Held(bill, u)[o] - Held(bill', u)[o])
             + (Spent(bill, u)[o] - Spent(bill', u)[o])
  PROVE  FrozenIsHeld' /\ PointsConserved'
PROOF
  <1>1. ASSUME NEW v \in Users
        PROVE  /\ HeldPoints(v) \in Nat /\ SpentPoints(v) \in Nat
               /\ HeldPoints(v)' = HeldPoints(v) - Held(bill, v)[o] + Held(bill', v)[o]
               /\ SpentPoints(v)' = SpentPoints(v) - Spent(bill, v)[o] + Spent(bill', v)[o]
    BY SumsOfChangedBill DEF Inv, HeldPoints, SpentPoints
  <1>2. ASSUME NEW v \in Users
        PROVE  /\ Held(bill, v)[o] \in Nat /\ Spent(bill, v)[o] \in Nat
               /\ Held(bill', v)[o] \in Nat /\ Spent(bill', v)[o] \in Nat
    BY ContributionType DEF Inv
  <1>3. ASSUME NEW v \in Users
        PROVE  /\ balance[v].available \in Nat /\ balance[v].frozen \in Nat
               /\ balance'[v].available \in Nat /\ balance'[v].frozen \in Nat
    BY DEF Inv, TypeOK, Balance
  <1>4. ASSUME NEW v \in Users
        PROVE  balance'[v].frozen = HeldPoints(v)'
    <2>1. balance[v].frozen = HeldPoints(v)
      BY DEF Inv, FrozenIsHeld
    <2>2. HeldPoints(v)' - HeldPoints(v) = Held(bill', v)[o] - Held(bill, v)[o]
      BY <1>1, <1>2
    <2>3. balance'[v].frozen - balance[v].frozen = Held(bill', v)[o] - Held(bill, v)[o]
      BY <1>2, <1>3
    <2>4. HeldPoints(v) \in Nat /\ HeldPoints(v)' \in Int
      BY <1>1, <1>2
    <2>5. balance'[v].frozen - balance[v].frozen = HeldPoints(v)' - HeldPoints(v)
      BY <2>2, <2>3
    <2>6. balance'[v].frozen \in Nat
      BY <1>3
    <2> QED BY <2>1, <2>4, <2>5, <2>6
  <1>5. ASSUME NEW v \in Users
        PROVE  balance'[v].available + HeldPoints(v)' + SpentPoints(v)' = Opening[v]
    <2>1. balance[v].available + HeldPoints(v) + SpentPoints(v) = Opening[v]
      BY DEF Inv, PointsConserved
    <2>2. CASE v = u
      BY <1>1, <1>2, <1>3, <2>1, <2>2
    <2>3. CASE v # u
      BY <1>1, <1>2, <2>1, <2>3
    <2> QED BY <2>2, <2>3
  <1> QED BY <1>4, <1>5 DEF FrozenIsHeld, PointsConserved

\* Freeze, Confirm and Refund: the bill of o changes phase only.
LEMMA MoveInv ==
  ASSUME Inv, NEW o \in Orders, NEW from \in Phases, NEW to \in Phases,
         NEW available \in Int, NEW frozen \in Int,
         Move(o, from, to, available, frozen),
         balance[bill[o].user].available + available \in Nat,
         balance[bill[o].user].frozen + frozen \in Nat,
         bill[o].credit = 0,
         frozen = Held(bill', bill[o].user)[o] - Held(bill, bill[o].user)[o],
         available = (Held(bill, bill[o].user)[o] - Held(bill', bill[o].user)[o])
                     + (Spent(bill, bill[o].user)[o] - Spent(bill', bill[o].user)[o])
  PROVE  Inv'
PROOF
  <1> DEFINE u == bill[o].user
  <1>1. bill[o] \in Bill /\ u \in Users
    BY DEF Inv, TypeOK, Move, Bill, NoBill, Phases
  <1>2. bill'[o] \in Bill /\ bill'[o].user = u /\ bill'[o].credit = 0
        /\ bill'[o].amount = bill[o].amount
    BY <1>1 DEF Inv, TypeOK, Move, Bill
  <1>3. \A p \in Orders \ {o} : bill'[p] = bill[p]
    BY DEF Inv, TypeOK, Move
  <1>4. bill' \in [Orders -> Bill \union {NoBill}]
    BY <1>1, <1>2, <1>3 DEF Inv, TypeOK, Move
  <1>5. /\ \A v \in Users \ {u} : balance'[v] = balance[v]
        /\ balance'[u] = [available |-> balance[u].available + available,
                          frozen |-> balance[u].frozen + frozen]
    BY <1>1 DEF Inv, TypeOK, Move
  <1>6. TypeOK'
    BY <1>1, <1>4, <1>5 DEF Inv, TypeOK, Balance, Move
  <1>7. WellFormed(bill')
    <2>1. bill'[o].amount \in Nat
      BY <1>2, AmountsAssumption DEF Bill
    <2>2. bill'[o].credit <= bill'[o].amount
      BY <1>2, <2>1
    <2>3. bill'[o].credit = 0
      BY <1>2
    <2>4. bill \in [Orders -> Bill \union {NoBill}]
      BY DEF Inv, TypeOK
    <2>5. \A p \in Orders : bill'[p] = bill[p] \/ p = o
      BY <1>3
    <2> QED BY <1>4, <2>2, <2>3, <2>5 DEF WellFormed, Inv
  <1>8. \A v \in Users \ {u} : /\ Held(bill', v)[o] = Held(bill, v)[o]
                                 /\ Spent(bill', v)[o] = Spent(bill, v)[o]
    BY <1>2 DEF Held, Spent
  <1>9. /\ balance[u].available \in Nat /\ balance[u].frozen \in Nat
        /\ balance'[u].frozen = balance[u].frozen + frozen
        /\ balance'[u].available = balance[u].available + available
    BY <1>1, <1>5 DEF Inv, TypeOK, Balance
  <1>10. /\ balance'[u].frozen - balance[u].frozen = frozen
         /\ balance'[u].available - balance[u].available = available
    BY <1>9
  <1>11. FrozenIsHeld' /\ PointsConserved'
    BY <1>1, <1>3, <1>5, <1>6, <1>7, <1>8, <1>10, StepKeepsSums
  <1> QED BY <1>6, <1>7, <1>11 DEF Inv

\* Quoting an order moves no points.
LEMMA QuoteInv ==
  ASSUME Inv, NEW o \in Orders, NEW u \in Users, NEW amount \in Amounts,
         Quote(o, u, amount)
  PROVE  Inv'
PROOF
  <1>1. bill[o] = NoBill
    BY DEF Inv, TypeOK, Quote, Bill, Phases
  <1>2. bill'[o] = [phase |-> "quoted", user |-> u, amount |-> amount, credit |-> 0]
    BY DEF Inv, TypeOK, Quote
  <1>3. bill'[o] \in Bill
    BY <1>2 DEF Bill, Phases
  <1>4. \A p \in Orders \ {o} : bill'[p] = bill[p]
    BY DEF Inv, TypeOK, Quote
  <1>5. bill' \in [Orders -> Bill \union {NoBill}]
    BY <1>3, <1>4 DEF Inv, TypeOK, Quote
  <1>6. TypeOK'
    BY <1>5 DEF Inv, TypeOK, Quote
  <1>7. WellFormed(bill')
    <2>1. amount \in Nat
      BY AmountsAssumption
    <2>2. bill'[o].credit <= bill'[o].amount
      BY <1>2, <2>1
    <2>3. bill'[o].credit = 0
      BY <1>2
    <2>4. \A p \in Orders : bill'[p] = bill[p] \/ p = o
      BY <1>4
    <2> QED BY <1>5, <2>2, <2>3, <2>4 DEF Inv, WellFormed
  <1>8. \A v \in Users : /\ Held(bill', v)[o] = 0 /\ Held(bill, v)[o] = 0
                         /\ Spent(bill', v)[o] = 0 /\ Spent(bill, v)[o] = 0
    BY <1>1, <1>2 DEF Held, Spent, NoBill
  <1>9. balance' = balance
    BY DEF Quote
  <1>10. balance[u].frozen \in Nat /\ balance[u].available \in Nat
    BY DEF Inv, TypeOK, Balance
  <1>11. FrozenIsHeld' /\ PointsConserved'
    BY <1>4, <1>6, <1>7, <1>8, <1>9, <1>10, StepKeepsSums
  <1> QED BY <1>6, <1>7, <1>11 DEF Inv

\* Freezing moves the quoted price from the available to the frozen balance.
LEMMA FreezeInv ==
  ASSUME Inv, NEW o \in Orders, Freeze(o)
  PROVE  Inv'
PROOF
  <1> DEFINE u == bill[o].user   a == bill[o].amount
  <1>1. bill[o] \in Bill /\ u \in Users /\ bill[o].phase = "quoted" /\ bill[o].credit = 0
    BY DEF Inv, TypeOK, Freeze, Move, Bill, NoBill, WellFormed
  <1>2. a \in Nat
    BY <1>1, AmountsAssumption DEF Bill
  <1>3. bill' = [bill EXCEPT ![o].phase = "frozen"]
    BY DEF Freeze, Move
  <1>4. /\ bill'[o].phase = "frozen" /\ bill'[o].user = u /\ bill'[o].amount = a
    BY <1>1, <1>3 DEF Inv, TypeOK, Bill
  <1>5. Held(bill', u)[o] = a /\ Held(bill, u)[o] = 0
        /\ Spent(bill', u)[o] = 0 /\ Spent(bill, u)[o] = 0
    BY <1>1, <1>4 DEF Held, Spent
  <1>6. balance[u].available \in Nat /\ balance[u].frozen \in Nat /\ balance[u].available >= a
    BY <1>1 DEF Inv, TypeOK, Balance, Freeze
  <1>7. balance[u].available + (- a) \in Nat /\ balance[u].frozen + a \in Nat /\ - a \in Int
    BY <1>2, <1>6
  <1>8. Move(o, "quoted", "frozen", - a, a)
    BY DEF Freeze
  <1>9. a = Held(bill', u)[o] - Held(bill, u)[o]
        /\ - a = (Held(bill, u)[o] - Held(bill', u)[o])
                  + (Spent(bill, u)[o] - Spent(bill', u)[o])
    BY <1>2, <1>5
  <1>10. "quoted" \in Phases /\ "frozen" \in Phases /\ a \in Int
    BY <1>2 DEF Phases
  <1> QED BY <1>1, <1>7, <1>8, <1>9, <1>10, MoveInv

\* The frozen balance covers every open order, so releasing one cannot make
\* the balance negative.
LEMMA FrozenCovers ==
  ASSUME Inv, NEW o \in Orders, bill[o].phase = "frozen"
  PROVE  balance[bill[o].user].frozen - bill[o].amount \in Nat
PROOF
  <1> DEFINE u == bill[o].user   h == Held(bill, u)
             rest == [h EXCEPT ![o] = 0]
  <1>1. bill[o] \in Bill /\ u \in Users
    BY DEF Inv, TypeOK, NoBill, Bill
  <1>2. h \in [Orders -> Nat] /\ h[o] = bill[o].amount
    BY <1>1, ContributionType DEF Inv, Held
  <1>3. rest \in [Orders -> Nat] /\ rest[o] = 0 /\ \A p \in Orders \ {o} : h[p] = rest[p]
    BY <1>2
  <1>4. balance[u].frozen = SumFunctionOnSet(h, Orders)
    BY <1>1 DEF Inv, FrozenIsHeld, HeldPoints
  <1>5. h[o] \in Nat
    BY <1>2
  <1> HIDE DEF h, rest
  <1>6. /\ SumFunctionOnSet(h, Orders) \in Nat
        /\ SumFunctionOnSet(rest, Orders) \in Nat
        /\ SumFunctionOnSet(rest, Orders) = SumFunctionOnSet(h, Orders) - h[o] + rest[o]
    BY <1>2, <1>3, SumUpdate, OrdersAssumption
  <1> QED BY <1>2, <1>3, <1>4, <1>5, <1>6

\* Confirm and Refund: "available" is what is given back.
LEMMA SettleInv ==
  ASSUME Inv, NEW o \in Orders, Confirm(o) \/ Refund(o)
  PROVE  Inv'
PROOF
  <1> DEFINE u == bill[o].user   a == bill[o].amount
  <1>1. bill[o] \in Bill /\ u \in Users /\ bill[o].phase = "frozen" /\ bill[o].credit = 0
    BY DEF Inv, TypeOK, Confirm, Refund, Move, Bill, NoBill, WellFormed
  <1>2. a \in Nat
    BY <1>1, AmountsAssumption DEF Bill
  <1>3. balance[u].frozen + (- a) \in Nat
    <2>1. balance[u].frozen \in Nat
      BY <1>1 DEF Inv, TypeOK, Balance
    <2>2. balance[u].frozen - a \in Nat
      BY <1>1, FrozenCovers
    <2> QED BY <1>2, <2>1, <2>2
  <1>4. balance[u].available \in Nat
    BY <1>1 DEF Inv, TypeOK, Balance
  <1>5. Held(bill, u)[o] = a /\ Spent(bill, u)[o] = 0
    BY <1>1 DEF Held, Spent
  <1>6. a \in Int /\ - a \in Int /\ 0 \in Int /\ {"frozen", "confirmed", "refunded"} \subseteq Phases
    BY <1>2 DEF Phases
  <1>7. CASE Confirm(o)
    <2>1. bill' = [bill EXCEPT ![o].phase = "confirmed"]
      BY <1>7 DEF Confirm, Move
    <2>2. bill'[o].phase = "confirmed" /\ bill'[o].user = u /\ bill'[o].amount = a
          /\ bill'[o].credit = 0
      BY <1>1, <2>1 DEF Inv, TypeOK, Bill
    <2>3. Held(bill', u)[o] = 0 /\ Spent(bill', u)[o] = a
      BY <1>1, <1>2, <2>2 DEF Held, Spent
    <2>4. - a = Held(bill', u)[o] - Held(bill, u)[o]
          /\ 0 = (Held(bill, u)[o] - Held(bill', u)[o])
                  + (Spent(bill, u)[o] - Spent(bill', u)[o])
      BY <1>2, <1>5, <2>3
    <2>5. Move(o, "frozen", "confirmed", 0, - a)
      BY <1>7 DEF Confirm
    <2>6. balance[u].available + 0 \in Nat
      BY <1>4
    <2> QED BY <1>1, <1>3, <1>6, <2>4, <2>5, <2>6, MoveInv
  <1>8. CASE Refund(o)
    <2>1. bill' = [bill EXCEPT ![o].phase = "refunded"]
      BY <1>8 DEF Refund, Move
    <2>2. bill'[o].phase = "refunded" /\ bill'[o].user = u /\ bill'[o].amount = a
      BY <1>1, <2>1 DEF Inv, TypeOK, Bill
    <2>3. Held(bill', u)[o] = 0 /\ Spent(bill', u)[o] = 0
      BY <1>1, <2>2 DEF Held, Spent
    <2>4. - a = Held(bill', u)[o] - Held(bill, u)[o]
          /\ a = (Held(bill, u)[o] - Held(bill', u)[o])
                  + (Spent(bill, u)[o] - Spent(bill', u)[o])
      BY <1>2, <1>5, <2>3
    <2>5. Move(o, "frozen", "refunded", a, - a)
      BY <1>8 DEF Refund
    <2>6. balance[u].available + a \in Nat
      BY <1>2, <1>4
    <2> QED BY <1>1, <1>3, <1>6, <2>4, <2>5, <2>6, MoveInv
  <1> QED BY <1>7, <1>8

\* An overbill credit gives back at most what a confirmed order spent, once.
LEMMA OverbillInv ==
  ASSUME Inv, NEW o \in Orders, Overbill(o)
  PROVE  Inv'
PROOF
  <1> DEFINE u == bill[o].user   a == bill[o].amount
  <1>1. bill[o] \in Bill /\ u \in Users /\ bill[o].phase = "confirmed" /\ bill[o].credit = 0
    BY DEF Inv, TypeOK, Overbill, Bill, NoBill
  <1>2. a \in Nat
    BY <1>1, AmountsAssumption DEF Bill
  <1>3. PICK credit \in 1 .. a :
          /\ bill' = [bill EXCEPT ![o].credit = credit]
          /\ balance' = [balance EXCEPT ![u].available = @ + credit]
    BY DEF Overbill
  <1>4. credit \in Nat /\ credit <= a
    BY <1>2, <1>3
  <1>5. bill'[o] \in Bill /\ bill'[o].phase = "confirmed" /\ bill'[o].user = u
        /\ bill'[o].amount = a /\ bill'[o].credit = credit
    BY <1>1, <1>3, <1>4 DEF Inv, TypeOK, Bill
  <1>6. \A p \in Orders \ {o} : bill'[p] = bill[p]
    BY <1>3 DEF Inv, TypeOK
  <1>7. bill' \in [Orders -> Bill \union {NoBill}]
    BY <1>3, <1>5, <1>6 DEF Inv, TypeOK
  <1>8. /\ \A v \in Users \ {u} : balance'[v] = balance[v]
        /\ balance'[u].available = balance[u].available + credit
        /\ balance'[u].frozen = balance[u].frozen
        /\ balance[u].available \in Nat /\ balance[u].frozen \in Nat
    BY <1>1, <1>3 DEF Inv, TypeOK, Balance
  <1>9. TypeOK'
    BY <1>1, <1>3, <1>4, <1>7, <1>8 DEF Inv, TypeOK, Balance
  <1>10. WellFormed(bill')
    BY <1>4, <1>5, <1>6, <1>7 DEF Inv, WellFormed
  <1>11. \A v \in Users \ {u} : /\ Held(bill', v)[o] = Held(bill, v)[o]
                                  /\ Spent(bill', v)[o] = Spent(bill, v)[o]
    BY <1>5 DEF Held, Spent
  <1>12. Held(bill', u)[o] = 0 /\ Held(bill, u)[o] = 0
         /\ Spent(bill', u)[o] = a - credit /\ Spent(bill, u)[o] = a
    BY <1>1, <1>2, <1>5 DEF Held, Spent
  <1>13. /\ balance'[u].frozen - balance[u].frozen = Held(bill', u)[o] - Held(bill, u)[o]
         /\ balance'[u].available - balance[u].available
              = (Held(bill, u)[o] - Held(bill', u)[o])
                + (Spent(bill, u)[o] - Spent(bill', u)[o])
    BY <1>2, <1>4, <1>8, <1>12
  <1>14. FrozenIsHeld' /\ PointsConserved'
    BY <1>1, <1>6, <1>8, <1>9, <1>10, <1>11, <1>13, StepKeepsSums
  <1> QED BY <1>9, <1>10, <1>14 DEF Inv

\* Inv is inductive: one step per billing operation.
LEMMA NextInv == Inv /\ [Next]_vars => Inv'
PROOF
  <1> SUFFICES ASSUME Inv, [Next]_vars PROVE Inv'
    OBVIOUS
  <1>1. CASE UNCHANGED vars
    BY <1>1 DEF vars, Inv, TypeOK, FrozenIsHeld, PointsConserved, HeldPoints, SpentPoints
  <1>2. CASE Next
    BY <1>2, QuoteInv, FreezeInv, SettleInv, OverbillInv DEF Next
  <1> QED BY <1>1, <1>2

\* Balances and bills keep their types; in particular no balance is negative.
THEOREM TypeCorrect == Spec => []TypeOK
PROOF
  <1>1. Inv => TypeOK
    BY DEF Inv
  <1> QED BY <1>1, InitInv, NextInv, PTL DEF Spec

\* The frozen balance of every user is the sum of what its open orders hold.
THEOREM FrozenAlwaysHeld == Spec => []FrozenIsHeld
PROOF
  <1>1. Inv => FrozenIsHeld
    BY DEF Inv
  <1> QED BY <1>1, InitInv, NextInv, PTL DEF Spec

\* No sequence of operations creates or loses a point.
THEOREM Conservation == Spec => []PointsConserved
PROOF
  <1>1. Inv => PointsConserved
    BY DEF Inv
  <1> QED BY <1>1, InitInv, NextInv, PTL DEF Spec

-----------------------------------------------------------------------------

(***************************************************************************)
(* The readers.  The row a reader fetched first is out of date only in a   *)
(* way that its second row makes up for, because a bill never leaves       *)
(* "confirmed" or "refunded" and never loses its freeze.                   *)
(***************************************************************************)

BillPhase(o) == bill[o].phase

\* What a row fetched earlier still says of the order now.
StillTrue(op, o, first) ==
  CASE op = "transaction" ->
         /\ first \in {NoRow, "frozen", "confirmed", "refunded"}
         /\ first \in {"confirmed", "refunded"} => BillPhase(o) = first
    [] op = "steps" ->
         /\ first \in {NoRow, "ACTIVE", "CONSUMED"}
         /\ first = "CONSUMED" => BillPhase(o) \notin {"none", "quoted"}

ReadersKnow ==
  /\ DOMAIN reader = Readers /\ DOMAIN answer = Readers
  /\ \A r \in Readers :
       reader[r] # AtRest =>
         /\ reader[r].op \in {"transaction", "steps"}
         /\ reader[r].order \in Orders
         /\ StillTrue(reader[r].op, reader[r].order, reader[r].first)

ReadInv == Inv /\ ReadersKnow

\* A bill has one of the phases, and one of its own amount once it is quoted.
LEMMA BillType ==
  ASSUME Inv, NEW o \in Orders
  PROVE  BillPhase(o) \in Phases \union {"none"}
PROOF
  BY DEF Inv, TypeOK, Bill, NoBill, BillPhase

\* A settled bill stays settled, and a frozen one is never unfrozen.
LEMMA PhasesAdvance ==
  ASSUME Inv, [Next]_vars, NEW o \in Orders
  PROVE  /\ BillPhase(o) \in {"confirmed", "refunded"} => BillPhase(o)' = BillPhase(o)
         /\ BillPhase(o) \notin {"none", "quoted"} => BillPhase(o)' \notin {"none", "quoted"}
PROOF
  <1>1. CASE UNCHANGED vars
    BY <1>1 DEF vars, BillPhase
  <1>2. CASE Next
    <2>1. PICK p \in Orders :
            \/ \E u \in Users, amount \in Amounts : Quote(p, u, amount)
            \/ Freeze(p) \/ Confirm(p) \/ Refund(p) \/ Overbill(p)
      BY <1>2 DEF Next
    <2>2. bill \in [Orders -> Bill \union {NoBill}]
      BY DEF Inv, TypeOK
    <2>3. CASE \E u \in Users, amount \in Amounts : Quote(p, u, amount)
      BY <2>2, <2>3 DEF Quote, BillPhase
    <2>4. CASE Freeze(p)
      <3>1. bill[p] \in Bill /\ bill[p].phase = "quoted" /\ bill' = [bill EXCEPT ![p].phase = "frozen"]
        BY <2>2, <2>4 DEF Freeze, Move, NoBill
      <3> QED BY <2>2, <3>1 DEF BillPhase, Bill
    <2>5. CASE Confirm(p)
      <3>1. bill[p] \in Bill /\ bill[p].phase = "frozen" /\ bill' = [bill EXCEPT ![p].phase = "confirmed"]
        BY <2>2, <2>5 DEF Confirm, Move, NoBill
      <3> QED BY <2>2, <3>1 DEF BillPhase, Bill
    <2>6. CASE Refund(p)
      <3>1. bill[p] \in Bill /\ bill[p].phase = "frozen" /\ bill' = [bill EXCEPT ![p].phase = "refunded"]
        BY <2>2, <2>6 DEF Refund, Move, NoBill
      <3> QED BY <2>2, <3>1 DEF BillPhase, Bill
    <2>7. CASE Overbill(p)
      <3>1. PICK credit \in 1 .. bill[p].amount : bill' = [bill EXCEPT ![p].credit = credit]
        BY <2>7 DEF Overbill
      <3>2. bill[p] \in Bill /\ bill'[p].phase = bill[p].phase
        BY <2>2, <2>7, <3>1 DEF Overbill, NoBill, Bill
      <3> QED BY <2>2, <3>1, <3>2 DEF BillPhase
    <2> QED BY <2>1, <2>3, <2>4, <2>5, <2>6, <2>7
  <1> QED BY <1>1, <1>2

\* A row just fetched is true.
LEMMA FetchedTrue ==
  ASSUME Inv, NEW op \in {"transaction", "steps"}, NEW o \in Orders
  PROVE  StillTrue(op, o, Fetched(Statements(op)[1], o))
PROOF
  <1>1. BillPhase(o) \in Phases \union {"none"}
    BY BillType
  <1>2. CASE op = "transaction"
    <2>1. Statements(op)[1] = "transaction"
      BY <1>2 DEF Statements
    <2> QED BY <1>1, <1>2, <2>1 DEF StillTrue, Fetched, NoRow, BillPhase, Phases
  <1>3. CASE op = "steps"
    <2>1. Statements(op)[1] = "quote"
      BY <1>3 DEF Statements
    <2> QED BY <1>1, <1>3, <2>1 DEF StillTrue, Fetched, NoRow, BillPhase, Phases
  <1> QED BY <1>2, <1>3

\* Nobody has read anything at the start.
LEMMA ReadInitInv == ReadInit => ReadInv
PROOF
  BY InitInv DEF ReadInit, ReadInv, ReadersKnow, AtRest

\* ReadInv is inductive: one step for billing and one per statement of a reader.
LEMMA ReadNextInv == ReadInv /\ [ReadNext]_readVars => ReadInv'
PROOF
  <1> SUFFICES ASSUME ReadInv, [ReadNext]_readVars PROVE ReadInv'
    OBVIOUS
  <1>1. [Next]_vars
    BY DEF ReadNext, ReadFirst, ReadSecond, readVars, vars
  <1>2. Inv /\ Inv'
    BY <1>1, NextInv DEF ReadInv
  <1>3. ASSUME NEW op, NEW o \in Orders, NEW first, StillTrue(op, o, first),
               op \in {"transaction", "steps"}
        PROVE  StillTrue(op, o, first)'
    BY <1>1, <1>2, <1>3, PhasesAdvance DEF StillTrue
  <1>4. CASE UNCHANGED <<reader, answer>>
    BY <1>2, <1>3, <1>4 DEF ReadInv, ReadersKnow
  <1>5. ASSUME NEW r \in Readers, NEW op \in {"transaction", "steps"}, NEW o \in Orders,
               ReadFirst(r, op, o)
        PROVE  ReadInv'
    <2>1. reader' = [reader EXCEPT ![r] = [op |-> op, order |-> o,
                                           first |-> Fetched(Statements(op)[1], o)]]
          /\ answer' = [answer EXCEPT ![r] = AtRest] /\ UNCHANGED vars
      BY <1>5 DEF ReadFirst
    <2>2. reader'[r].op = op /\ reader'[r].order = o
          /\ reader'[r].first = Fetched(Statements(op)[1], o)
      BY <2>1 DEF ReadInv, ReadersKnow
    <2>3. StillTrue(op, o, Fetched(Statements(op)[1], o))
      BY <1>2, FetchedTrue
    <2>4. StillTrue(reader[r].op, reader[r].order, reader[r].first)'
      BY <1>3, <2>2, <2>3
    <2>5. \A s \in Readers \ {r} : reader'[s] = reader[s]
      BY <2>1 DEF ReadInv, ReadersKnow
    <2> QED BY <1>2, <1>3, <2>1, <2>2, <2>4, <2>5 DEF ReadInv, ReadersKnow
  <1>6. ASSUME NEW r \in Readers, ReadSecond(r)
        PROVE  ReadInv'
    <2>1. reader' = [reader EXCEPT ![r] = AtRest]
      BY <1>6 DEF ReadSecond
    <2>2. DOMAIN answer' = DOMAIN answer
      BY <1>6 DEF ReadSecond
    <2>3. \A s \in Readers : reader'[s] # AtRest => reader'[s] = reader[s]
      BY <2>1 DEF ReadInv, ReadersKnow
    <2> QED BY <1>2, <1>3, <2>1, <2>2, <2>3 DEF ReadInv, ReadersKnow
  <1> QED BY <1>4, <1>5, <1>6 DEF ReadNext, readVars

\* The second statement of a reader shows what is current: the first row names
\* the end of the order, or nothing is claimed of it, and the second is now.
LEMMA ShownStep ==
  ASSUME ReadInv, NEW r \in Readers, ReadSecond(r)
  PROVE  LET shown == answer'[r] IN
         /\ shown.op = "transaction" /\ shown.net >= 0 =>
              LET b == bill[shown.order] IN
              shown.net = IF b.phase = "confirmed" THEN b.amount - b.credit ELSE 0
         /\ shown.op = "steps" /\ shown.quote = "CONSUMED" =>
              shown.freeze = "completed"
PROOF
  <1> DEFINE op == reader[r].op   o == reader[r].order   first == reader[r].first
             second == Fetched(Statements(op)[2], o)
             rows == [t \in {Statements(op)[1], Statements(op)[2]} |->
                        IF t = Statements(op)[1] THEN first ELSE Fetched(t, o)]
  <1>1. /\ op \in {"transaction", "steps"} /\ o \in Orders
        /\ StillTrue(op, o, first)
        /\ answer'[r] = Shown(op, o, rows)
    BY DEF ReadSecond, ReadInv, ReadersKnow
  <1>2. BillPhase(o) \in Phases \union {"none"}
    BY <1>1, BillType DEF ReadInv
  <1>3. CASE op = "transaction"
    <2>1. rows["transaction"] = first /\ rows["refunds"] = Fetched("refunds", o)
      BY <1>3 DEF Statements
    <2>2. CASE first = NoRow
      <3>1. answer'[r] = [op |-> "missing"]
        BY <1>1, <1>3, <2>1, <2>2 DEF Shown
      <3> QED BY <3>1
    <2>3. CASE first # NoRow
      <3>1. answer'[r] = Summary(o, first, Fetched("refunds", o))
        BY <1>1, <1>3, <2>1, <2>3 DEF Shown
      <3>2. CASE first = "confirmed"
        <4>1. BillPhase(o) = "confirmed"
          BY <1>1, <1>3, <3>2 DEF StillTrue
        <4>2. Fetched("refunds", o) = bill[o].credit
          BY <4>1 DEF Fetched, BillPhase
        <4>3. answer'[r].op = "transaction" /\ answer'[r].order = o
              /\ answer'[r].net = bill[o].amount - bill[o].credit
          BY <3>1, <3>2, <4>2 DEF Summary
        <4> QED BY <4>1, <4>3 DEF BillPhase
      <3>3. CASE first = "refunded"
        <4>1. BillPhase(o) = "refunded"
          BY <1>1, <1>3, <3>3 DEF StillTrue
        <4>2. answer'[r].op = "transaction" /\ answer'[r].order = o /\ answer'[r].net = 0
          BY <3>1, <3>3 DEF Summary
        <4> QED BY <4>1, <4>2 DEF BillPhase
      <3>4. CASE first = "frozen"
        <4>1. answer'[r].op = "transaction" /\ answer'[r].net = -1
          BY <3>1, <3>4 DEF Summary
        <4> QED BY <4>1
      <3> QED BY <1>1, <1>3, <2>3, <3>2, <3>3, <3>4 DEF StillTrue
    <2> QED BY <2>2, <2>3
  <1>4. CASE op = "steps"
    <2>1. rows["quote"] = first /\ rows["transaction"] = Fetched("transaction", o)
      BY <1>4 DEF Statements
    <2>2. CASE first = NoRow
      <3>1. answer'[r] = [op |-> "missing"]
        BY <1>1, <1>4, <2>1, <2>2 DEF Shown
      <3> QED BY <3>1
    <2>3. CASE first # NoRow
      <3>1. answer'[r] = StepState(o, first, Fetched("transaction", o))
        BY <1>1, <1>4, <2>1, <2>3 DEF Shown
      <3>2. first = "CONSUMED" => Fetched("transaction", o) # NoRow
        BY <1>1, <1>2, <1>4 DEF StillTrue, Fetched, BillPhase, Phases, NoRow
      <3>3. answer'[r].op = "steps" /\ answer'[r].quote = first
            /\ answer'[r].freeze = IF Fetched("transaction", o) = NoRow THEN "pending" ELSE "completed"
        BY <3>1 DEF StepState
      <3> QED BY <3>2, <3>3
    <2> QED BY <2>2, <2>3
  <1> QED BY <1>1, <1>3, <1>4

\* What a client is shown is current, for any number of orders, users and
\* readers and whatever billing does between the two statements of a request.
THEOREM ShownAreCurrent == ReadSpec => ShownIsCurrent
PROOF
  <1>1. ASSUME ReadInv, [ReadNext]_readVars
        PROVE  [\A r \in Readers :
                  answer'[r] # answer[r] =>
                    LET shown == answer'[r] IN
                    /\ shown.op = "transaction" /\ shown.net >= 0 =>
                         LET b == bill[shown.order] IN
                         shown.net = IF b.phase = "confirmed" THEN b.amount - b.credit ELSE 0
                    /\ shown.op = "steps" /\ shown.quote = "CONSUMED" =>
                         shown.freeze = "completed"]_readVars
    <2> SUFFICES ASSUME NEW r \in Readers, answer'[r] # answer[r]
                 PROVE  LET shown == answer'[r] IN
                        /\ shown.op = "transaction" /\ shown.net >= 0 =>
                             LET b == bill[shown.order] IN
                             shown.net = IF b.phase = "confirmed" THEN b.amount - b.credit ELSE 0
                        /\ shown.op = "steps" /\ shown.quote = "CONSUMED" =>
                             shown.freeze = "completed"
      OBVIOUS
    <2>1. PICK s \in Readers :
            ReadSecond(s) \/ \E op \in {"transaction", "steps"}, o \in Orders : ReadFirst(s, op, o)
      BY <1>1 DEF ReadNext, readVars
    <2>2. s = r
      BY <1>1, <2>1 DEF ReadFirst, ReadSecond, ReadInv, ReadersKnow
    <2>3. CASE ReadSecond(s)
      BY <1>1, <2>2, <2>3, ShownStep
    <2>4. CASE \E op \in {"transaction", "steps"}, o \in Orders : ReadFirst(s, op, o)
      <3>1. answer'[r].op = "none"
        BY <1>1, <2>2, <2>4 DEF ReadFirst, AtRest, ReadInv, ReadersKnow
      <3> QED BY <3>1
    <2> QED BY <2>1, <2>3, <2>4
  <1> QED BY <1>1, ReadInitInv, ReadNextInv, PTL DEF ReadSpec, ShownIsCurrent
=============================================================================
