------------------------------- MODULE Ledger -------------------------------
(***************************************************************************)
(* What dispatch and sales returns promise together: who holds each unit.  *)
(* A unit is in the house or with the invoice it was sold on; an invoice   *)
(* never holds more than it ordered; a unit is taken back once in its life *)
(* and may then be sold again, for good.                                   *)
(***************************************************************************)
EXTENDS Integers, FiniteSets

CONSTANTS
    Serials,
    Invoices,
    House,      \* the holder of a unit that is not sold
    Capacity    \* [Invoices -> Nat], the units an invoice orders

VARIABLES
    holder,     \* [Serials -> Invoices \cup {House}]
    spent       \* units that were taken back

HeldBy(i) == {s \in Serials : holder[s] = i}

Init ==
    /\ holder = [s \in Serials |-> House]
    /\ spent = {}

Sell(s, i) ==
    /\ holder[s] = House
    /\ Cardinality(HeldBy(i)) < Capacity[i]
    /\ holder' = [holder EXCEPT ![s] = i]
    /\ UNCHANGED spent

TakeBack(s) ==
    /\ holder[s] # House
    /\ s \notin spent
    /\ holder' = [holder EXCEPT ![s] = House]
    /\ spent' = spent \cup {s}

Next == \E s \in Serials : TakeBack(s) \/ \E i \in Invoices : Sell(s, i)

Spec == Init /\ [][Next]_<<holder, spent>>
=============================================================================
