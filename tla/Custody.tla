------------------------------ MODULE Custody ------------------------------
(***************************************************************************)
(* Where a unit may be in its life, whoever moves it: it enters a house by *)
(* one receipt, leaves it by a transfer or a sale, and comes back from a   *)
(* sale by one return.  This is what receipts, transfers, dispatch and     *)
(* returns promise together for each row of serial_master.  A return that  *)
(* takes in a unit from elsewhere leaves its receipt, if it is still to    *)
(* come, without a meaning: it may then come at any time.                  *)
(***************************************************************************)
CONSTANTS
    Serials,
    ForeignReturns  \* whether a return may take in a unit that was not sold

VARIABLES
    place,      \* where each unit is
    arrived,    \* units that a receipt took in
    back        \* units that a return took in

Places == {"inbound", "house", "moving", "sold"}

Init ==
    /\ place = [s \in Serials |-> "inbound"]
    /\ arrived = {}
    /\ back = {}

Put(s, to) == place' = [place EXCEPT ![s] = to]

Receive(s) ==
    /\ s \notin arrived
    /\ s \notin back => place[s] = "inbound"
    /\ Put(s, "house")
    /\ arrived' = arrived \cup {s}
    /\ UNCHANGED back

Transfer(s) == place[s] = "house" /\ Put(s, "moving") /\ UNCHANGED <<arrived, back>>

Sell(s) == place[s] = "house" /\ Put(s, "sold") /\ UNCHANGED <<arrived, back>>

Return(s) ==
    /\ s \notin back
    /\ place[s] = "sold" \/ ForeignReturns
    /\ Put(s, "house")
    /\ back' = back \cup {s}
    /\ UNCHANGED arrived

Next == \E s \in Serials : Receive(s) \/ Transfer(s) \/ Sell(s) \/ Return(s)

Spec == Init /\ [][Next]_<<place, arrived, back>>
=============================================================================
