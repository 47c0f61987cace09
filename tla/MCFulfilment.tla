---------------------------- MODULE MCFulfilment ----------------------------
(* Small instances of Fulfilment for TLC. *)
EXTENDS Fulfilment, TLC

CONSTANTS c1, c2, s1, s2, s3, w1, w2, i1, i2, k1, k2, inverter, battery

\* i1 orders two units, i2 one, all of one product.
PlainLines ==
    {[inv |-> i1, no |-> 1, product |-> inverter, qty |-> 2],
     [inv |-> i2, no |-> 1, product |-> inverter, qty |-> 1]}

\* One unit on each of two invoices.
SingleLines ==
    {[inv |-> i, no |-> 1, product |-> inverter, qty |-> 1] : i \in {i1, i2}}

\* One invoice of a battery and an inverter, and one battery more than it orders.
MixedLines ==
    {[inv |-> i1, no |-> 1, product |-> battery, qty |-> 1],
     [inv |-> i1, no |-> 2, product |-> inverter, qty |-> 1]}
Mixed == [s \in Serials |-> IF s = s3 THEN inverter ELSE battery]

\* i1 orders a battery and an inverter on two lines, i2 one battery.
BatteryLines ==
    {[inv |-> i1, no |-> 1, product |-> battery, qty |-> 1],
     [inv |-> i1, no |-> 2, product |-> inverter, qty |-> 1],
     [inv |-> i2, no |-> 1, product |-> battery, qty |-> 1]}

AllBatteries == [s \in Serials |-> battery]
AllInverters == [s \in Serials |-> inverter]

Symmetry == Permutations(Clients) \cup Permutations(Serials)
ClientSymmetry == Permutations(Clients)
=============================================================================
