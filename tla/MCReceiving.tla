---------------------------- MODULE MCReceiving ----------------------------
(* Small instances of Receiving for TLC. *)
EXTENDS Receiving, TLC

CONSTANTS c1, c2, s1, s2, w1, w2, w3, f1, d1, t1, t2, g1, g2, inverter

AllInverters == [s \in Serials |-> inverter]

\* w1 ships one unit to w2 and keeps the other; the plant w3 ships both.
OneShipped == {[doc |-> f1, src |-> w1, dst |-> w2, sers |-> {s1}]}
FromPlant == {[doc |-> f1, src |-> w3, dst |-> w2, sers |-> {s1, s2}]}

\* Transfer invoices from w2 to w1, for one unit and for two.
BackRoute == [i \in Invoices |-> [src |-> w2, dst |-> w1]]
OneOrTwo == [i \in Invoices |-> [p \in Products |-> IF i = t1 THEN 1 ELSE 2]]

Symmetry == Permutations(Clients) \cup Permutations(Grns)
=============================================================================
