----------------------------- MODULE MCImports -----------------------------
(* An instance of Imports of its own, for what its comments promise.       *)
EXTENDS Imports

CONSTANTS c1, c2, m1, n1, b1, b2, w1, f1, f2

\* One batch with a malformed row that has its serial, one without; neither
\* mentions a document of the other.
Record(ok, base, make, to) == [ok |-> ok, base |-> base, make |-> make, to |-> to, doc |-> Nothing]
MalformedBatches == [r \in Refs |->
  IF r = f1 THEN {<<Record(TRUE, b1, m1, w1), Record(FALSE, b2, Nothing, w1)>>}
  ELSE {<<Record(TRUE, b2, m1, w1), Record(FALSE, Nothing, m1, w1)>>}]
=============================================================================
