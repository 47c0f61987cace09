------------------------------ MODULE MCAgeing ------------------------------
(* An instance of Ageing of its own, for what the report promises.         *)
EXTENDS Ageing

CONSTANTS g1, w1, w2

\* A unit received the day before, on the day, or at no known time.
RecentDates == {Today - 1, Today}
Readers == {[role |-> "admin", rooms |-> {}], [role |-> "supervisor", rooms |-> {w1}]}
=============================================================================
