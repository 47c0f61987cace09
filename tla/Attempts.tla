------------------------------ MODULE Attempts ------------------------------
(***************************************************************************)
(* The limit on logins from one address: a counter in Redis, incremented   *)
(* by every attempt, which is given its time to live after the first and   *)
(* deleted by a login that succeeds; and a counter of the process for the  *)
(* attempts during which Redis does not answer.                            *)
(*                                                                         *)
(* let is a history variable: the attempts let through, by either counter, *)
(* since that counter began.                                               *)
(***************************************************************************)
EXTENDS Naturals

CONSTANTS
  Callers,          \* logins in progress at once
  MaxAttempts,
  AttemptWindow,    \* in ticks
  LastTick,         \* where time stops
  Never             \* no time

ASSUME LimitAssumption == MaxAttempts \in Nat \ {0} /\ AttemptWindow \in Nat \ {0} /\ LastTick \in Nat

VARIABLES
  hits,             \* the counter in Redis and its end
  spare,            \* the counter in the process and its end
  attempt,          \* caller -> where his login stands
  clock, let
attemptVars == <<hits, spare, attempt, clock, let>>

NoHits == [n |-> 0, until |-> Never]
AttemptTypeOK ==
  /\ hits \in [n : 0..(MaxAttempts + 2), until : (0..(LastTick + AttemptWindow)) \cup {Never}]
  /\ spare \in [n : 0..(MaxAttempts + 2), until : (0..(LastTick + AttemptWindow)) \cup {Never}]
  /\ attempt \in [Callers -> {"idle", "first", "let"}] /\ clock \in 0..LastTick
  /\ hits.until # Never => hits.n > 0 /\ hits.until > clock
  /\ let \in [redis : Nat, process : Nat]

Stands(c, pc) == attempt' = [attempt EXCEPT ![c] = pc]
(* Broken variant: off by one.                                              *)
LetsOneMore(n) == IF n >= MaxAttempts THEN MaxAttempts ELSE n + 1
(* INCR gives each caller a count of his own; counts beyond the limit and  *)
(* one more are as good as that.                                           *)
Incr(n) == IF n > MaxAttempts THEN n ELSE n + 1
Check(c) == LET count == Incr(hits.n) IN
  /\ attempt[c] = "idle" /\ hits' = [hits EXCEPT !.n = count]
  /\ Stands(c, IF count = 1 THEN "first" ELSE IF count <= MaxAttempts THEN "let" ELSE "idle")
  /\ let' = IF count <= MaxAttempts THEN [let EXCEPT !.redis = @ + 1] ELSE let
  /\ UNCHANGED <<spare, clock>>
(* EXPIRE, which does nothing when the counter is gone.                    *)
Expire(c) ==
  /\ attempt[c] = "first" /\ Stands(c, "let")
  /\ hits' = IF hits.n = 0 THEN hits ELSE [hits EXCEPT !.until = clock + AttemptWindow]
  /\ UNCHANGED <<spare, clock, let>>

(* A counter of the process whose time is over begins anew.                *)
SpareNow == IF spare.n = 0 \/ spare.until <= clock
            THEN [n |-> 1, until |-> clock + AttemptWindow] ELSE [spare EXCEPT !.n = Incr(@)]
(* Redis fails in one of its two calls.                                    *)
CheckInProcess(c) ==
  /\ attempt[c] \in {"idle", "first"} /\ spare' = SpareNow
  /\ Stands(c, IF SpareNow.n <= MaxAttempts THEN "let" ELSE "idle")
  /\ let' = IF SpareNow.n > MaxAttempts THEN let
            ELSE [let EXCEPT !.process = IF SpareNow.n = 1 THEN 1 ELSE @ + 1]
  /\ UNCHANGED <<hits, clock>>

(* A login succeeds: both counters go, the one in Redis if it answers.     *)
Reset(c) ==
  /\ attempt[c] = "let" /\ Stands(c, "idle") /\ spare' = NoHits
  /\ \/ hits' = NoHits /\ let' = [redis |-> 0, process |-> 0]
     \/ hits' = hits /\ let' = [let EXCEPT !.process = 0]
  /\ UNCHANGED clock
(* It fails, or its server dies: with the counter in the process, if so.   *)
Fail(c) ==
  /\ attempt[c] # "idle" /\ Stands(c, "idle") /\ UNCHANGED <<hits, spare, clock, let>>
Restart ==
  /\ attempt' = [c \in Callers |-> "idle"] /\ spare' = NoHits /\ let' = [let EXCEPT !.process = 0]
  /\ UNCHANGED <<hits, clock>>
Pass ==
  /\ clock < LastTick /\ clock' = clock + 1
  /\ IF hits.until # Never /\ hits.until <= clock'
     THEN hits' = NoHits /\ let' = [let EXCEPT !.redis = 0] ELSE UNCHANGED <<hits, let>>
  /\ UNCHANGED <<spare, attempt>>

AttemptInit ==
  /\ hits = NoHits /\ spare = NoHits /\ attempt = [c \in Callers |-> "idle"]
  /\ clock = 0 /\ let = [redis |-> 0, process |-> 0]
AttemptNext ==
  \/ \E c \in Callers : Check(c) \/ Expire(c) \/ CheckInProcess(c) \/ Reset(c) \/ Fail(c)
  \/ Restart \/ Pass
AttemptSpec == AttemptInit /\ [][AttemptNext]_attemptVars

(***************************************************************************)
(* Properties.                                                             *)
(***************************************************************************)
(* Neither counter lets more attempts through than the limit before it is  *)
(* over or reset, however many come at once and whichever of them meets a  *)
(* Redis that does not answer (loginRateLimiter.js:67-88).  What the code  *)
(* does not promise: that a window is as long as it was, since a reset can *)
(* come between the two calls of an attempt, nor that it ever ends.        *)
LimitKept == let.redis <= MaxAttempts /\ let.process <= MaxAttempts
=============================================================================
