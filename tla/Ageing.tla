------------------------------- MODULE Ageing -------------------------------
(***************************************************************************)
(* The ageing report (IDM-08): how long the units on hand have been in     *)
(* their warehouse.  The report reads a materialized view, filled when the *)
(* database is migrated and refreshed by a timer of the server.  A refresh *)
(* that lets readers go on (CONCURRENTLY) needs a unique index on the view *)
(* and fails without one; the server logs the failure and waits for the    *)
(* next turn of the timer.                                                 *)
(*                                                                         *)
(* An age is a number of whole days.  Two tables divide ages into buckets: *)
(* one names the bucket of a row of the report, the other selects the rows *)
(* shown when somebody opens a bucket.  The report reads one page of rows  *)
(* and counts those; a bucket that is opened shows all there are.          *)
(***************************************************************************)
EXTENDS Integers, FiniteSets

CONSTANTS
  Items,            \* units
  Rooms,            \* warehouses
  Dates,            \* days a unit may have been received on
  Today, LastDay,   \* the day of the migration, and where time stops
  PageLimit,        \* rows on a page of the report (50 if not asked otherwise)
  Viewers,          \* readers: role and the warehouses they are assigned
  Unset             \* no value

ASSUME AgeingAssumption ==
  /\ Today \in Int /\ LastDay \in Int /\ Today <= LastDay /\ Dates \subseteq Int /\ Unset \notin Int
  /\ PageLimit \in Nat

VARIABLES
  onHand,           \* unit -> where it is in stock and since when, or Unset
  day,              \* the date
  snapshot,         \* the materialized view
  refreshed,        \* how the last refresh ended
  answer            \* the last answer: to what, to whom, and the rows it is made of
ageingVars == <<onHand, day, snapshot, refreshed, answer>>

Row == [item : Items, room : Rooms, age : Nat \cup {Unset}]
AgeingTypeOK ==
  /\ \A i \in Items : onHand[i] = Unset \/ onHand[i] \in [room : Rooms, since : Int \cup {Unset}]
  /\ day \in Today..LastDay /\ snapshot \subseteq Row /\ refreshed \in {"never", "failed", "done"}
  /\ answer # Unset => answer.who \in Viewers /\ answer.rows \subseteq Row

(***************************************************************************)
(* The view.                                                               *)
(***************************************************************************)
(* Broken variant: days are counted without GREATEST(0, ...).               *)
SignedAge(since, now) == IF since = Unset THEN Unset ELSE now - since
(* A receipt dated in the future counts as today's.                        *)
AgeDays(since, now) == IF since = Unset THEN Unset ELSE IF now > since THEN now - since ELSE 0
View(stock, now) == {[item |-> i, room |-> stock[i].room, age |-> AgeDays(stock[i].since, now)] :
                     i \in {i \in Items : stock[i] # Unset}}
(* What V004 made and V027 made anew, and whether it is unique.            *)
Indexes == {[on |-> <<"warehouse_id", "product_id", "age_days">>, unique |-> FALSE],
            [on |-> <<"missing_received_at", "warehouse_id">>, unique |-> FALSE]}
RefreshSnapshot ==
  /\ IF \E x \in Indexes : x.unique
     THEN snapshot' = View(onHand, day) /\ refreshed' = "done"
     ELSE snapshot' = snapshot /\ refreshed' = "failed"
  /\ UNCHANGED <<onHand, day, answer>>

(***************************************************************************)
(* Buckets.                                                                *)
(***************************************************************************)
(* Broken variant: the first table alone is edited.                         *)
OtherBuckets ==
  {[code |-> "B0_30", min |-> 0, max |-> 30], [code |-> "B31_60", min |-> 31, max |-> 60],
   [code |-> "B61_90", min |-> 61, max |-> 91], [code |-> "B91_PLUS", min |-> 92, max |-> Unset]}
DefaultAgeingBuckets ==
  {[code |-> "B0_30", min |-> 0, max |-> 30], [code |-> "B31_60", min |-> 31, max |-> 60],
   [code |-> "B61_90", min |-> 61, max |-> 90], [code |-> "B91_PLUS", min |-> 91, max |-> Unset]}
Holds(b, age) == age >= b.min /\ (b.max = Unset \/ age <= b.max)
BucketForAgeDays(age) ==
  IF age = Unset THEN "MISSING_RECEIVED_AT"
  ELSE IF \E b \in DefaultAgeingBuckets : Holds(b, age)
       THEN (CHOOSE b \in DefaultAgeingBuckets : Holds(b, age)).code ELSE "UNBUCKETED"

Span(min, max) == [min |-> min, max |-> max]
BucketRanges ==
  [B0_30 |-> Span(0, 30), B31_60 |-> Span(31, 60), B61_90 |-> Span(61, 90),
   B91_PLUS |-> Span(91, Unset), MISSING_RECEIVED_AT |-> Span(Unset, Unset)]
(* A comparison with no age is no match; no bounds ask for rows without.   *)
FindProductsInBucket(room, code) == LET range == BucketRanges[code] IN
  {r \in snapshot : r.room = room /\
     IF range = Span(Unset, Unset) THEN r.age = Unset
     ELSE r.age # Unset /\ (range.min = Unset \/ r.age >= range.min)
                        /\ (range.max = Unset \/ r.age <= range.max)}
(* The report counts the rows of the page it has read.  Which rows come    *)
(* first is decided by their products, which are not modelled, and among   *)
(* rows of one product and age by nothing.                                 *)
RowsIn(room) == {r \in snapshot : r.room = room}
FindOnHandSerials(room) == {page \in SUBSET RowsIn(room) :
  IF Cardinality(RowsIn(room)) <= PageLimit THEN page = RowsIn(room) ELSE Cardinality(page) = PageLimit}
InBucket(page, code) == {r \in page : BucketForAgeDays(r.age) = code}

(***************************************************************************)
(* Readers.  All of them hold ageing:read.                                 *)
(***************************************************************************)
Responds(to, v, found) ==
  /\ answer' = [to |-> to, who |-> v, rows |-> found]
  /\ UNCHANGED <<onHand, day, snapshot, refreshed>>
(* Broken variant: the scope is not tested for being empty.                 *)
UncheckedScope(v, asked) ==
  [ok |-> TRUE, rooms |-> IF asked = Unset THEN v.rooms ELSE {asked} \cap v.rooms]
(* No warehouses stand for all of them, and only an administrator may be   *)
(* left with none.                                                         *)
ResolveScope(v, asked) ==
  IF v.role = "admin" THEN [ok |-> TRUE, rooms |-> IF asked = Unset THEN {} ELSE {asked}]
  ELSE LET rooms == IF asked = Unset THEN v.rooms ELSE v.rooms \cap {asked}
       IN  [ok |-> rooms # {}, rooms |-> rooms]
FindSerialsForExport(rooms) == {r \in snapshot : rooms = {} \/ r.room \in rooms}
(* The exports, plain and for SAP, whose pages are left out, and the       *)
(* summary by warehouse.                                                   *)
GetExport(v, asked) == LET scope == ResolveScope(v, asked) IN
  scope.ok /\ Responds("export", v, FindSerialsForExport(scope.rooms))
(* The policy lets an administrator read the report of any warehouse.      *)
GetAgeingReport(v, room) ==
  /\ v.role = "admin" \/ room \in v.rooms
  /\ \E page \in FindOnHandSerials(room) : Responds("report", v, page)
(* A bucket is opened by whoever names its warehouse.                      *)
GetProductsInBucket(v, room, code) == Responds("products", v, FindProductsInBucket(room, code))

(* Elsewhere: units come and go, and days pass.                            *)
ComeIn(i, w) ==
  /\ onHand[i] = Unset /\ onHand' = [onHand EXCEPT ![i] = [room |-> w, since |-> day]]
  /\ UNCHANGED <<day, snapshot, refreshed, answer>>
GoOut(i) ==
  /\ onHand[i] # Unset /\ onHand' = [onHand EXCEPT ![i] = Unset]
  /\ UNCHANGED <<day, snapshot, refreshed, answer>>
NextDay ==
  /\ day < LastDay /\ day' = day + 1
  /\ UNCHANGED <<onHand, snapshot, refreshed, answer>>

AgeingInit ==
  /\ onHand \in [Items -> {Unset} \cup [room : Rooms, since : Dates \cup {Unset}]]
  /\ day = Today /\ snapshot = View(onHand, day) /\ refreshed = "never" /\ answer = Unset
AgeingNext ==
  \/ \E i \in Items : (\E w \in Rooms : ComeIn(i, w)) \/ GoOut(i)
  \/ NextDay \/ RefreshSnapshot
  \/ \E v \in Viewers : \/ \E asked \in Rooms \cup {Unset} : GetExport(v, asked)
                        \/ \E w \in Rooms : GetAgeingReport(v, w)
                        \/ \E w \in Rooms, code \in DOMAIN BucketRanges : GetProductsInBucket(v, w, code)
AgeingSpec == AgeingInit /\ [][AgeingNext]_ageingVars
(* The timer goes on for as long as the server runs.                       *)
TimedAgeingSpec == AgeingSpec /\ WF_ageingVars(RefreshSnapshot)

(***************************************************************************)
(* Properties.                                                             *)
(***************************************************************************)
(* Opening a bucket of the report shows the rows of its page that it has   *)
(* counted there, and of its page no others, for every bucket; and no row  *)
(* of the page is left out of all of them: the two tables agree at every   *)
(* boundary.  The numbers agree as well when the page holds the warehouse; *)
(* of a larger warehouse the report counts its page only, the bucket shows *)
(* every row (ageingReportService.js:33-83, ageingReportRepository.js).    *)
BucketsAgree == \A w \in Rooms : \A page \in FindOnHandSerials(w) :
  /\ \A code \in DOMAIN BucketRanges :
       /\ InBucket(page, code) = page \cap FindProductsInBucket(w, code)
       /\ Cardinality(RowsIn(w)) <= PageLimit => InBucket(page, code) = FindProductsInBucket(w, code)
  /\ \A r \in page : \E code \in DOMAIN BucketRanges : r \in InBucket(page, code)

(* The report, the exports and the summary show nobody but an              *)
(* administrator a warehouse he is not assigned to, although an empty list *)
(* of warehouses means all (ageingRoutes.js:12-50, 64-97).  Opening a      *)
(* bucket is excepted: it is not scoped, and shows whoever may read        *)
(* reports any warehouse he names (ageingRoutes.js:99-123).                *)
ScopeIsNotWidened == answer # Unset /\ answer.to # "products" /\ answer.who.role # "admin" =>
  \A r \in answer.rows : r.room \in answer.who.rooms

(* "Ageing snapshot refresh interval (12h)": what is on hand, and has been *)
(* refreshed since, is in the report: a unit that has come in is either    *)
(* shown in the end or has left again (README.md:103).                     *)
SnapshotCatchesUp == \A i \in Items :
  onHand[i] # Unset ~> (onHand[i] = Unset \/ \E r \in snapshot : r.item = i)
=============================================================================
