------------------------------- MODULE Pages -------------------------------
(***************************************************************************)
(* What a page asks the server for, and what it shows of the answers       *)
(* (client): the dashboard with its cascading filters, the ageing report   *)
(* with its drill-down, the list of exceptions with the one that is open.  *)
(* Dashboard and report abort their request when the selection changes;    *)
(* their retry buttons, the drill-down and all of the exceptions page do   *)
(* not.  A get that fails on the server or on its way is sent once more, a *)
(* post is not; an answer may come in any order.                           *)
(***************************************************************************)
EXTENDS Naturals, FiniteSets

CONSTANTS
  Choices, Narrower, \* first and second level of a selection
  Details,           \* what can be opened: buckets, exceptions
  MaxAsks,           \* requests on their way at once
  None               \* nothing selected, nothing shown

VARIABLES
  screen,            \* the page
  want,              \* what is selected: two levels
  shown,             \* the selection whose answer is shown
  spinning, failed,  \* the list is being loaded, its last answer was an error
  opened, detail,    \* what is open beside the list, and what is shown of it
  refused,           \* the error beside the list
  asks,              \* requests on their way
  mended,            \* exceptions the server has corrected
  retried            \* history: a retry was made that nothing aborts
pageVars == <<screen, want, shown, spinning, failed, opened, detail, refused, asks, mended, retried>>

Selections == (Choices \cup {None}) \X (Narrower \cup {None})
PagesTypeOK ==
  /\ screen \in {"dashboard", "ageing", "exceptions"}
  /\ want \in Selections /\ (screen # "dashboard" => want[2] = None)
  /\ shown = None \/ shown \in Selections
  /\ opened \in Details \cup {None} /\ mended \subseteq Details
  /\ detail = None \/ detail \in [of : Details \cup {None}, open : BOOLEAN]
  /\ \A a \in asks : a.role \in {"list", "detail", "mend"} /\ a.tries \in 0..1

(***************************************************************************)
(* Requests.                                                               *)
(***************************************************************************)
NewAsk(S) == CHOOSE n \in 1..MaxAsks : \A a \in S : a.id # n
(* The rest of a correction has the selection of the render it was made in.*)
Sent(S, role, of, tied) ==
  S \cup {[id |-> NewAsk(S), role |-> role, of |-> of, tied |-> tied, tries |-> 0,
         at |-> IF role = "mend" THEN want ELSE None]}
Room(S) == Cardinality(S) < MaxAsks

(* The effect on a selection: what the last one asked for is aborted.      *)
NothingAborted == asks   \* broken variant: it is not
Unabandoned == {a \in asks : ~a.tied}
LoadFor(w) ==
  /\ Room(Unabandoned) /\ asks' = Sent(Unabandoned, "list", w, screen # "exceptions")
  /\ spinning' = TRUE /\ failed' = FALSE

(* What the client makes of a failure: a get goes out once more unless the *)
(* server has refused it, then it has failed.                              *)
Resend(a) ==
  /\ a.role # "mend" /\ a.tries = 0 /\ asks' = (asks \ {a}) \cup {[a EXCEPT !.tries = 1]}
  /\ UNCHANGED <<screen, want, shown, spinning, failed, opened, detail, refused, mended, retried>>

(***************************************************************************)
(* The list.                                                               *)
(***************************************************************************)
ChooseCategory(c) ==
  /\ screen = "dashboard" /\ c # want[1] /\ want' = <<c, None>> /\ LoadFor(want')
  /\ UNCHANGED <<screen, shown, opened, detail, refused, mended, retried>>
ChooseSubCategory(n) ==
  /\ screen = "dashboard" /\ n # want[2] /\ want' = <<want[1], n>> /\ LoadFor(want')
  /\ UNCHANGED <<screen, shown, opened, detail, refused, mended, retried>>
ChooseWarehouse(c) ==
  /\ screen = "ageing" /\ c # want[1] /\ c # None /\ want' = <<c, None>> /\ LoadFor(want')
  /\ UNCHANGED <<screen, shown, opened, detail, refused, mended, retried>>
FilterStatus(c) ==
  /\ screen = "exceptions" /\ c # want[1] /\ want' = <<c, None>> /\ LoadFor(want')
  /\ UNCHANGED <<screen, shown, opened, detail, refused, mended, retried>>
(* The dashboard offers a retry only as long as it has nothing to show, the *)
(* list of exceptions can be refreshed at any time.                        *)
RetryOffered ==
  CASE screen = "dashboard" -> failed /\ shown = None
    [] screen = "ageing" -> failed
    [] OTHER -> TRUE
Retry ==
  /\ RetryOffered /\ Room(asks) /\ asks' = Sent(asks, "list", want, FALSE)
  /\ spinning' = TRUE /\ failed' = FALSE /\ retried' = TRUE
  /\ UNCHANGED <<screen, want, shown, opened, detail, refused, mended>>

ListAnswered(a) ==
  /\ a.role = "list" /\ asks' = asks \ {a} /\ shown' = a.of /\ spinning' = FALSE
  /\ UNCHANGED <<screen, want, failed, opened, detail, refused, mended, retried>>
(* The dashboard keeps what it had, and then does not say that it failed.  *)
ListFailed(a) ==
  /\ a.role = "list" /\ asks' = asks \ {a} /\ failed' = TRUE /\ spinning' = FALSE
  /\ shown' = IF screen = "dashboard" THEN shown ELSE None
  /\ UNCHANGED <<screen, want, opened, detail, refused, mended, retried>>

(***************************************************************************)
(* What is open beside it.                                                 *)
(***************************************************************************)
HandleBarClick(d) ==
  /\ screen = "ageing" /\ shown # None /\ ~spinning /\ ~failed /\ Room(asks)
  /\ opened' = d /\ detail' = None /\ asks' = Sent(asks, "detail", d, FALSE)
  /\ UNCHANGED <<screen, want, shown, spinning, failed, refused, mended, retried>>
CloseDrillDown ==
  /\ screen = "ageing" /\ opened # None /\ opened' = None /\ detail' = None
  /\ UNCHANGED <<screen, want, shown, spinning, failed, refused, asks, mended, retried>>
HandleViewDetail(d) ==
  /\ screen = "exceptions" /\ Room(asks)
  /\ opened' = d /\ detail' = None /\ refused' = FALSE /\ asks' = Sent(asks, "detail", d, FALSE)
  /\ UNCHANGED <<screen, want, shown, spinning, failed, mended, retried>>
(* A late answer is shown whatever is open by then.                        *)
DetailAnswered(a) ==
  /\ a.role = "detail" /\ asks' = asks \ {a} /\ detail' = [of |-> a.of, open |-> a.of \notin mended]
  /\ UNCHANGED <<screen, want, shown, spinning, failed, opened, refused, mended, retried>>
(* A bucket that cannot be read is shown as an empty one; what a scanned   *)
(* number could not open is told by the scanner.                           *)
DetailFailed(a) ==
  /\ a.role = "detail" /\ asks' = asks \ {a}
  /\ IF screen = "ageing" THEN detail' = [of |-> None, open |-> FALSE] /\ UNCHANGED refused
     ELSE refused' \in {refused, TRUE} /\ UNCHANGED detail
  /\ UNCHANGED <<screen, want, shown, spinning, failed, opened, mended, retried>>

(* Correcting: what is open is corrected, what is shown is not asked.      *)
DoCorrect ==
  /\ screen = "exceptions" /\ detail # None /\ detail.open /\ ~refused /\ Room(asks)
  /\ \A a \in asks : a.role # "mend"
  /\ asks' = Sent(asks, "mend", opened, FALSE)
  /\ UNCHANGED <<screen, want, shown, spinning, failed, opened, detail, refused, mended, retried>>
Corrected(a) ==
  /\ a.role = "mend" /\ a.of \notin mended /\ mended' = mended \cup {a.of}
  /\ detail' = [of |-> a.of, open |-> FALSE] /\ spinning' = TRUE /\ failed' = FALSE
  /\ asks' = Sent(asks \ {a}, "list", a.at, FALSE)
  /\ UNCHANGED <<screen, want, shown, opened, refused, retried>>
CorrectionFails(a) ==
  /\ a.role = "mend" /\ asks' = asks \ {a} /\ refused' = TRUE /\ mended' \in {mended, mended \cup {a.of}}
  /\ UNCHANGED <<screen, want, shown, spinning, failed, opened, detail, retried>>

PagesInit ==
  /\ screen \in {"dashboard", "ageing", "exceptions"} /\ want = <<None, None>> /\ shown = None
  /\ spinning = (screen # "ageing") /\ failed = FALSE /\ opened = None /\ detail = None
  /\ refused = FALSE /\ mended = {} /\ retried = FALSE
  /\ asks = IF screen = "ageing" THEN {} ELSE Sent({}, "list", want, screen = "dashboard")
PagesNext ==
  \/ \E c \in Choices \cup {None} : ChooseCategory(c) \/ ChooseWarehouse(c) \/ FilterStatus(c)
  \/ (\E n \in Narrower \cup {None} : ChooseSubCategory(n)) \/ Retry
  \/ \E d \in Details : HandleBarClick(d) \/ HandleViewDetail(d)
  \/ CloseDrillDown \/ DoCorrect
  \/ \E a \in asks : \/ ListAnswered(a) \/ ListFailed(a) \/ DetailAnswered(a) \/ DetailFailed(a)
                     \/ Corrected(a) \/ CorrectionFails(a) \/ Resend(a)
PagesSpec == PagesInit /\ [][PagesNext]_pageVars

(***************************************************************************)
(* Property.                                                               *)
(***************************************************************************)
(* A page that aborts ends up with what is selected: when it has stopped   *)
(* loading without an error it shows the answer for the selection made     *)
(* last, however fast the operator changes it and in whatever order the    *)
(* server answers (AgeingPage.jsx:102-132, DashboardPage.jsx:45-70); the   *)
(* retry buttons, which nothing aborts, excepted.  And no page says that   *)
(* it is loading when nothing is on its way any more.                      *)
ScreenSettles ==
  /\ spinning => \E a \in asks : a.role = "list"
  /\ screen # "exceptions" /\ ~retried /\ ~spinning /\ ~failed
     /\ (screen = "ageing" => want[1] # None) => shown = want
=============================================================================
