-------------------------------- MODULE Desk --------------------------------
(***************************************************************************)
(* The screen of an operator (client): the form on which he loads an       *)
(* invoice, chooses a warehouse and starts a dispatch or a return, and the *)
(* session in which he scans, by hand scanner and by camera.               *)
(*                                                                         *)
(* A handler runs to its first await; what it awaits is answered later, in *)
(* any order, and its rest runs then, on the values of the render it was   *)
(* made in.  The hand scanner is given the handler of the latest render; a *)
(* camera goes on with the one of the render in which it was started.      *)
(* Whether two scans are close enough for the cooldowns to swallow one is  *)
(* left open: a scan is made, or it is not.                                *)
(***************************************************************************)
EXTENDS Naturals, FiniteSets

CONSTANTS
  Orders,           \* invoices the server knows
  Shops,            \* warehouses
  Wares,            \* products, or products and conditions, to choose from
  Pieces,           \* serials
  WareOf,           \* piece -> its ware
  Cameras,          \* starts of the camera in one session
  MaxInFlight,      \* lookups, or scans, on their way at once
  MaxLines,         \* lines in the list of scans of one session
  Void              \* no value

ASSUME DeskAssumption ==
  /\ IsFiniteSet(Pieces)
  /\ Void \notin Orders \cup Shops
                \cup [order : Orders, status : {"PENDING", "DISPATCHED"}, base : Nat]

VARIABLES
  typed,            \* the text in the field: an invoice, or one unknown
  lookups, loading, \* lookups on their way, and what the Load button thinks
  picked, shop,     \* the invoice that was loaded, the warehouse chosen
  stockFor, asked,  \* whose stock is shown; the stock requests on their way
  opening,          \* the invoice a session is being created for
  session,          \* invoice, status, units scanned before; or Void
  ware,             \* the product the operator has picked
  count, seen,      \* units counted (scanCount), serials remembered
  lines,            \* length of the list of scans
  pending, paused,  \* a scan is on its way, the operator paused
  native,           \* the browser has a BarcodeDetector of its own
  calls, cam,       \* scans on their way; what each camera does and sends
  holder,           \* piece -> the invoice the server has put it on
  counted,          \* history: serials accepted in this session
  fruitless         \* history: scans of this session that accepted nothing
form == <<typed, lookups, loading, picked, shop, stockFor, asked, opening>>
list == <<lines, fruitless>>
scanning == <<ware, count, seen, list, pending, paused, cam, counted>>
deskVars == <<form, session, scanning, calls, holder, native>>

Dark == [pc |-> "off", ware |-> Void]
DeskTypeOK ==
  /\ picked \in Orders \cup {Void} /\ shop \in Shops \cup {Void}
  /\ stockFor = Void \/ stockFor \in Orders \X Shops
  /\ asked \subseteq Orders \X Shops /\ (asked # {} => session = Void)
  /\ session = Void \/ session \in [order : Orders, status : {"PENDING", "DISPATCHED"}, base : Nat]
  /\ \A c \in calls : c.answer \in {"none", "valid", "foreign", "refused", "lost"}
  /\ \A k \in Cameras : cam[k].pc \in {"off", "asking", "on", "busy", "ending"}
  /\ lines \in Nat /\ fruitless \in Nat /\ native \in BOOLEAN
  /\ seen \subseteq counted /\ \A p \in Pieces : holder[p] \in Orders \cup {Void}

(***************************************************************************)
(* The form.                                                               *)
(***************************************************************************)
NewId(S) == CHOOSE n \in 1..MaxInFlight : \A x \in S : x.id # n
(* The effect on invoice, warehouse and session: it aborts the request it  *)
(* made before and makes a new one.                                        *)
(* Broken variant: nothing is aborted.                                     *)
KeepsEarlier(o, w) == IF o = Void \/ w = Void \/ session # Void THEN {} ELSE asked \cup {<<o, w>>}
Refetch(o, w) == IF o = Void \/ w = Void \/ session # Void THEN {} ELSE {<<o, w>>}
ShownAfter(o, w) == IF o = Void \/ w = Void \/ session # Void THEN Void ELSE stockFor

TypeIn(q) ==
  /\ session = Void /\ typed' = q
  /\ UNCHANGED <<lookups, loading, picked, shop, stockFor, asked, opening, session, scanning, calls, holder, native>>
(* The button waits for an answer, the Enter key does not.                 *)
HandleLoad ==
  /\ session = Void /\ typed # Void /\ Cardinality(lookups) < MaxInFlight
  /\ lookups' = lookups \cup {[id |-> NewId(lookups), query |-> typed]}
  /\ loading' = TRUE /\ picked' = Void /\ stockFor' = Void /\ asked' = {}
  /\ UNCHANGED <<typed, shop, opening, session, scanning, calls, holder, native>>
(* An invoice that is unknown, of the wrong type or dispatched is refused. *)
Loaded(l) ==
  /\ loading' = FALSE /\ lookups' = lookups \ {l}
  /\ \/ /\ l.query \in Orders /\ picked' = l.query
        /\ IF picked = l.query THEN UNCHANGED <<stockFor, asked>>
           ELSE asked' = Refetch(l.query, shop) /\ stockFor' = ShownAfter(l.query, shop)
     \/ UNCHANGED <<picked, stockFor, asked>>
  /\ UNCHANGED <<typed, shop, opening, session, scanning, calls, holder, native>>
ChooseShop(w) ==
  /\ session = Void /\ shop # w /\ shop' = w
  /\ asked' = Refetch(picked, w) /\ stockFor' = ShownAfter(picked, w)
  /\ UNCHANGED <<typed, lookups, loading, picked, opening, session, scanning, calls, holder, native>>
StockAnswered(a) ==
  /\ asked' = asked \ {a} /\ stockFor' \in {a, Void}
  /\ UNCHANGED <<typed, lookups, loading, picked, shop, opening, session, scanning, calls, holder, native>>

HandleCreate ==
  /\ session = Void /\ opening = Void /\ picked # Void /\ shop # Void /\ stockFor # Void
  /\ opening' = picked
  /\ UNCHANGED <<typed, lookups, loading, picked, shop, stockFor, asked, session, scanning, calls, holder, native>>
(* A dispatch that was begun before is resumed with what it has.           *)
TakenFor(o) == {p \in Pieces : holder[p] = o}
Created ==
  /\ opening # Void /\ opening' = Void
  /\ LET n == Cardinality(TakenFor(opening)) IN
     \/ /\ session' = [order |-> opening, status |-> "PENDING", base |-> n]
        /\ count' = n /\ asked' = {} /\ stockFor' = Void
     \/ UNCHANGED <<session, count, asked, stockFor>>
  /\ UNCHANGED <<typed, lookups, loading, picked, shop, ware, seen, list, pending, paused, cam, counted, calls, holder, native>>

(***************************************************************************)
(* The session.                                                            *)
(***************************************************************************)
InSession == session # Void
Completed == InSession /\ session.status = "DISPATCHED"
Disabled == ware = Void \/ pending \/ Completed \/ paused

(* What the screen shows as scanned, and whether there is anything to      *)
(* complete: the units counted, or the lines of the list if they are more. *)
EffectiveScanCount == IF lines > count THEN lines ELSE count

PickProduct(w) ==
  /\ InSession /\ ware' = w
  /\ UNCHANGED <<form, session, count, seen, list, pending, paused, cam, counted, calls, holder, native>>
SetPaused(yes) ==
  /\ InSession /\ ~Completed /\ paused' = yes
  /\ UNCHANGED <<form, session, ware, count, seen, list, pending, cam, counted, calls, holder, native>>

(* submitScan, for a serial that is not remembered.                        *)
LineFree == lines + Cardinality(calls) < MaxLines
Submit(p, w, via) ==
  /\ p \notin seen /\ Cardinality(calls) < MaxInFlight /\ LineFree /\ pending' = TRUE
  /\ calls' = calls \cup {[id |-> NewId(calls), order |-> session.order, piece |-> p, ware |-> w,
                           via |-> via, answer |-> "none"]}
ScanByHand(p) ==
  /\ InSession /\ ~Disabled /\ Submit(p, ware, Void)
  /\ UNCHANGED <<form, session, ware, count, seen, list, paused, cam, counted, holder, native>>

StartCamera(k) ==
  /\ InSession /\ ~Disabled /\ cam[k].pc = "off"
  /\ cam' = [cam EXCEPT ![k] = [pc |-> "asking", ware |-> ware]]
  /\ UNCHANGED <<form, session, ware, count, seen, list, pending, paused, counted, calls, holder, native>>
CameraOn(k) ==
  /\ cam[k].pc = "asking" /\ \E on \in BOOLEAN :
       cam' = [cam EXCEPT ![k] = IF on THEN [@ EXCEPT !.pc = "on"] ELSE Dark]
  /\ UNCHANGED <<form, session, ware, count, seen, list, pending, paused, counted, calls, holder, native>>
(* What is pending, and whether the session is completed, it knows as of   *)
(* its start, when neither was so; a pause it sees.  The loop over the     *)
(* browser's detector waits for its scan, the one of the library does not. *)
CameraScan(k, p) ==
  /\ cam[k].pc = "on" /\ ~paused /\ Submit(p, cam[k].ware, k)
  /\ cam' = IF native THEN [cam EXCEPT ![k].pc = "busy"] ELSE cam
  /\ UNCHANGED <<form, session, ware, count, seen, list, paused, counted, holder, native>>
(* A loop that waits for its scan looks for the stream afterwards, and may *)
(* find that of a later start.                                             *)
StopCamera ==
  /\ \E k \in Cameras : cam[k].pc \in {"on", "busy"}
  /\ cam' = [k \in Cameras |-> IF cam[k].pc = "on" THEN Dark
                              ELSE IF cam[k].pc = "busy" THEN [cam[k] EXCEPT !.pc = "ending"] ELSE cam[k]]
  /\ UNCHANGED <<form, session, ware, count, seen, list, pending, paused, counted, calls, holder, native>>
Streaming == \E k \in Cameras : cam[k].pc \in {"on", "busy"}
Onwards(k) == IF Streaming THEN [cam[k] EXCEPT !.pc = "on"] ELSE Dark

(* A remembered serial is not sent again; it leaves a line in the list.    *)
ScanAgain(p) ==
  /\ InSession /\ p \in seen /\ LineFree
  /\ ~Disabled \/ (~paused /\ \E k \in Cameras : cam[k].pc = "on")
  /\ lines' = lines + 1 /\ fruitless' = fruitless + 1
  /\ UNCHANGED <<form, session, ware, count, seen, pending, paused, cam, counted, calls, holder, native>>

(* The server takes a piece once, as the product it is; it has reasons of  *)
(* its own to refuse one, and to find a returned one not of the invoice.   *)
Serve(c) ==
  /\ c.answer = "none"
  /\ \/ /\ holder[c.piece] = Void /\ c.ware = WareOf[c.piece]
        /\ holder' = [holder EXCEPT ![c.piece] = c.order]
        /\ \E a \in {"valid", "foreign", "lost"} : calls' = (calls \ {c}) \cup {[c EXCEPT !.answer = a]}
     \/ /\ \E a \in {"refused", "lost"} : calls' = (calls \ {c}) \cup {[c EXCEPT !.answer = a]}
        /\ UNCHANGED holder
  /\ UNCHANGED <<form, session, scanning, native>>
(* Only what was accepted without reserve is remembered; every answer, and *)
(* the lack of one, is a line of the list.                                 *)
Accepts(c) == c.answer \in {"valid", "foreign"}
Remembered(c) == {"valid"}
CountsEvery(c) == 1   \* broken variant: counted when the scan returns
UnitsIn(c) == IF Accepts(c) THEN 1 ELSE 0
Settle(c) ==
  /\ c.answer # "none" /\ calls' = calls \ {c} /\ pending' = FALSE
  /\ count' = count + UnitsIn(c) /\ lines' = lines + 1
  /\ seen' = IF c.answer \in Remembered(c) THEN seen \cup {c.piece} ELSE seen
  /\ counted' = IF Accepts(c) THEN counted \cup {c.piece} ELSE counted
  /\ fruitless' = IF Accepts(c) THEN fruitless ELSE fruitless + 1
  /\ cam' = IF c.via \in Cameras /\ cam[c.via].pc \in {"busy", "ending"}
            THEN [cam EXCEPT ![c.via] = Onwards(c.via)] ELSE cam
  /\ UNCHANGED <<form, session, ware, paused, holder, native>>

(* Completing, also with scans on their way; the server says what became   *)
(* of the dispatch.                                                        *)
HandleComplete ==
  /\ InSession /\ ~Completed /\ EffectiveScanCount # 0
  /\ \E s \in {"PENDING", "DISPATCHED"} : session' = [session EXCEPT !.status = s]
  /\ UNCHANGED <<form, scanning, calls, holder, native>>
(* The page is left: its state goes, and with it whatever is answered.     *)
LeavePage ==
  /\ typed' = Void /\ lookups' = {} /\ loading' = FALSE /\ picked' = Void /\ shop' = Void
  /\ stockFor' = Void /\ asked' = {} /\ opening' = Void /\ session' = Void /\ ware' = Void
  /\ count' = 0 /\ seen' = {} /\ pending' = FALSE /\ paused' = FALSE /\ calls' = {}
  /\ cam' = [k \in Cameras |-> Dark] /\ counted' = {} /\ lines' = 0 /\ fruitless' = 0 /\ UNCHANGED native
  /\ \E S \in SUBSET calls : holder' = [p \in Pieces |->
       IF holder[p] = Void /\ \E c \in S : c.piece = p /\ c.answer = "none" /\ c.ware = WareOf[p]
       THEN session.order ELSE holder[p]]

DeskInit ==
  /\ typed = Void /\ lookups = {} /\ loading = FALSE /\ picked = Void /\ shop = Void
  /\ stockFor = Void /\ asked = {} /\ opening = Void /\ session = Void /\ ware = Void
  /\ count = 0 /\ seen = {} /\ pending = FALSE /\ paused = FALSE /\ calls = {}
  /\ cam = [k \in Cameras |-> Dark] /\ counted = {} /\ holder = [p \in Pieces |-> Void]
  /\ lines = 0 /\ fruitless = 0 /\ native \in BOOLEAN

DeskNext ==
  \/ \E q \in Orders \cup {"mistyped"} : TypeIn(q)
  \/ HandleLoad \/ (\E l \in lookups : Loaded(l)) \/ \E w \in Shops : ChooseShop(w)
  \/ (\E a \in asked : StockAnswered(a)) \/ HandleCreate \/ Created
  \/ (\E w \in Wares : PickProduct(w)) \/ \E yes \in BOOLEAN : SetPaused(yes)
  \/ (\E p \in Pieces : ScanByHand(p) \/ ScanAgain(p)) \/ StopCamera
  \/ \E k \in Cameras : StartCamera(k) \/ CameraOn(k) \/ \E p \in Pieces : CameraScan(k, p)
  \/ (\E c \in calls : Serve(c) \/ Settle(c)) \/ HandleComplete \/ LeavePage
DeskSpec == DeskInit /\ [][DeskNext]_deskVars

(***************************************************************************)
(* Properties.                                                             *)
(***************************************************************************)
(* The stock that is shown before a dispatch is begun is that of the       *)
(* invoice and the warehouse chosen now, in whatever order loads and stock *)
(* are answered; an earlier pair's stays on the screen only for as long as *)
(* the request for the pair chosen now is on its way.  Meanwhile the       *)
(* button is not locked: a dispatch of the pair chosen now can be begun on *)
(* the earlier pair's stock (CustomerDispatchPanel.jsx:104-129).           *)
StockIsCurrent == session = Void /\ stockFor # Void =>
  stockFor = <<picked, shop>> \/ <<picked, shop>> \in asked

(* The count of the session (scanCount) is that of the units the server    *)
(* has taken for the invoice as far as this operator can know: those it    *)
(* had when the session was begun and the different serials accepted       *)
(* since, by hand or by any camera; it is never more than there are, and a *)
(* serial that was not accepted can be scanned again.  The number on the   *)
(* screen is the larger of that count and the list of scans, which has a   *)
(* line for every scan that was refused, failed or repeated as well: it is *)
(* the count for as long as those are no more than the units the session   *)
(* was begun with, and above it, also above what there is, when they are   *)
(* (CustomerDispatchPanel.jsx:139-160, ScanSession.jsx:26,                 *)
(* useScanSession.js:47-109).                                              *)
CountIsTrue == InSession =>
  /\ count = session.base + Cardinality(counted) /\ count <= Cardinality(TakenFor(session.order))
  /\ seen \subseteq TakenFor(session.order)
  /\ EffectiveScanCount = IF fruitless > session.base THEN Cardinality(counted) + fruitless ELSE count
=============================================================================
