--------------------------- MODULE TransferScreen ---------------------------
(***************************************************************************)
(* The screen for warehouse transfers (client): the form on which an       *)
(* operator loads a transfer invoice, which brings its route, sees whether *)
(* the source warehouse has stock and starts the transfer; the session in  *)
(* which he scans the units out, one product at a time; and Done, after    *)
(* which the same screen takes the next transfer.                          *)
(*                                                                         *)
(* Handlers run as in Desk: to their first await at once, the rest when    *)
(* what they await is answered, in any order.  The reference and the       *)
(* serials are left out, and so is a second scan in the same session.      *)
(***************************************************************************)
EXTENDS Naturals, FiniteSets

CONSTANTS
  Papers,           \* transfer invoices the server knows
  Freight,          \* products
  FreightOn,        \* invoice -> the products of its lines
  RouteOf,          \* invoice -> its source and its destination
  Docks,            \* warehouses
  Lookups,          \* lookups that can be on their way at once
  MaxLate, MaxMoved, \* bounds on scans that outlive their session, on units counted
  Vacant            \* no value

ASSUME TransferScreenAssumption ==
  /\ FreightOn \in [Papers -> SUBSET Freight] /\ RouteOf \in [Papers -> Docks \X Docks]
  /\ MaxLate \in Nat /\ MaxMoved \in Nat
  /\ Vacant \notin Papers \cup Freight \cup Docks \cup (Papers \X Docks)
                \cup [of : Papers, from : Docks, to : Docks]

VARIABLES
  asking,           \* the text in the field: an invoice, or one unknown
  lookingFor,       \* what each lookup was made with
  chosen,           \* the invoice that was loaded
  source, target,   \* the two warehouses
  stockShown,       \* invoice and warehouse in stock, as the screen has it
  stockAsked,       \* the requests for stock that are on their way
  starting,         \* the transfer that is being created
  moving,           \* the transfer, as the server has it
  goodsPicked,      \* the product the operator has picked
  scanOut,          \* the product the scan on its way was sent for, or Unnamed
  lateScans,        \* scans on their way of sessions that are done
  moved,            \* the units counted (scanCount)
  touched,          \* history: a warehouse was chosen since the invoice was loaded
  overtaken,        \* history: an answer came when what it was asked for had gone
  accepted          \* history: the scans of this transfer that were accepted
fields == <<asking, chosen, source, target, touched>>
stockOf == <<stockShown, stockAsked>>
sessionOfTransfer == <<moving, goodsPicked, scanOut, lateScans, moved, accepted>>
transferVars == <<fields, lookingFor, stockOf, starting, sessionOfTransfer, overtaken>>

Unnamed == "unnamed"
Transfers == [of : Papers, from : Docks, to : Docks]
TransferTypeOK ==
  /\ asking \in Papers \cup {"mistyped", Vacant}
  /\ lookingFor \in [Lookups -> Papers \cup {"mistyped", Vacant}]
  /\ chosen \in Papers \cup {Vacant} /\ source \in Docks \cup {Vacant} /\ target \in Docks \cup {Vacant}
  /\ stockShown \in (Papers \X Docks) \cup {Vacant} /\ stockAsked \subseteq Papers \X Docks
  /\ starting \in Transfers \cup {Vacant} /\ moving \in Transfers \cup {Vacant}
  /\ goodsPicked \in Freight \cup {Vacant} /\ scanOut \in Freight \cup {Unnamed, Vacant}
  /\ lateScans \in 0..MaxLate /\ moved \in 0..MaxMoved /\ accepted \in Nat
  /\ touched \in BOOLEAN /\ overtaken \in BOOLEAN

(***************************************************************************)
(* The form.                                                               *)
(***************************************************************************)
Preparing == moving = Vacant
(* The effect on invoice, source and session, if one of them has changed:  *)
(* the request it made before is aborted.  What is shown stays until the   *)
(* new one is answered.                                                    *)
AskForStock(i, w) ==
  IF <<i, w>> = <<chosen, source>> THEN UNCHANGED stockOf
  ELSE IF i = Vacant \/ w = Vacant \/ moving # Vacant THEN stockShown' = Vacant /\ stockAsked' = {}
  ELSE stockAsked' = {<<i, w>>} /\ UNCHANGED stockShown

AskFor(q) ==
  /\ Preparing /\ asking' = q
  /\ UNCHANGED <<chosen, source, target, touched, lookingFor, stockOf, starting, sessionOfTransfer, overtaken>>
(* The button waits for the answer, the Enter key does not.  The route     *)
(* stays.                                                                  *)
LoadTransfer(k) ==
  /\ Preparing /\ asking # Vacant /\ lookingFor[k] = Vacant
  /\ lookingFor' = [lookingFor EXCEPT ![k] = asking]
  /\ chosen' = Vacant /\ stockShown' = Vacant /\ stockAsked' = {}
  /\ UNCHANGED <<asking, source, target, touched, starting, sessionOfTransfer, overtaken>>
(* An invoice that is unknown, dispatched or a customer's is refused; one  *)
(* that is not brings its route, also when the session has begun.          *)
Brings(i) == RouteOf[i]
TransferLoaded(k) ==
  /\ lookingFor[k] # Vacant /\ lookingFor' = [lookingFor EXCEPT ![k] = Vacant]
  /\ \/ /\ lookingFor[k] \in Papers /\ chosen' = lookingFor[k]
        /\ source' = Brings(chosen')[1] /\ target' = Brings(chosen')[2] /\ touched' = FALSE
        /\ AskForStock(chosen', source')
        /\ overtaken' = (overtaken \/ (moving # Vacant /\ chosen' # moving.of))
     \/ UNCHANGED <<chosen, source, target, touched, stockOf, overtaken>>
  /\ UNCHANGED <<asking, starting, sessionOfTransfer>>
ChooseSource(w) ==
  /\ Preparing /\ w # source /\ source' = w /\ touched' = TRUE /\ AskForStock(chosen, w)
  /\ UNCHANGED <<asking, chosen, target, lookingFor, starting, sessionOfTransfer, overtaken>>
ChooseTarget(w) ==
  /\ Preparing /\ w # target /\ target' = w /\ touched' = TRUE
  /\ UNCHANGED <<asking, chosen, source, lookingFor, stockOf, starting, sessionOfTransfer, overtaken>>
(* No stock at all counts as none shown, and so does an error.             *)
StockArrived(a) ==
  /\ stockAsked' = stockAsked \ {a} /\ stockShown' \in {a, Vacant}
  /\ UNCHANGED <<fields, lookingFor, starting, sessionOfTransfer, overtaken>>

StartMoving ==
  /\ Preparing /\ starting = Vacant /\ chosen # Vacant /\ stockShown # Vacant
  /\ source # Vacant /\ target # Vacant /\ source # target
  /\ starting' = [of |-> chosen, from |-> source, to |-> target]
  /\ UNCHANGED <<fields, lookingFor, stockOf, sessionOfTransfer, overtaken>>
MovingStarted ==
  /\ starting # Vacant /\ starting' = Vacant
  /\ \/ /\ moving' = starting /\ moved' = 0 /\ stockShown' = Vacant /\ stockAsked' = {}
        /\ accepted' = 0 /\ overtaken' = (chosen # starting.of)
        /\ UNCHANGED <<goodsPicked, scanOut, lateScans>>
     \/ UNCHANGED <<stockOf, sessionOfTransfer, overtaken>>
  /\ UNCHANGED <<fields, lookingFor>>

(***************************************************************************)
(* The session.                                                            *)
(***************************************************************************)
GoodsOffered == IF chosen = Vacant THEN {} ELSE FreightOn[chosen]
PickGoods(p) ==
  /\ moving # Vacant /\ p \in GoodsOffered /\ goodsPicked' = p
  /\ UNCHANGED <<fields, lookingFor, stockOf, starting, moving, scanOut, lateScans, moved, accepted, overtaken>>
(* Without a product only when there is none to pick.                      *)
ScanUnit ==
  /\ moving # Vacant /\ scanOut = Vacant /\ (GoodsOffered = {} \/ goodsPicked # Vacant)
  /\ scanOut' = IF goodsPicked = Vacant THEN Unnamed ELSE goodsPicked
  /\ UNCHANGED <<fields, lookingFor, stockOf, starting, moving, goodsPicked, lateScans, moved, accepted, overtaken>>
UnitScanned ==
  /\ scanOut # Vacant /\ scanOut' = Vacant
  /\ \/ moved < MaxMoved /\ moved' = moved + 1 /\ accepted' = accepted + 1
     \/ UNCHANGED <<moved, accepted>>
  /\ UNCHANGED <<fields, lookingFor, stockOf, starting, moving, goodsPicked, lateScans, overtaken>>
(* The scan of a session that is done counts in the one there is now.      *)
LateScanAnswered ==
  /\ lateScans > 0 /\ lateScans' = lateScans - 1
  /\ \/ moved < MaxMoved /\ moved' = moved + 1 /\ overtaken' = (overtaken \/ moving # Vacant)
     \/ UNCHANGED <<moved, overtaken>>
  /\ UNCHANGED <<fields, lookingFor, stockOf, starting, moving, goodsPicked, scanOut, accepted>>

(* Everything is put back, except what is on its way.                      *)
PicksStay == goodsPicked        \* broken variant: the product stays picked
NothingPicked == Vacant
DoneMoving ==
  /\ moving # Vacant /\ (scanOut # Vacant => lateScans < MaxLate)
  /\ moving' = Vacant /\ goodsPicked' = NothingPicked /\ scanOut' = Vacant /\ moved' = 0 /\ accepted' = 0
  /\ lateScans' = lateScans + (IF scanOut = Vacant THEN 0 ELSE 1)
  /\ asking' = Vacant /\ chosen' = Vacant /\ source' = Vacant /\ target' = Vacant /\ touched' = FALSE
  /\ stockShown' = Vacant /\ stockAsked' = {} /\ overtaken' = FALSE
  /\ UNCHANGED <<lookingFor, starting>>

(* The page is left, and comes back as it was at first.                    *)
TransferInit ==
  /\ asking = Vacant /\ lookingFor = [k \in Lookups |-> Vacant] /\ chosen = Vacant /\ source = Vacant /\ target = Vacant
  /\ stockShown = Vacant /\ stockAsked = {} /\ starting = Vacant /\ moving = Vacant /\ goodsPicked = Vacant
  /\ scanOut = Vacant /\ lateScans = 0 /\ moved = 0 /\ touched = FALSE /\ overtaken = FALSE /\ accepted = 0
LeaveTransfers ==
  /\ asking' = Vacant /\ lookingFor' = [k \in Lookups |-> Vacant] /\ chosen' = Vacant /\ source' = Vacant /\ target' = Vacant
  /\ stockShown' = Vacant /\ stockAsked' = {} /\ starting' = Vacant /\ moving' = Vacant /\ goodsPicked' = Vacant
  /\ scanOut' = Vacant /\ lateScans' = 0 /\ moved' = 0 /\ touched' = FALSE /\ overtaken' = FALSE /\ accepted' = 0

TransferNext ==
  \/ (\E q \in Papers \cup {"mistyped"} : AskFor(q))
  \/ (\E k \in Lookups : LoadTransfer(k) \/ TransferLoaded(k))
  \/ (\E w \in Docks : ChooseSource(w) \/ ChooseTarget(w)) \/ \E a \in stockAsked : StockArrived(a)
  \/ StartMoving \/ MovingStarted \/ (\E p \in Freight : PickGoods(p)) \/ ScanUnit \/ UnitScanned
  \/ LateScanAnswered \/ DoneMoving \/ LeaveTransfers
TransferSpec == TransferInit /\ [][TransferNext]_transferVars

(***************************************************************************)
(* Properties.                                                             *)
(***************************************************************************)
(* The stock that lets a transfer begin is that of the invoice and of the  *)
(* source on the form, or that pair's own request is still on its way: the *)
(* screen waits for no answer, and meanwhile a transfer can be begun on    *)
(* the stock of the pair before.  And unless the operator has chosen a     *)
(* warehouse since, the route on the form is the invoice's, whatever route *)
(* an earlier invoice has left there and in whatever order two lookups are *)
(* answered (WarehouseTransferPanel.jsx:40-127).                           *)
FormAgrees == Preparing /\ chosen # Vacant =>
  /\ stockShown # Vacant => stockShown = <<chosen, source>> \/ <<chosen, source>> \in stockAsked
  /\ ~touched => <<source, target>> = RouteOf[chosen]

(* From one transfer to the next on the same screen: unless an answer came *)
(* late, the invoice on the screen is the one the server moves units for,  *)
(* a scan is sent for a product of that invoice, never for one picked in   *)
(* an earlier transfer, and the count (scanCount) is that of the scans     *)
(* accepted.  What is shown is the larger of it and the length of the list *)
(* of scans, as in Desk (WarehouseTransferPanel.jsx:140-192).              *)
SessionIsTheTransfer == moving # Vacant /\ ~overtaken =>
  /\ chosen = moving.of /\ moved = accepted
  /\ scanOut # Vacant /\ FreightOn[moving.of] # {} => scanOut \in FreightOn[moving.of]

(* From the form to the last scan, and from one transfer to the next, the  *)
(* screen is about one transfer: that of its invoice.                      *)
TransferIsAsShown == FormAgrees /\ SessionIsTheTransfer
=============================================================================
