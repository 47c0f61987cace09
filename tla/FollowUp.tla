------------------------------ MODULE FollowUp ------------------------------
(***************************************************************************)
(* What follows a dispatch: the desk where supervisors correct exceptions  *)
(* (IDM-10), and the export of what was dispatched to SAP, driven by an    *)
(* adapter outside of the repository that pulls, posts and reports back.   *)
(*                                                                         *)
(* An exception names its context by a kind and a number.  The number of a *)
(* transfer's exception is that of a shipping document, but its kind is    *)
(* DISPATCH, so the desk takes it for the number of a customer dispatch.   *)
(* Dispatching, completing and taking back come from Fulfilment, reduced   *)
(* to what the desk and the export read; an invoice that is uploaded again *)
(* has its status and its quantities overwritten.                          *)
(***************************************************************************)
EXTENDS Naturals, FiniteSets

CONSTANTS
  Supervisors,      \* requests at the exception desk
  Cases,            \* rows exception_log may hold
  Numbers,          \* identifiers of dispatches and of shipping documents
  Goods,            \* serials
  Batches,          \* references SAP gives to what it was sent
  MaxPulled,        \* dispatches a pull returns at most
  Missing           \* no value

ASSUME FollowUpAssumption ==
  /\ Missing \notin Cases \cup Numbers \cup Goods \cup Batches
  /\ "several" \notin Goods \cup {Missing}
  /\ Missing \notin [kind : {"DISPATCH", "TRANSFER", "GRN"}, no : Numbers,
                     good : Goods \cup {Missing, "several"}, status : {"OPEN", "CORRECTED"}]

VARIABLES
  case,             \* exception -> its row, or Missing
  corrections,      \* exception -> CORRECTION events written for it
  desk,             \* supervisor's request -> where it stands
  sale,             \* dispatch -> its row, its invoice's, and what has been true of them
  active, returned, \* dispatch -> serials out on it, serials that came back
  adapter,          \* the adapter: what it has pulled and is posting
  told              \* dispatch -> serials SAP has been sent for it
followUpVars == <<case, corrections, desk, sale, active, returned, adapter, told>>

Kinds == {"DISPATCH", "TRANSFER", "GRN"}
(* The serial number of an exception names one unit, none, or several.     *)
Named == Goods \cup {Missing, "several"}
Free == [pc |-> "idle", at |-> Missing]
Resting == [pc |-> "idle", todo |-> {}, at |-> Missing, goods |-> {}]

FollowUpTypeOK ==
  /\ case \in [Cases -> {Missing} \cup
       [kind : Kinds, no : Numbers, good : Named, status : {"OPEN", "CORRECTED"}]]
  /\ corrections \in [Cases -> Nat]
  /\ desk \in [Supervisors -> [pc : {"idle", "found", "checked"}, at : Cases \cup {Missing}]]
  /\ \A n \in Numbers :
       /\ sale[n].status \in {"NONE", "PENDING", "DISPATCHED"}
       /\ sale[n].completed \in BOOLEAN /\ sale[n].sap \in Batches \cup {Missing}
       /\ sale[n].billed \in BOOLEAN /\ sale[n].settled \in BOOLEAN /\ sale[n].rewritten \in BOOLEAN
       /\ active[n] \in SUBSET Goods /\ returned[n] \in SUBSET Goods /\ told[n] \in SUBSET Goods
  /\ adapter.todo \subseteq Numbers /\ adapter.goods \subseteq Goods

(***************************************************************************)
(* Dispatch and return, as far as they show here.                          *)
(***************************************************************************)
(* Of a dispatch: its status, whether it has ever been DISPATCHED (completed) and its SAP  *)
(* reference; of its invoice: whether it is DISPATCHED now (billed) and has ever been      *)
(* (settled), and whether an upload has written it after the first one, or as DISPATCHED.  *)
Unsold == [status |-> "NONE", completed |-> FALSE, sap |-> Missing,
           billed |-> FALSE, settled |-> FALSE, rewritten |-> FALSE]
Settled(n, s, billed) == sale' = [sale EXCEPT
  ![n] = [@ EXCEPT !.status = s, !.completed = sale[n].completed \/ s = "DISPATCHED",
                   !.billed = billed, !.settled = sale[n].settled \/ billed]]
(* Both statuses are set from one count, of the dispatch against a target that is at most  *)
(* what the invoice orders: unless an upload has changed what it orders, the invoice is    *)
(* fully dispatched only if the dispatch is complete.                                      *)
Outcomes(n) == {o \in {"PENDING", "DISPATCHED"} \X BOOLEAN :
                  o[2] => o[1] = "DISPATCHED" \/ sale[n].rewritten}
(* The dispatch of an invoice that is not DISPATCHED is started, or started anew.          *)
StartSale(n) ==
  /\ ~sale[n].billed /\ Settled(n, "PENDING", FALSE)
  /\ UNCHANGED <<case, corrections, desk, active, returned, adapter, told>>
(* A complete dispatch takes no scan until something of it has come back.                  *)
ScanOut(n, g) ==
  /\ sale[n].status = "PENDING" \/ (sale[n].status = "DISPATCHED" /\ returned[n] # {})
  /\ \A m \in Numbers : g \notin active[m]
  /\ active' = [active EXCEPT ![n] = @ \cup {g}]
  /\ \E o \in Outcomes(n) : Settled(n, o[1], o[2])
  /\ UNCHANGED <<case, corrections, desk, returned, adapter, told>>
(* The dispatch is asked to complete.                                                      *)
CompleteSale(n) ==
  /\ sale[n].status # "NONE"
  /\ \E o \in Outcomes(n) : (o # <<"PENDING", FALSE>> => active[n] # {}) /\ Settled(n, o[1], o[2])
  /\ UNCHANGED <<case, corrections, desk, active, returned, adapter, told>>
(* A unit of a complete dispatch comes back; the invoice is counted again, the dispatch is *)
(* left as it is.  Stock taken back as foreign is not on a dispatch.                       *)
ComeBack(n, g) ==
  /\ sale[n].status = "DISPATCHED" /\ g \in active[n] /\ \A m \in Numbers : g \notin returned[m]
  /\ active' = [active EXCEPT ![n] = @ \ {g}] /\ returned' = [returned EXCEPT ![n] = @ \cup {g}]
  /\ \E o \in Outcomes(n) : (sale[n].rewritten \/ ~o[2]) /\ o[1] = "DISPATCHED" /\ Settled(n, o[1], o[2])
  /\ UNCHANGED <<case, corrections, desk, adapter, told>>
(* An upload overwrites the status of an invoice with what its row says, DISPATCHED or     *)
(* anything else, and its quantities; a dispatch there may be is left as it is.            *)
UploadSale(n, billed) ==
  /\ sale' = [sale EXCEPT ![n] = [@ EXCEPT !.billed = billed, !.settled = sale[n].settled \/ billed,
                                           !.rewritten = TRUE]]
  /\ UNCHANGED <<case, corrections, desk, active, returned, adapter, told>>

(* createException, by a scan or a receipt that was refused.               *)
Raise(e, k, n, g) ==
  /\ case[e] = Missing
  /\ k = "DISPATCH" => sale[n].status # "NONE"
  /\ case' = [case EXCEPT ![e] = [kind |-> k, no |-> n, good |-> g, status |-> "OPEN"]]
  /\ UNCHANGED <<corrections, desk, sale, active, returned, adapter, told>>

(***************************************************************************)
(* The exception desk: three statements, only the last in a transaction.   *)
(***************************************************************************)
Seated(c, pc) == desk[c].pc = pc
Find(c, e) ==
  /\ Seated(c, "idle") /\ case[e] # Missing /\ case[e].status = "OPEN"
  /\ desk' = [desk EXCEPT ![c] = [pc |-> "found", at |-> e]]
  /\ UNCHANGED <<case, corrections, sale, active, returned, adapter, told>>

(* Broken variant: the context is not looked up.                            *)
AnyContext(e) == case[e].status = "OPEN"
(* What the desk takes for the dispatch of the exception must exist and its invoice be     *)
(* DISPATCHED; a request that finds otherwise is answered 409.                             *)
Correctable(e) == case[e].kind \in {"DISPATCH", "TRANSFER"} =>
  sale[case[e].no].status # "NONE" /\ sale[case[e].no].billed
CheckContext(c) ==
  /\ Seated(c, "found")
  /\ desk' = [desk EXCEPT ![c] = IF Correctable(desk[c].at) THEN [@ EXCEPT !.pc = "checked"] ELSE Free]
  /\ UNCHANGED <<case, corrections, sale, active, returned, adapter, told>>

(* Broken variant: UPDATE without the condition on the status.              *)
OpenOrNot(e) == case[e] # Missing
(* UPDATE ... WHERE status = 'OPEN', and the event if the row was changed; *)
(* a number that several products share has no serial to write it for, and *)
(* the transaction fails.                                                  *)
StillOpen(e) == case[e].status = "OPEN"
Correct(c) == LET e == desk[c].at IN
  /\ Seated(c, "checked")
  /\ IF StillOpen(e) /\ case[e].good # "several"
     THEN /\ case' = [case EXCEPT ![e].status = "CORRECTED"]
          /\ corrections' = [corrections EXCEPT ![e] = IF case[e].good = Missing THEN @ ELSE @ + 1]
     ELSE UNCHANGED <<case, corrections>>
  /\ desk' = [desk EXCEPT ![c] = Free]
  /\ UNCHANGED <<sale, active, returned, adapter, told>>
Leave(c) ==
  /\ ~Seated(c, "idle") /\ desk' = [desk EXCEPT ![c] = Free]
  /\ UNCHANGED <<case, corrections, sale, active, returned, adapter, told>>

(***************************************************************************)
(* The export: pull the dispatches nobody has reported, fetch the serials  *)
(* of each, post them, report the reference SAP gave.                      *)
(***************************************************************************)
Pending == {n \in Numbers : sale[n].status = "DISPATCHED" /\ sale[n].sap = Missing}
Pull ==
  /\ adapter.pc = "idle" /\ Pending # {}
  /\ \E some \in SUBSET Pending :
       /\ Cardinality(some) = (IF Cardinality(Pending) < MaxPulled THEN Cardinality(Pending) ELSE MaxPulled)
       /\ adapter' = [Resting EXCEPT !.pc = "pulled", !.todo = some]
  /\ UNCHANGED <<case, corrections, desk, sale, active, returned, told>>

(* Serials that came back are among those of the dispatch; a dispatch that *)
(* is open again is answered 409 and the adapter goes on to the next.      *)
SerialsForDispatch(n) == active[n] \cup returned[n]
(* Broken variant: confirmed serials are read before the status of the      *)
(* dispatch is tested, and an empty list is as good as any.                 *)
FetchesOpenOnes(n) ==
  /\ adapter.pc = "pulled" /\ n \in adapter.todo
  /\ adapter' = [adapter EXCEPT !.pc = "fetched", !.todo = @ \ {n}, !.at = n, !.goods = {}]
  /\ UNCHANGED <<case, corrections, desk, sale, active, returned, told>>
Fetch(n) ==
  /\ adapter.pc = "pulled" /\ n \in adapter.todo
  /\ adapter' = IF sale[n].status = "DISPATCHED"
                THEN [adapter EXCEPT !.pc = "fetched", !.todo = @ \ {n}, !.at = n,
                                     !.goods = SerialsForDispatch(n)]
                ELSE [adapter EXCEPT !.todo = @ \ {n}]
  /\ UNCHANGED <<case, corrections, desk, sale, active, returned, told>>
Post ==
  /\ adapter.pc = "fetched"
  /\ told' = [told EXCEPT ![adapter.at] = adapter.goods]
  /\ adapter' = [adapter EXCEPT !.pc = "posted"]
  /\ UNCHANGED <<case, corrections, desk, sale, active, returned>>
MarkSapSynced(b) ==
  /\ adapter.pc = "posted"
  /\ sale' = [sale EXCEPT ![adapter.at].sap = b]
  /\ adapter' = [adapter EXCEPT !.pc = "pulled", !.at = Missing, !.goods = {}]
  /\ UNCHANGED <<case, corrections, desk, active, returned, told>>
(* The list is worked off, or the adapter dies, with or without its post.  *)
EndPull ==
  /\ adapter.pc # "idle" /\ adapter' = Resting
  /\ UNCHANGED <<case, corrections, desk, sale, active, returned, told>>

FollowUpInit ==
  /\ case = [e \in Cases |-> Missing] /\ corrections = [e \in Cases |-> 0]
  /\ desk = [c \in Supervisors |-> Free]
  /\ sale = [n \in Numbers |-> Unsold]
  /\ active = [n \in Numbers |-> {}] /\ returned = [n \in Numbers |-> {}]
  /\ adapter = Resting /\ told = [n \in Numbers |-> {}]

FollowUpNext ==
  \/ \E n \in Numbers, g \in Goods : ScanOut(n, g) \/ ComeBack(n, g)
  \/ \E n \in Numbers : StartSale(n) \/ CompleteSale(n) \/ (\E b \in BOOLEAN : UploadSale(n, b)) \/ Fetch(n)
  \/ \E e \in Cases, k \in Kinds, n \in Numbers, g \in Named : Raise(e, k, n, g)
  \/ \E c \in Supervisors : (\E e \in Cases : Find(c, e)) \/ CheckContext(c) \/ Correct(c) \/ Leave(c)
  \/ Pull \/ Post \/ EndPull \/ \E b \in Batches : MarkSapSynced(b)
FollowUpSpec == FollowUpInit /\ [][FollowUpNext]_followUpVars

(***************************************************************************)
(* Properties.                                                             *)
(***************************************************************************)
(* Corrections stand.  Two supervisors at one exception correct it once:   *)
(* its serial has one CORRECTION event exactly when it is corrected, also  *)
(* if both have found it open before either wrote.  And the exception of a *)
(* dispatch is not corrected before its invoice has been DISPATCHED, which *)
(* takes a dispatch that was completed, or an upload that wrote the        *)
(* invoice, also when a return or another upload opens it again in between *)
(* (exceptionCorrectionService.js:6-24, 64-101).  The desk asks for the    *)
(* status of the invoice and not of the dispatch: what an upload has set   *)
(* to DISPATCHED can be corrected with the dispatch never completed.       *)
CorrectionsStand == \A e \in Cases : case[e] # Missing =>
  /\ case[e].good \in Goods => corrections[e] = IF case[e].status = "CORRECTED" THEN 1 ELSE 0
  /\ case[e].kind = "DISPATCH" /\ case[e].status = "CORRECTED" =>
       LET s == sale[case[e].no] IN s.settled /\ (s.completed \/ s.rewritten)

(* A dispatch that bears a reference of SAP was completed, and what was    *)
(* out on it when SAP was told is still there or is known to have come     *)
(* back (dispatchService.js:481-511).                                      *)
SyncedWasSent == \A n \in Numbers : sale[n].sap # Missing =>
  /\ sale[n].completed
  /\ told[n] # {} /\ told[n] \subseteq active[n] \cup returned[n]
=============================================================================
