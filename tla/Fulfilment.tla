----------------------------- MODULE Fulfilment -----------------------------
(***************************************************************************)
(* Customer dispatch (IDM-05), sales returns (IDM-04), condition           *)
(* correction and battery pre-billing (IDM-03) of the Microtek IDM server, *)
(* running as concurrent HTTP requests over one PostgreSQL database.       *)
(*                                                                         *)
(* A request is a client c whose program counter req[c].pc says which      *)
(* statement of its service handler runs next.  Steps are cut where the    *)
(* code lets another request in: between two autocommit statements, and    *)
(* between the reads of a transaction and its writes.  The row locks       *)
(* (SELECT ... FOR UPDATE, or an uncommitted UPDATE) are those of the      *)
(* requests that are between taking the lock and COMMIT, so they are       *)
(* derived from req and freed by Crash as by a commit.                     *)
(*                                                                         *)
(* A request that is refused before it writes leaves every variable as it  *)
(* was and is no step here; what it appends to exception_log is not part   *)
(* of this module, except the SHORT rows startDispatch reads back.  Nor is *)
(* an upload of invoices (Catalogue), which overwrites the status of an    *)
(* invoice with what the file says: the properties are about the requests  *)
(* of this module alone.                                                   *)
(***************************************************************************)
EXTENDS Integers, FiniteSets, FiniteSetsExt

CONSTANTS
    Clients,        \* requests in flight at once
    Serials,        \* serial_master rows
    Warehouses,
    Invoices,       \* SALE invoices; dispatch rows are named by their invoice (V005: one each)
    Products,
    Batteries,      \* products with is_battery
    ProductOf,      \* [Serials -> Products]
    Lines,          \* invoice_line rows: [inv, no, product, qty]
    Srns,           \* SRN headers that may be opened
    Quantities,     \* declared return quantities tried
    Tags,           \* condition tags tried by a return
    Corrections,    \* condition tags tried by a correction
    ForeignAnswers, \* answers tried to "may this return hold foreign stock?"
    StartStatuses,  \* states in which serials enter this part of the system
    Closable,       \* warehouses an administrator may deactivate
    None

Statuses == {"PRODUCED", "IN_TRANSIT", "IN_STOCK", "DISPATCHED"}
ConditionTags == {"SALEABLE", "DEFECTIVE", "REPAIR"}
Held == {"DEFECTIVE", "REPAIR"}
DispatchStatuses == {"PENDING", "IN_PROGRESS", "DISPATCHED"}

ASSUME ClientsAssumption == IsFiniteSet(Clients)   \* the server runs over a pool of connections
ASSUME LinesAssumption ==
    /\ IsFiniteSet(Lines)
    /\ Lines \subseteq [inv: Invoices, no: Nat, product: Products, qty: Nat \ {0}]
    /\ \A l, m \in Lines : l.inv = m.inv /\ l.no = m.no => l = m
    /\ \A i \in Invoices : \E l \in Lines : l.inv = i
ASSUME StockAssumption ==
    /\ IsFiniteSet(Serials)
    /\ ProductOf \in [Serials -> Products]
    /\ StartStatuses \subseteq Statuses \ {"DISPATCHED"}
ASSUME InputAssumption ==
    /\ Batteries \subseteq Products
    /\ Quantities \subseteq Nat \ {0}
    /\ Tags \cup Corrections \subseteq ConditionTags
    /\ ForeignAnswers \subseteq BOOLEAN
    /\ Closable \subseteq Warehouses
ASSUME NoneAssumption ==
    /\ None \notin Serials /\ None \notin Warehouses /\ None \notin Invoices
    /\ None \notin Srns /\ None \notin ConditionTags /\ None \notin Lines
    /\ None \notin Nat
    /\ None \notin [wh: Warehouses, target: Nat, status: DispatchStatuses]
    /\ None \notin [wh: Warehouses, inv: Invoices \cup {None}, qty: Nat \cup {None}, foreign: BOOLEAN]

VARIABLES
    serial,         \* serial_master: status, warehouse and condition tag
    invoiceStatus,  \* invoice.status
    dispatch,       \* dispatch row of each invoice, None before it exists
    scans,          \* dispatch_scan rows with returned_at IS NULL
    returned,       \* dispatch_scan rows with returned_at set
    srn,            \* srn headers, None before they exist
    srnScans,       \* srn_scan rows; orig is None on a row flagged not_original
    prebilled,      \* battery_pre_billing rows
    short,          \* open SHORT exceptions of each dispatch
    activeWh,       \* warehouses with is_active
    req             \* the request each client is running

vars == <<serial, invoiceStatus, dispatch, scans, returned, srn, srnScans,
          prebilled, short, activeWh, req>>
stock == <<serial, scans, returned>>
rows == <<serial, invoiceStatus, dispatch, scans, returned, srn, srnScans,
          prebilled, short, activeWh>>

Idle == [pc |-> "idle", inv |-> None, wh |-> None, ser |-> None, srn |-> None,
         tag |-> None, line |-> None, found |-> None, count |-> 0, target |-> 0]

InFlight(c) == req[c].pc # "idle"

-----------------------------------------------------------------------------
(* Reads.                                                                  *)

LinesOf(i) == {l \in Lines : l.inv = i}
IsFirst(l, S) == l \in S /\ \A m \in S : l.no <= m.no
Ordered(i) == UNION {{l} \X (1 .. l.qty) : l \in LinesOf(i)}
Required(i) == Cardinality(Ordered(i))

ScansOf(i) == {d \in scans : d.line.inv = i}
CountScans(i) == Cardinality(ScansOf(i))
CountScansForLine(l) == Cardinality({d \in scans : d.line = l})

\* countAvailableStock: freely dispatchable units of the invoice's products.
Available(w) ==
    {s \in Serials : serial[s].status = "IN_STOCK" /\ serial[s].wh = w /\ serial[s].tag \notin Held}
AvailableStock(w, i) ==
    Cardinality({s \in Available(w) : \E l \in LinesOf(i) : l.product = ProductOf[s]})

\* An invoice is done when its lines are covered, and partly done from the first scan.
InvoiceStatusFor(i, n) ==
    IF n >= Required(i) THEN "DISPATCHED"
    ELSE IF n <= 0 THEN "PENDING" ELSE "PARTIALLY_DISPATCHED"

\* The status completeDispatch gives a dispatch row.
CompletionStatus(target, n) ==
    IF n <= 0 THEN "PENDING" ELSE IF n >= target THEN "DISPATCHED" ELSE "IN_PROGRESS"

Confirmed(i) == dispatch[i] # None /\ dispatch[i].status = "DISPATCHED"

\* findOriginalDispatchScan takes the latest scan of a confirmed dispatch; a scan that
\* is still out is later than one that came back.
OriginalScans(s) ==
    LET out == {d \in scans : d.ser = s /\ Confirmed(d.line.inv)}
    IN  IF out # {} THEN out ELSE {d \in returned : d.ser = s /\ Confirmed(d.line.inv)}

ReturnedSerials == {x.ser : x \in srnScans}
Adopted == {x.ser : x \in {y \in srnScans : y.orig = None}}

-----------------------------------------------------------------------------
(* Row locks.                                                              *)

NoDispatchLock(i) == FALSE   \* broken variant: the row is read without FOR UPDATE
DispatchLocked(i) ==
    \E c \in Clients : /\ req[c].pc \in {"scanLocked", "scanLined", "completing"}
                       /\ req[c].inv = i
NoSrnLock(k) == FALSE        \* broken variant: the row is read without FOR UPDATE
SrnLocked(k) ==
    \E c \in Clients : /\ req[c].pc \in {"returnLocked", "returnInserted"}
                       /\ req[c].srn = k
SerialLocked(s) ==
    \E c \in Clients : req[c].pc = "returnInserted" /\ req[c].ser = s

-----------------------------------------------------------------------------
Init ==
    /\ serial \in [Serials -> [status: StartStatuses, wh: Warehouses, tag: {None}]]
    /\ invoiceStatus = [i \in Invoices |-> "PENDING"]
    /\ dispatch = [i \in Invoices |-> None]
    /\ scans = {} /\ returned = {}
    /\ srn = [k \in Srns |-> None]
    /\ srnScans = {}
    /\ prebilled = {}
    /\ short = [i \in Invoices |-> 0]
    /\ activeWh = Warehouses
    /\ req = [c \in Clients |-> Idle]

Begin(c, r) == ~InFlight(c) /\ req' = [req EXCEPT ![c] = r]
Goto(c, pc) == req' = [req EXCEPT ![c].pc = pc]
Finish(c) == req' = [req EXCEPT ![c] = Idle]

\* withTransaction after a refusal: COMMIT of the exception_log row or ROLLBACK, and the
\* connection goes back to the pool.
LeakTransaction(c) == UNCHANGED req   \* broken variant: the transaction stays open
EndTransaction(c) == Finish(c)

-----------------------------------------------------------------------------
(* startDispatch: no transaction, every statement commits by itself.       *)

\* Reads the invoice and the warehouse.
StartDispatch(c, i, w) ==
    /\ invoiceStatus[i] # "DISPATCHED"
    /\ w \in activeWh
    /\ Begin(c, [Idle EXCEPT !.pc = "finding", !.inv = i, !.wh = w])
    /\ UNCHANGED rows

\* findByInvoiceId.
FindDispatch(c) ==
    LET i == req[c].inv
    IN  /\ req[c].pc = "finding"
        /\ req' = [req EXCEPT ![c].pc = "counting",
                              ![c].found = IF dispatch[i] = None THEN None ELSE dispatch[i].wh]
        /\ UNCHANGED rows

\* countScans of the dispatch found; an invoice that is all out is refused.
CountForStart(c) ==
    LET i == req[c].inv
        already == IF req[c].found = None THEN 0 ELSE CountScans(i)
    IN  /\ req[c].pc = "counting"
        /\ IF already >= Required(i)
           THEN Finish(c)
           ELSE req' = [req EXCEPT ![c].pc = "stocking", ![c].count = already]
        /\ UNCHANGED rows

SwitchesWarehouse(c) == req[c].found \notin {None, req[c].wh}

NeverPinned(c) == FALSE   \* broken variant: scans do not pin the warehouse
PinnedElsewhere(c) == SwitchesWarehouse(c) /\ req[c].count > 0

\* countAvailableStock decides the target; no stock, or scans made for another warehouse,
\* refuse the request.
CountStock(c) ==
    LET i == req[c].inv
        onHand == AvailableStock(req[c].wh, i)
    IN  /\ req[c].pc = "stocking"
        /\ IF onHand = 0 \/ PinnedElsewhere(c)
           THEN Finish(c)
           ELSE req' = [req EXCEPT
                  ![c].pc = IF req[c].found = None THEN "creating"
                            ELSE IF SwitchesWarehouse(c) THEN "repointing" ELSE "targeting",
                  ![c].target = req[c].count + Min({onHand, Required(i) - req[c].count})]
        /\ UNCHANGED rows

\* Stock that cannot cover what remains is reported.
AfterTarget(c) ==
    IF req[c].target < Required(req[c].inv) THEN Goto(c, "seekingShort") ELSE Finish(c)

\* INSERT INTO dispatch; the unique index on invoice_id refuses a second row.
CreateDispatch(c) ==
    LET i == req[c].inv
    IN  /\ req[c].pc = "creating"
        /\ \/ /\ dispatch[i] # None
              /\ Finish(c)
              /\ UNCHANGED dispatch
           \/ /\ dispatch[i] = None
              /\ dispatch' = [dispatch EXCEPT ![i] =
                     [wh |-> req[c].wh, target |-> req[c].target, status |-> "PENDING"]]
              /\ AfterTarget(c)
        /\ UNCHANGED <<stock, invoiceStatus, srn, srnScans, prebilled, short, activeWh>>

\* updateWarehouse on a dispatch that had no scan when it was read.
RepointDispatch(c) ==
    LET i == req[c].inv
    IN  /\ req[c].pc = "repointing"
        /\ ~DispatchLocked(i)
        /\ dispatch' = [dispatch EXCEPT ![i].wh = req[c].wh]
        /\ Goto(c, "targeting")
        /\ UNCHANGED <<stock, invoiceStatus, srn, srnScans, prebilled, short, activeWh>>

ResumeStatus(c) == IF req[c].count > 0 THEN "IN_PROGRESS" ELSE "PENDING"

\* setDispatchTargetQuantity, whose RETURNING row decides whether the status is rewritten.
SetTarget(c) ==
    LET i == req[c].inv
    IN  /\ req[c].pc = "targeting"
        /\ ~DispatchLocked(i)
        /\ dispatch' = [dispatch EXCEPT ![i].target = req[c].target]
        /\ IF dispatch[i].status # ResumeStatus(c) THEN Goto(c, "resuming") ELSE AfterTarget(c)
        /\ UNCHANGED <<stock, invoiceStatus, srn, srnScans, prebilled, short, activeWh>>

\* updateStatus to the status of a resumed dispatch.
ResumeDispatch(c) ==
    LET i == req[c].inv
    IN  /\ req[c].pc = "resuming"
        /\ ~DispatchLocked(i)
        /\ dispatch' = [dispatch EXCEPT ![i].status = ResumeStatus(c)]
        /\ AfterTarget(c)
        /\ UNCHANGED <<stock, invoiceStatus, srn, srnScans, prebilled, short, activeWh>>

NeverOpenShort(i) == FALSE   \* broken variant: no SHORT is ever found
OpenShort(i) == short[i] > 0

\* findOpenByContext: an open SHORT of this dispatch is reused.
SeekShort(c) ==
    /\ req[c].pc = "seekingShort"
    /\ IF OpenShort(req[c].inv) THEN Finish(c) ELSE Goto(c, "raisingShort")
    /\ UNCHANGED rows

\* createException for the shortage.
RaiseShort(c) ==
    /\ req[c].pc = "raisingShort"
    /\ short' = [short EXCEPT ![req[c].inv] = @ + 1]
    /\ Finish(c)
    /\ UNCHANGED <<stock, invoiceStatus, dispatch, srn, srnScans, prebilled, activeWh>>

-----------------------------------------------------------------------------
(* scanSerial (dispatch): validated outside, written inside a transaction. *)

\* validateSerial for a DISPATCH context keeps the serial row as it was read here.
ValidateScan(c, i, s) ==
    /\ dispatch[i] # None
    /\ dispatch[i].wh \in activeWh
    /\ serial[s].status # "DISPATCHED"
    /\ serial[s].wh \in {None, dispatch[i].wh}
    /\ Begin(c, [Idle EXCEPT !.pc = "scanWaiting", !.inv = i, !.ser = s, !.tag = serial[s].tag])
    /\ UNCHANGED rows

\* lockById, countScans, and the refusals decided from them.
LockForScan(c) ==
    LET i == req[c].inv
    IN  /\ req[c].pc = "scanWaiting"
        /\ ~DispatchLocked(i)
        /\ IF \/ \E d \in ScansOf(i) : d.ser = req[c].ser
              \/ CountScans(i) >= dispatch[i].target
           THEN EndTransaction(c)
           ELSE req' = [req EXCEPT ![c].pc = "scanLocked", ![c].count = CountScans(i),
                                   ![c].target = dispatch[i].target]
        /\ UNCHANGED rows

OpenLines(i, s) ==
    {l \in LinesOf(i) : l.product = ProductOf[s] /\ CountScansForLine(l) < l.qty}

HoldsOnlyRepair(c) == req[c].tag = "REPAIR"   \* broken variant: DEFECTIVE passes
OnHold(c) == req[c].tag \in Held

PreBilledAnywhere(s, i) == \E b \in prebilled : b.ser = s   \* broken variant: the invoice is not compared
PreBilled(s, i) == \E b \in prebilled : b.ser = s /\ b.line.inv = i

\* findAvailableLine, the condition hold on the tag read by ValidateScan, the battery gate.
PickLine(c) ==
    LET i == req[c].inv
        s == req[c].ser
    IN  /\ req[c].pc = "scanLocked"
        /\ \/ OpenLines(i, s) = {} /\ EndTransaction(c)
           \/ \E line \in OpenLines(i, s) :
                /\ IsFirst(line, OpenLines(i, s))
                /\ IF OnHold(c) \/ (line.product \in Batteries /\ ~PreBilled(s, i))
                   THEN EndTransaction(c)
                   ELSE req' = [req EXCEPT ![c].pc = "scanLined", ![c].line = line]
        /\ UNCHANGED rows

BlindUpdate(s) == TRUE   \* broken variant: the status is written without the comparison
StillInStock(s) == serial[s].status = "IN_STOCK"

\* The compare-and-set on the serial, the scan row and both statuses, up to COMMIT.
CommitScan(c) ==
    LET i == req[c].inv
        s == req[c].ser
        n == req[c].count + 1
        scan == [ser |-> s, line |-> req[c].line]
    IN  /\ req[c].pc = "scanLined"
        /\ ~SerialLocked(s)
        /\ Finish(c)
        /\ IF StillInStock(s) /\ ~\E d \in ScansOf(i) : d.ser = s
           THEN /\ serial' = [serial EXCEPT ![s].status = "DISPATCHED"]
                /\ scans' = scans \cup {scan}
                /\ dispatch' = [dispatch EXCEPT ![i].status =
                       IF n >= req[c].target THEN "DISPATCHED" ELSE "IN_PROGRESS"]
                /\ invoiceStatus' = [invoiceStatus EXCEPT ![i] = InvoiceStatusFor(i, n)]
           ELSE UNCHANGED <<serial, scans, dispatch, invoiceStatus>>
        /\ UNCHANGED <<returned, srn, srnScans, prebilled, short, activeWh>>

-----------------------------------------------------------------------------
(* completeDispatch.                                                       *)

LockForComplete(c, i) ==
    /\ dispatch[i] # None
    /\ ~DispatchLocked(i)
    /\ Begin(c, [Idle EXCEPT !.pc = "completing", !.inv = i, !.count = CountScans(i),
                             !.target = dispatch[i].target])
    /\ UNCHANGED rows

CompleteDispatch(c) ==
    LET i == req[c].inv
    IN  /\ req[c].pc = "completing"
        /\ dispatch' = [dispatch EXCEPT ![i].status = CompletionStatus(req[c].target, req[c].count)]
        /\ invoiceStatus' = [invoiceStatus EXCEPT ![i] = InvoiceStatusFor(i, req[c].count)]
        /\ Finish(c)
        /\ UNCHANGED <<stock, srn, srnScans, prebilled, short, activeWh>>

-----------------------------------------------------------------------------
(* Sales returns.                                                          *)

\* createSrn: the invoice must have a confirmed scan, and the declared quantity must
\* still be out.  A return need not name an invoice or a quantity.
CreateSrn(c, k, w, i, q, foreign) ==
    /\ ~InFlight(c)
    /\ srn[k] = None
    /\ w \in activeWh
    /\ i # None =>
         /\ Confirmed(i)
         /\ \E d \in scans \cup returned : d.line.inv = i
         /\ q # None => q <= CountScans(i)
    /\ srn' = [srn EXCEPT ![k] = [wh |-> w, inv |-> i, qty |-> q, foreign |-> foreign]]
    /\ UNCHANGED <<stock, invoiceStatus, dispatch, srnScans, prebilled, short, activeWh, req>>

ReconcilesAny(k, d) == TRUE   \* broken variant: the invoice of the SRN is not compared
Reconciles(k, d) == srn[k].inv \in {None, d.line.inv}

\* scanReturn up to hasReturnedSerial, under the lock on the SRN row.  orig is the line of
\* the dispatch scan that comes back, None when the unit is admitted as foreign stock.
LockForReturn(c, k, s, t) ==
    /\ srn[k] # None
    /\ srn[k].wh \in activeWh
    /\ ~SrnLocked(k)
    /\ srn[k].qty # None => Cardinality({x \in srnScans : x.srn = k}) < srn[k].qty
    /\ s \notin ReturnedSerials
    /\ \E orig \in Lines \cup {None} :
         /\ \/ \E d \in OriginalScans(s) : Reconciles(k, d) /\ orig = d.line
            \/ /\ \A d \in OriginalScans(s) : ~Reconciles(k, d)
               /\ srn[k].foreign
               /\ orig = None
         /\ Begin(c, [Idle EXCEPT !.pc = "returnLocked", !.srn = k, !.ser = s, !.tag = t,
                                  !.line = orig])
    /\ UNCHANGED rows

\* The scans reopenInvoice counts once the returned one is marked.
RecountTwice(s, line) == CountScans(line.inv) - 2   \* broken variant: the scan is taken off twice
Recount(s, line) == Cardinality(ScansOf(line.inv) \ {[ser |-> s, line |-> line]})

LifetimeUnchecked(s) == FALSE   \* broken variant: no unique index on srn_scan.serial_id
Duplicate(s) == s \in ReturnedSerials

\* insertScan waits for a rival on the unique index over serial_id; the uncommitted
\* writes then hold the serial row, and reopenInvoice counts the scans that stay.
InsertReturn(c) ==
    LET s == req[c].ser
        line == req[c].line
    IN  /\ req[c].pc = "returnLocked"
        /\ ~SerialLocked(s)
        /\ IF Duplicate(s)
           THEN EndTransaction(c)
           ELSE req' = [req EXCEPT ![c].pc = "returnInserted",
                                   ![c].count = IF line = None THEN 0 ELSE Recount(s, line)]
        /\ UNCHANGED rows

\* markScanReturned: the active scan the return was reconciled with.
NothingMarked(s, line) == {}   \* broken variant: the scan stays active
ScanMarked(s, line) == {d \in scans : d.ser = s /\ d.line = line}

\* reopenInvoice's write.
LeftAsItWas(line, n) == invoiceStatus   \* broken variant: the invoice is not reopened
Reopened(line, n) ==
    IF line = None THEN invoiceStatus
    ELSE [invoiceStatus EXCEPT ![line.inv] = InvoiceStatusFor(line.inv, n)]

\* COMMIT of the receipt, the tag, the soft return of the scan and the invoice status.
CommitReturn(c) ==
    LET k == req[c].srn
        s == req[c].ser
        line == req[c].line
        back == ScanMarked(s, line)
    IN  /\ req[c].pc = "returnInserted"
        /\ serial' = [serial EXCEPT ![s] =
               [status |-> "IN_STOCK", wh |-> srn[k].wh, tag |-> req[c].tag]]
        /\ srnScans' = srnScans \cup {[srn |-> k, ser |-> s, orig |-> line]}
        /\ scans' = scans \ back
        /\ returned' = returned \cup back
        /\ invoiceStatus' = Reopened(line, req[c].count)
        /\ Finish(c)
        /\ UNCHANGED <<dispatch, srn, prebilled, short, activeWh>>

\* correctConditionTag retags a serial whatever its status.
CorrectTag(c, s, t) ==
    /\ ~InFlight(c)
    /\ ~SerialLocked(s)
    /\ serial' = [serial EXCEPT ![s].tag = t]
    /\ UNCHANGED <<scans, returned, invoiceStatus, dispatch, srn, srnScans, prebilled,
                   short, activeWh, req>>

-----------------------------------------------------------------------------
(* Battery pre-billing: every check runs before the transaction.           *)

PreBilledOn(l) == {b \in prebilled : b.line = l}
NeverReached(l) == FALSE   \* broken variant: the commits of a line are not counted
CapReached(l) == Cardinality(PreBilledOn(l)) >= l.qty

CheckPreBilling(c, i, s) ==
    LET lines == {l \in LinesOf(i) : l.product = ProductOf[s] /\ l.product \in Batteries}
    IN  /\ serial[s].status # "DISPATCHED"
        /\ ~\E b \in prebilled : b.ser = s
        /\ \E line \in lines :
             /\ IsFirst(line, lines)
             /\ ~CapReached(line)
             /\ Begin(c, [Idle EXCEPT !.pc = "prebilling", !.ser = s, !.line = line])
        /\ UNCHANGED rows

\* insertCommit; UNIQUE (serial_id) rolls a second commit of the serial back.
CommitPreBilling(c) ==
    /\ req[c].pc = "prebilling"
    /\ prebilled' = IF \E b \in prebilled : b.ser = req[c].ser THEN prebilled
                    ELSE prebilled \cup {[ser |-> req[c].ser, line |-> req[c].line]}
    /\ Finish(c)
    /\ UNCHANGED <<stock, invoiceStatus, dispatch, srn, srnScans, short, activeWh>>

-----------------------------------------------------------------------------
(* Warehouse deactivation by an administrator.                             *)

NoneSaleable(w) == Available(w) = {}   \* broken variant: held units do not count
WarehouseEmpty(w) == \A s \in Serials : ~(serial[s].status = "IN_STOCK" /\ serial[s].wh = w)

CheckWarehouseEmpty(c, w) ==
    /\ w \in activeWh
    /\ WarehouseEmpty(w)
    /\ Begin(c, [Idle EXCEPT !.pc = "deactivating", !.wh = w])
    /\ UNCHANGED rows

DeactivateWarehouse(c) ==
    /\ req[c].pc = "deactivating"
    /\ activeWh' = activeWh \ {req[c].wh}
    /\ Finish(c)
    /\ UNCHANGED <<stock, invoiceStatus, dispatch, srn, srnScans, prebilled, short>>

ReactivateWarehouse(c, w) ==
    /\ ~InFlight(c)
    /\ activeWh' = activeWh \cup {w}
    /\ UNCHANGED <<stock, invoiceStatus, dispatch, srn, srnScans, prebilled, short, req>>

-----------------------------------------------------------------------------
\* The server or its connection dies: an open transaction rolls back, what autocommit
\* statements wrote stays.
Crash(c) == InFlight(c) /\ Finish(c) /\ UNCHANGED rows

\* The steps of a request that has begun.
Proceed(c) ==
    \/ FindDispatch(c) \/ CountForStart(c) \/ CountStock(c)
    \/ CreateDispatch(c) \/ RepointDispatch(c) \/ SetTarget(c) \/ ResumeDispatch(c)
    \/ SeekShort(c) \/ RaiseShort(c)
    \/ LockForScan(c) \/ PickLine(c) \/ CommitScan(c) \/ CompleteDispatch(c)
    \/ InsertReturn(c) \/ CommitReturn(c)
    \/ CommitPreBilling(c) \/ DeactivateWarehouse(c)

\* The first step of a request, which may be its only one.
Arrive(c) ==
    \/ \E i \in Invoices :
         \/ \E w \in Warehouses : StartDispatch(c, i, w)
         \/ \E s \in Serials : ValidateScan(c, i, s) \/ CheckPreBilling(c, i, s)
         \/ LockForComplete(c, i)
    \/ \E k \in Srns :
         \/ \E w \in Warehouses, i \in Invoices \cup {None}, q \in Quantities \cup {None},
              f \in ForeignAnswers : CreateSrn(c, k, w, i, q, f)
         \/ \E s \in Serials, t \in Tags : LockForReturn(c, k, s, t)
    \/ \E s \in Serials, t \in Corrections : CorrectTag(c, s, t)
    \/ \E w \in Closable : CheckWarehouseEmpty(c, w) \/ ReactivateWarehouse(c, w)

Next == \E c \in Clients : Arrive(c) \/ Proceed(c) \/ Crash(c)

Spec == Init /\ [][Next]_vars

\* PostgreSQL queues lock waiters in order, so a request that could take a lock again and
\* again is served; every other statement only needs the server to go on.
FairSpec == Spec /\ \A c \in Clients : SF_vars(Proceed(c))

-----------------------------------------------------------------------------
(* Types.                                                                  *)

Scan == [ser: Serials, line: Lines]
DispatchRow == [wh: Warehouses, target: Nat, status: DispatchStatuses]
SrnRow == [wh: Warehouses, inv: Invoices \cup {None}, qty: Nat \cup {None}, foreign: BOOLEAN]
SrnScan == [srn: Srns, ser: Serials, orig: Lines \cup {None}]
Request ==
    [pc: {"idle", "finding", "counting", "stocking", "creating", "repointing", "targeting", "resuming", "seekingShort",
          "raisingShort", "scanWaiting", "scanLocked", "scanLined", "completing",
          "returnLocked", "returnInserted", "prebilling", "deactivating"},
     inv: Invoices \cup {None}, wh: Warehouses \cup {None}, ser: Serials \cup {None},
     srn: Srns \cup {None}, tag: ConditionTags \cup {None}, line: Lines \cup {None},
     found: Warehouses \cup {None}, count: Nat, target: Nat]

\* Every row and every request keeps the shape the schema and the handlers give it; in
\* particular counts and targets never turn negative.
TypeOK ==
    /\ serial \in [Serials -> [status: Statuses, wh: Warehouses, tag: ConditionTags \cup {None}]]
    /\ invoiceStatus \in [Invoices -> {"PENDING", "PARTIALLY_DISPATCHED", "DISPATCHED"}]
    /\ dispatch \in [Invoices -> DispatchRow \cup {None}]
    /\ scans \subseteq Scan
    /\ returned \subseteq Scan
    /\ srn \in [Srns -> SrnRow \cup {None}]
    /\ srnScans \subseteq SrnScan
    /\ prebilled \subseteq Scan
    /\ short \in [Invoices -> Nat]
    /\ activeWh \subseteq Warehouses
    /\ req \in [Clients -> Request]

-----------------------------------------------------------------------------
(* What a request in flight may rely on.                                   *)

Starting == {"finding", "counting", "stocking", "creating", "repointing", "targeting",
             "resuming", "seekingShort", "raisingShort"}
Scanning == {"scanWaiting", "scanLocked", "scanLined"}
Returning == {"returnLocked", "returnInserted"}

\* The ids a handler has looked up stay valid until it uses them.
Grounded(c) ==
    /\ req[c].pc \in Starting => req[c].inv \in Invoices /\ req[c].wh \in Warehouses
    /\ req[c].pc \in {"counting", "stocking"} /\ req[c].found # None => dispatch[req[c].inv] # None
    /\ req[c].pc = "stocking" => req[c].count < Required(req[c].inv)
    /\ req[c].pc \in {"repointing", "targeting", "resuming"} => dispatch[req[c].inv] # None
    /\ req[c].pc \in Scanning => req[c].inv \in Invoices /\ req[c].ser \in Serials
    /\ req[c].pc = "completing" => req[c].inv \in Invoices
    /\ req[c].pc \in Scanning \cup {"completing"} => dispatch[req[c].inv] # None
    /\ req[c].pc = "scanLined" => req[c].line \in LinesOf(req[c].inv)
    /\ req[c].pc \in Returning => /\ req[c].srn \in Srns
                                  /\ req[c].ser \in Serials
                                  /\ req[c].tag \in ConditionTags
                                  /\ srn[req[c].srn] # None
    /\ req[c].pc = "prebilling" => req[c].ser \in Serials /\ req[c].line \in Lines
    /\ req[c].pc = "deactivating" => req[c].wh \in Warehouses

\* The return c is running, past its checks: the SRN it names still admits the unit, the
\* scan it was reconciled with is still out unless a rival has returned the unit since,
\* and past the insert no rival can.
ReturnGrounded(c) ==
    /\ req[c].line # None =>
         /\ srn[req[c].srn].inv \in {None, req[c].line.inv}
         /\ req[c].ser \notin ReturnedSerials => [ser |-> req[c].ser, line |-> req[c].line] \in scans
    /\ req[c].pc = "returnInserted" =>
         /\ req[c].ser \notin ReturnedSerials
         /\ \A e \in Clients : req[e].pc = "returnInserted" /\ req[e].ser = req[c].ser => e = c

ReturnsGrounded == \A c \in Clients : req[c].pc \in Returning => ReturnGrounded(c)

-----------------------------------------------------------------------------
(* Properties of concurrent requests.                                      *)

\* A serial is out exactly when one dispatch holds a scan of it that has not come back,
\* however dispatches and returns of the same unit interleave (V025: the compare-and-set
\* replaces the lifetime index).  Units admitted as foreign stock are left out, see
\* OneHolder.
SoldOnce ==
    \A s \in Serials \ Adopted :
        /\ serial[s].status = "DISPATCHED" <=> \E d \in scans : d.ser = s
        /\ \A d, e \in scans : d.ser = s /\ e.ser = s => d = e

\* Operators scanning the same invoice at once never ship more units of an invoice line
\* than it orders (lockById, countScansForLine).
NeverOverShipped == \A l \in Lines : CountScansForLine(l) <= l.qty

ReturnsMatched ==
    /\ \A x \in srnScans : x.orig # None =>
           /\ [ser |-> x.ser, line |-> x.orig] \in returned
           /\ srn[x.srn] # None
           /\ srn[x.srn].inv \in {None, x.orig.inv}
    /\ \A d \in returned : \E x \in srnScans : x.ser = d.ser /\ x.orig = d.line

\* Each accepted return of original stock has soft-returned exactly the scan it was
\* reconciled with, on the invoice its SRN names, and no scan comes back without one; what
\* a return in flight has read before its insert is still true when it writes.
ReturnsReconcile == ReturnsMatched /\ ReturnsGrounded

\* Two operators scanning one SRN never exceed the quantity declared on it (the SRN lock).
ReturnQuota ==
    \A k \in Srns : srn[k] # None /\ srn[k].qty # None =>
        Cardinality({x \in srnScans : x.srn = k}) <= srn[k].qty

\* A battery is only ever out on an invoice it was pre-billed for (findCommitForInvoice).
BatteryGate ==
    \A d \in scans : d.line.product \in Batteries =>
        \E b \in prebilled : b.ser = d.ser /\ b.line.inv = d.line.inv

\* The status an invoice has earned with the scans that are out on it.
ExactStatus(i) ==
    IF ScansOf(i) = {} THEN "PENDING"
    ELSE IF CountScans(i) = Required(i) THEN "DISPATCHED" ELSE "PARTIALLY_DISPATCHED"

\* However scans and completions of an invoice overlap or crash, its status is the one its
\* scans call for: both count and write under the lock on the dispatch row.  From the first
\* unit that comes back on, only while requests do not overlap (InvoiceStatusExact): a
\* return recounts outside that lock.  An upload of the invoice writes the status without
\* counting (adminRepository/invoices.js:105); it is not among the requests here.
StatusUntilReturn ==
    \A i \in Invoices : (\A d \in returned : d.line.inv # i) => invoiceStatus[i] = ExactStatus(i)

\* A shortage is reported once and a line is pre-billed for no more batteries than it orders,
\* but for one more of each per request that overlaps: both are looked up in one statement
\* and written in another (findOpenByContext, countCommitsForLine).
OvershootBounded ==
    /\ \A i \in Invoices : short[i] <= Cardinality(Clients)
    /\ \A l \in Lines : Cardinality(PreBilledOn(l)) < l.qty + Cardinality(Clients)

\* A unit stops being out only when a return of it is accepted, and that happens once in
\* its life (ux_srn_scan_serial_once).
BackOnlyByReturn ==
    [][\A s \in Serials : serial[s].status = "DISPATCHED" /\ serial'[s].status # "DISPATCHED"
          => s \in {x.ser : x \in srnScans'} \ ReturnedSerials]_vars

\* No request waits for ever: the rows are locked in the order dispatch or SRN, then
\* serial, so no two transactions wait for each other.
RequestsFinish == \A c \in Clients : InFlight(c) ~> ~InFlight(c)

\* Without foreign stock, the database is a ledger of units: each is in the house or out
\* on one invoice, no invoice is given more units than it orders, and a unit is taken
\* back at most once.  Every step of every request is a sale, a return or none of the two.
HolderOf(s) ==
    IF \E d \in scans : d.ser = s THEN (CHOOSE d \in scans : d.ser = s).line.inv ELSE None

Units == INSTANCE Ledger WITH
    House <- None,
    Capacity <- [i \in Invoices |-> Required(i)],
    holder <- [s \in Serials |-> HolderOf(s)],
    spent <- ReturnedSerials

ImplementsLedger == Units!Spec

-----------------------------------------------------------------------------
(* Properties the code keeps while requests do not overlap.                *)

\* invoice.status tells how much of the invoice is out, after dispatches, returns,
\* re-dispatches and crashed requests alike, unless an upload overwrites it
\* (adminRepository/invoices.js:105), which is not among the requests of this module.
InvoiceStatusExact == \A i \in Invoices : invoiceStatus[i] = ExactStatus(i)

\* A dispatch with scans stays with its warehouse.
WarehousePinned ==
    [][\A i \in Invoices : dispatch[i] # None /\ dispatch'[i].wh # dispatch[i].wh
          => ScansOf(i) = {}]_vars

\* A unit on condition hold is not dispatched.
HeldStays ==
    [][\A s \in Serials : serial[s].status # "DISPATCHED" /\ serial'[s].status = "DISPATCHED"
          => serial[s].tag \notin Held]_vars

\* A deactivated warehouse holds no unit in stock.
ClosedIsEmpty == \A s \in Serials : serial[s].status = "IN_STOCK" => serial[s].wh \in activeWh

\* No serial is actively dispatched on two dispatches (V025).
OneHolder == \A d, e \in scans : d.ser = e.ser => d = e
=============================================================================
