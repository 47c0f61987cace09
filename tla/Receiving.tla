------------------------------ MODULE Receiving ------------------------------
(***************************************************************************)
(* Goods receipt (IDM-02), the receipt scan of IDM-01 and warehouse        *)
(* transfers (IDM-05), as concurrent requests over one database.  Sales    *)
(* and returns, the subject of Fulfilment, appear as what they do to a     *)
(* serial.                                                                 *)
(*                                                                         *)
(* req[c].pc names the statement of client c's handler that runs next.     *)
(* The checks a handler makes before its transaction are one step, the     *)
(* transaction another; a refusal that writes nothing here is no step.     *)
(***************************************************************************)
EXTENDS Integers, FiniteSets, FiniteSetsExt

CONSTANTS
    Clients,
    Serials,
    Products,
    ProductOf,       \* [Serials -> Products]
    Warehouses,
    Active,          \* warehouses with is_active
    Docs,            \* references of dispatch documents
    Shipments,       \* factory documents: [doc, src, dst, sers]
    Invoices,        \* TRANSFER invoices
    Route,           \* [Invoices -> [src, dst]]
    Cap,             \* units of a product an invoice lets move: [Invoices -> [Products -> Nat]]
    Grns,            \* receipts that may be opened
    ReturnsAt,       \* warehouses where returns are tried
    ForeignReturns,  \* whether a return may take in a unit that was never sold
    None

Statuses == {"PRODUCED", "IN_TRANSIT", "IN_STOCK", "DISPATCHED"}
GrnStatuses == {"PENDING", "IN_PROGRESS", "EXCEPTION", "CLOSED"}
Routes == {r \in [src: Warehouses, dst: Warehouses] : r.src # r.dst}

ASSUME RegistryAssumption ==
    /\ IsFiniteSet(Serials)
    /\ ProductOf \in [Serials -> Products]
    /\ Active \subseteq Warehouses
    /\ ReturnsAt \subseteq Warehouses
    /\ ForeignReturns \in BOOLEAN
ASSUME ShipmentAssumption ==
    /\ Shipments \subseteq [doc: Docs, src: Warehouses, dst: Warehouses, sers: SUBSET Serials]
    /\ \A a, b \in Shipments : a.doc = b.doc => a = b
ASSUME InvoiceAssumption ==
    /\ Route \in [Invoices -> Routes]
    /\ Cap \in [Invoices -> [Products -> Nat]]
ASSUME NoneAssumption ==
    /\ None \notin Docs /\ None \notin Grns /\ None \notin Invoices
    /\ None \notin Warehouses /\ None \notin Serials
    /\ None \notin [src: Warehouses, dst: Warehouses, inv: Invoices \cup {None}]
    /\ None \notin [wh: Warehouses, doc: Docs \cup {None}, status: GrnStatuses]

VARIABLES
    serial,     \* serial_master: status and warehouse
    doc,        \* sap_dispatch_doc rows by reference, None before they exist
    lines,      \* sap_dispatch_line rows: [doc, ser]
    grn,        \* grn rows, None before they exist
    grnScans,   \* grn_scan rows: [grn, ser, match]
    returned,   \* serials with a srn_scan row
    req

vars == <<serial, doc, lines, grn, grnScans, returned, req>>
papers == <<doc, lines, grn, grnScans>>
rows == <<serial, papers, returned>>

Idle == [pc |-> "idle", doc |-> None, wh |-> None, ser |-> None, grn |-> None, inv |-> None,
         bound |-> FALSE]

Begin(c, r) == req[c].pc = "idle" /\ req' = [req EXCEPT ![c] = r]
Finish(c) == req' = [req EXCEPT ![c] = Idle]

Linked == {l.ser : l \in lines}
ProductsOn(d) == {ProductOf[l.ser] : l \in {x \in lines : x.doc = d}}
CountLines(d, p) == Cardinality({l \in lines : l.doc = d /\ ProductOf[l.ser] = p})

\* The lifetime unique index on MATCHED receipts (V024).
NoLifetimeIndex(s) == FALSE   \* broken variant: there is no such index
Received(s) == \E x \in grnScans : x.ser = s /\ x.match = "MATCHED"

NoDocLock(d) == FALSE    \* broken variant: the document is read without FOR UPDATE
DocLocked(d) == \E c \in Clients : req[c].pc = "transferCounted" /\ req[c].doc = d

-----------------------------------------------------------------------------
(* Factory documents are in the registry and their units on the way.  A    *)
(* unit on no document is still at the plant.                              *)

Init ==
    /\ doc = [d \in Docs |->
          IF \E a \in Shipments : a.doc = d
          THEN LET a == CHOOSE x \in Shipments : x.doc = d
               IN  [src |-> a.src, dst |-> a.dst, inv |-> None]
          ELSE None]
    /\ lines = UNION {{[doc |-> a.doc, ser |-> s] : s \in a.sers} : a \in Shipments}
    /\ serial \in [Serials -> [status: {"PRODUCED", "IN_TRANSIT"}, wh: Warehouses]]
    /\ \A s \in Serials : (serial[s].status = "IN_TRANSIT") <=> (s \in Linked)
    /\ \A s \in Serials : \A a \in Shipments : serial[s].wh = a.src
    /\ grn = [g \in Grns |-> None]
    /\ grnScans = {}
    /\ returned = {}
    /\ req = [c \in Clients |-> Idle]

-----------------------------------------------------------------------------
(* Goods receipt.                                                          *)

\* startGrn without a reference.
StartLooseGrn(c, g, w) ==
    /\ req[c].pc = "idle"
    /\ grn[g] = None
    /\ w \in Active
    /\ grn' = [grn EXCEPT ![g] = [wh |-> w, doc |-> None, status |-> "PENDING"]]
    /\ UNCHANGED <<serial, doc, lines, grnScans, returned, req>>

GrnsOf(d) == {g \in Grns : grn[g] # None /\ grn[g].doc = d}

\* startGrn with a reference: the document is bound for this warehouse and no receipt of it is closed.
StartGrn(c, d, w) ==
    /\ w \in Active
    /\ doc[d] # None
    /\ doc[d].dst = w
    /\ \A g \in GrnsOf(d) : grn[g].status # "CLOSED"
    /\ Begin(c, [Idle EXCEPT !.pc = "grnSeeking", !.doc = d, !.wh = w])
    /\ UNCHANGED rows

\* findOpenByDoc: a receipt in flight is handed out again.
SeekOpenGrn(c) ==
    /\ req[c].pc = "grnSeeking"
    /\ IF \E g \in GrnsOf(req[c].doc) : grn[g].wh = req[c].wh /\ grn[g].status # "CLOSED"
       THEN Finish(c)
       ELSE req' = [req EXCEPT ![c].pc = "grnCreating"]
    /\ UNCHANGED rows

CreateGrn(c, g) ==
    /\ req[c].pc = "grnCreating"
    /\ grn[g] = None
    /\ grn' = [grn EXCEPT ![g] = [wh |-> req[c].wh, doc |-> req[c].doc, status |-> "PENDING"]]
    /\ Finish(c)
    /\ UNCHANGED <<serial, doc, lines, grnScans, returned>>

\* scanSerial up to its transaction; validateSerial compares no warehouse here.
ValidateReceipt(c, g, s) ==
    /\ grn[g] # None
    /\ grn[g].wh \in Active
    /\ serial[s].status \notin {"DISPATCHED", "IN_STOCK"}
    /\ Begin(c, [Idle EXCEPT !.pc = "receiptWaiting", !.grn = g, !.ser = s])
    /\ UNCHANGED rows

\* A receipt of a document expects its products, a loose one the units sent to its warehouse.
Expected(g, s) ==
    IF grn[g].doc # None
    THEN ProductOf[s] \in ProductsOn(grn[g].doc)
    ELSE \E l \in lines : l.ser = s /\ doc[l.doc].dst = grn[g].wh

\* insertScan and updateReceipt of a matched unit.
TakeIn(g, w, s) ==
    /\ grnScans' = grnScans \cup {[grn |-> g, ser |-> s, match |-> "MATCHED"]}
    /\ serial' = [serial EXCEPT ![s] = [status |-> "IN_STOCK", wh |-> w]]

\* The transaction of scanSerial; whatever the receipt's status was, it is IN_PROGRESS again.
CommitReceipt(c) ==
    LET g == req[c].grn
        s == req[c].ser
    IN  /\ req[c].pc = "receiptWaiting"
        /\ Finish(c)
        /\ \/ /\ \E x \in grnScans : x.grn = g /\ x.ser = s
              /\ UNCHANGED <<serial, grn, grnScans>>
           \/ /\ ~\E x \in grnScans : x.grn = g /\ x.ser = s
              /\ ~Expected(g, s)
              /\ grnScans' = grnScans \cup {[grn |-> g, ser |-> s, match |-> "REFUSED"]}
              /\ grn' = [grn EXCEPT ![g].status = "EXCEPTION"]
              /\ UNCHANGED serial
           \/ /\ Expected(g, s)
              /\ Received(s)
              /\ UNCHANGED <<serial, grn, grnScans>>
           \/ /\ ~\E x \in grnScans : x.grn = g /\ x.ser = s
              /\ Expected(g, s)
              /\ ~Received(s)
              /\ TakeIn(g, grn[g].wh, s)
              /\ grn' = [grn EXCEPT ![g].status = "IN_PROGRESS"]
        /\ UNCHANGED <<doc, lines, returned>>

CompleteGrn(c, g) ==
    /\ req[c].pc = "idle"
    /\ grn[g] # None
    /\ grn' = [grn EXCEPT ![g].status = "CLOSED"]
    /\ UNCHANGED <<serial, doc, lines, grnScans, returned, req>>

-----------------------------------------------------------------------------
(* The receipt scan of IDM-01.                                             *)

\* findBySerialId: a unit on several documents is ambiguous.
SoleDoc(s, d) == {l.doc : l \in {x \in lines : x.ser = s}} = {d}

BoundFor(d, w) == doc[d].dst = w

\* scanReceipt up to its transaction, which goes on with the destination read here.
ReadReceipt(c, s, w) ==
    /\ serial[s].status # "IN_STOCK"
    /\ \E d \in Docs :
         /\ SoleDoc(s, d)
         /\ Begin(c, [Idle EXCEPT !.pc = "receiptRead", !.doc = d, !.ser = s, !.wh = w,
                                 !.bound = BoundFor(d, w)])
    /\ UNCHANGED rows

\* Its transaction opens a receipt of the document for this one unit.
CommitReadReceipt(c, g) ==
    LET d == req[c].doc
        s == req[c].ser
        w == req[c].wh
        open(status) == grn' = [grn EXCEPT ![g] = [wh |-> w, doc |-> d, status |-> status]]
    IN  /\ req[c].pc = "receiptRead"
        /\ grn[g] = None
        /\ Finish(c)
        /\ \/ /\ ~req[c].bound
              /\ open("EXCEPTION")
              /\ UNCHANGED <<serial, grnScans>>
           \/ /\ req[c].bound
              /\ Received(s)
              /\ open("PENDING")
              /\ UNCHANGED <<serial, grnScans>>
           \/ /\ req[c].bound
              /\ ~Received(s)
              /\ open("IN_PROGRESS")
              /\ TakeIn(g, w, s)
        /\ UNCHANGED <<doc, lines, returned>>

-----------------------------------------------------------------------------
(* Warehouse transfer.                                                     *)

SameRoute(d, i) == doc[d].src = Route[i].src /\ doc[d].dst = Route[i].dst

\* startTransfer up to findDocByRef.
StartTransfer(c, d, i) ==
    /\ {Route[i].src, Route[i].dst} \subseteq Active
    /\ doc[d] # None => SameRoute(d, i)
    /\ Begin(c, [Idle EXCEPT !.pc = "docWriting", !.doc = d, !.inv = i])
    /\ UNCHANGED rows

WrongColumn(i) == [src |-> Route[i].dst, dst |-> Route[i].dst, inv |-> i]   \* broken variant: one end written twice
DocFor(i) == [src |-> Route[i].src, dst |-> Route[i].dst, inv |-> i]

\* upsertDoc: a reference in use gets the new route and invoice.
UpsertDoc(c) ==
    /\ req[c].pc = "docWriting"
    /\ ~DocLocked(req[c].doc)
    /\ doc' = [doc EXCEPT ![req[c].doc] = DocFor(req[c].inv)]
    /\ Finish(c)
    /\ UNCHANGED <<serial, lines, grn, grnScans, returned>>

\* scanSerial up to its transaction.  A document without an invoice moves anything.
ValidateTransfer(c, d, s) ==
    /\ doc[d] # None
    /\ doc[d].src \in Active
    /\ serial[s] = [status |-> "IN_STOCK", wh |-> doc[d].src]
    /\ Begin(c, [Idle EXCEPT !.pc = "transferWaiting", !.doc = d, !.ser = s, !.inv = doc[d].inv])
    /\ UNCHANGED rows

\* The cap comes from the invoice read before the lock, the count is made under it.
HasRoom(d, i, p) == i = None \/ CountLines(d, p) < Cap[i][p]
LockForTransfer(c) ==
    LET r == req[c]
    IN  /\ r.pc = "transferWaiting"
        /\ ~DocLocked(r.doc)
        /\ IF HasRoom(r.doc, r.inv, ProductOf[r.ser])
           THEN req' = [req EXCEPT ![c].pc = "transferCounted"]
           ELSE Finish(c)
        /\ UNCHANGED rows

StillInStock(s) == serial[s].status = "IN_STOCK"

\* updateStatusIfCurrent and insertLine.  The refusal of a unit already on the document
\* returns, and so commits the status.
CommitTransfer(c) ==
    LET d == req[c].doc
        s == req[c].ser
    IN  /\ req[c].pc = "transferCounted"
        /\ Finish(c)
        /\ IF StillInStock(s)
           THEN /\ serial' = [serial EXCEPT ![s].status = "IN_TRANSIT"]
                /\ lines' = lines \cup {[doc |-> d, ser |-> s]}
           ELSE UNCHANGED <<serial, lines>>
        /\ UNCHANGED <<doc, grn, grnScans, returned>>

-----------------------------------------------------------------------------
(* The rest of the house, and failures.                                    *)

\* A customer dispatch compares and sets the status.
Sell(s) ==
    /\ serial[s].status = "IN_STOCK"
    /\ serial' = [serial EXCEPT ![s].status = "DISPATCHED"]
    /\ UNCHANGED <<papers, returned, req>>

\* A sales return takes a unit in once; as foreign stock, wherever the registry has it.
TakeBack(s, w) ==
    /\ w \in Active
    /\ s \notin returned
    /\ serial[s].status = "DISPATCHED" \/ ForeignReturns
    /\ serial' = [serial EXCEPT ![s] = [status |-> "IN_STOCK", wh |-> w]]
    /\ returned' = returned \cup {s}
    /\ UNCHANGED <<papers, req>>

\* The server stops a request: what it committed stays, its transaction rolls back.
Crash(c) ==
    /\ req[c].pc # "idle"
    /\ Finish(c)
    /\ UNCHANGED rows

Request(c) ==
    \/ \E g \in Grns, w \in Warehouses : StartLooseGrn(c, g, w)
    \/ \E d \in Docs, w \in Warehouses : StartGrn(c, d, w)
    \/ \E g \in Grns, s \in Serials : ValidateReceipt(c, g, s)
    \/ \E g \in Grns : CompleteGrn(c, g)
    \/ \E s \in Serials, w \in Warehouses : ReadReceipt(c, s, w)
    \/ \E d \in Docs, i \in Invoices : StartTransfer(c, d, i)
    \/ \E d \in Docs, s \in Serials : ValidateTransfer(c, d, s)

Step(c) ==
    \/ SeekOpenGrn(c)
    \/ \E g \in Grns : CreateGrn(c, g)
    \/ CommitReceipt(c)
    \/ \E g \in Grns : CommitReadReceipt(c, g)
    \/ UpsertDoc(c)
    \/ LockForTransfer(c)
    \/ CommitTransfer(c)

Next ==
    \/ \E c \in Clients : Request(c) \/ Step(c) \/ Crash(c)
    \/ \E s \in Serials : Sell(s) \/ \E w \in ReturnsAt : TakeBack(s, w)

Spec == Init /\ [][Next]_vars

-----------------------------------------------------------------------------
(* Properties.                                                             *)

DocRows == [src: Warehouses, dst: Warehouses, inv: Invoices \cup {None}]
GrnRows == [wh: Warehouses, doc: Docs \cup {None}, status: GrnStatuses]
ReqRows ==
    [pc: {"idle", "grnSeeking", "grnCreating", "receiptWaiting", "receiptRead", "docWriting",
          "transferWaiting", "transferCounted"},
     doc: Docs \cup {None}, wh: Warehouses \cup {None}, ser: Serials \cup {None},
     grn: Grns \cup {None}, inv: Invoices \cup {None}, bound: BOOLEAN]

\* Every row has the type of its table; what a transfer invoice gates does not ship from a
\* warehouse to itself (V030), though an import may name the plant as destination.
TypeOK ==
    /\ serial \in [Serials -> [status: Statuses, wh: Warehouses]]
    /\ doc \in [Docs -> DocRows \cup {None}]
    /\ \A d \in Docs : doc[d] # None /\ doc[d].inv # None => doc[d].src # doc[d].dst
    /\ lines \subseteq [doc: Docs, ser: Serials]
    /\ grn \in [Grns -> GrnRows \cup {None}]
    /\ grnScans \subseteq [grn: Grns, ser: Serials, match: {"MATCHED", "REFUSED"}]
    /\ returned \subseteq Serials
    /\ req \in [Clients -> ReqRows]

\* Concurrent scans never move more units of a product on one document than an invoice that can
\* gate the document allows (the count under the document lock, warehouseTransferService.js).
TransferWithinInvoice ==
    \A d \in Docs, p \in Products :
        (doc[d] # None /\ doc[d].inv # None) =>
            \/ \E i \in Invoices : SameRoute(d, i) /\ CountLines(d, p) <= Cap[i][p]
            \/ \E a \in Shipments : a.doc = d

\* The handshake of grnService.js:351-353: what is taken in was sent to the warehouse that takes it
\* in, or at least something of its product was.
ReceiptsWereExpected ==
    \A x \in grnScans : x.match = "MATCHED" =>
        \E d \in Docs : /\ doc[d] # None
                        /\ doc[d].dst = grn[x.grn].wh
                        /\ ProductOf[x.ser] \in ProductsOn(d)

PlaceOf(s) ==
    CASE serial[s].status = "IN_STOCK" -> "house"
      [] serial[s].status = "DISPATCHED" -> "sold"
      [] serial[s].status \in {"PRODUCED", "IN_TRANSIT"} ->
             IF Received(s) \/ s \in returned THEN "moving" ELSE "inbound"
custody == INSTANCE Custody WITH
    place <- [s \in Serials |-> PlaceOf(s)],
    arrived <- {s \in Serials : Received(s)},
    back <- returned

\* Each unit has the life Custody allows: receipts, which write without comparing what they read,
\* never bring back a unit that has left, because a unit is matched once in its life.
ImplementsCustody == custody!Spec

\* "The destination warehouse receives it with the existing GRN flow" (warehouseTransferService.js:9):
\* what is in transit has not used up its one receipt.
TransfersCanArrive ==
    \A s \in Serials : serial[s].status = "IN_TRANSIT" => ~Received(s)
=============================================================================
