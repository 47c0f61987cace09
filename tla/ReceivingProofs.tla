--------------------------- MODULE ReceivingProofs ---------------------------
(***************************************************************************)
(* Proofs about Receiving, for every number of clients, units, documents,  *)
(* receipts and invoices: its types, how much a document moves, and that   *)
(* it implements Custody.                                                  *)
(***************************************************************************)
EXTENDS Receiving, FiniteSetTheorems, TLAPS

-----------------------------------------------------------------------------
(* Types.  A handler keeps ids it has looked up in its request and writes  *)
(* them into rows, so types are inductive with what each request carries.  *)

Grounded(c) ==
    /\ req[c].pc \in {"grnSeeking", "grnCreating", "receiptRead", "docWriting",
                      "transferWaiting", "transferCounted"} => req[c].doc \in Docs
    /\ req[c].pc \in {"grnSeeking", "grnCreating", "receiptRead"} => req[c].wh \in Warehouses
    /\ req[c].pc \in {"receiptWaiting", "receiptRead", "transferWaiting", "transferCounted"}
         => req[c].ser \in Serials
    /\ req[c].pc = "receiptWaiting" => req[c].grn \in Grns /\ grn[req[c].grn] # None
    /\ req[c].pc = "docWriting" => req[c].inv \in Invoices

IndType ==
    /\ TypeOK
    /\ \A c \in Clients : Grounded(c)

\* A step that gives one request the record r, keeps the types of the rows and deletes no
\* receipt.
LEMMA StepKeepsTypes ==
    ASSUME IndType, NEW c \in Clients, NEW r \in ReqRows, req' = [req EXCEPT ![c] = r],
           serial' \in [Serials -> [status: Statuses, wh: Warehouses]],
           doc' \in [Docs -> DocRows \cup {None}],
           \A d \in Docs : doc'[d] # None /\ doc'[d].inv # None => doc'[d].src # doc'[d].dst,
           lines' \subseteq [doc: Docs, ser: Serials],
           grn' \in [Grns -> GrnRows \cup {None}],
           grnScans' \subseteq [grn: Grns, ser: Serials, match: {"MATCHED", "REFUSED"}],
           returned' \subseteq Serials,
           \A g \in Grns : grn[g] # None => grn'[g] # None,
           Grounded(c)'
    PROVE  IndType'
<1>1. TypeOK'
  BY DEF IndType, TypeOK
<1>2. ASSUME NEW e \in Clients PROVE Grounded(e)'
  <2>1. CASE e # c
    BY <2>1 DEF IndType, TypeOK, Grounded
  <2>2. QED
    BY <2>1
<1>3. QED
  BY <1>1, <1>2 DEF IndType

LEMMA IdleRequest == Idle \in ReqRows /\ Idle.pc = "idle"
BY DEF Idle, ReqRows

LEMMA FinishedIsGrounded ==
    ASSUME IndType, NEW c \in Clients, Finish(c)
    PROVE  Grounded(c)'
BY IdleRequest DEF Finish, Grounded, IndType, TypeOK

\* Requests that change no row.
LEMMA RequestKeepsTypes ==
    ASSUME IndType, NEW c \in Clients, NEW r \in ReqRows, req' = [req EXCEPT ![c] = r],
           UNCHANGED rows, Grounded(c)'
    PROVE  IndType'
BY StepKeepsTypes DEF IndType, TypeOK, rows, papers

LEMMA TypeInit == Init => IndType
<1> SUFFICES ASSUME Init PROVE IndType
  OBVIOUS
<1>1. \A c \in Clients : req[c] = Idle
  BY DEF Init
<1>2. \A c \in Clients : Grounded(c)
  BY <1>1, IdleRequest DEF Grounded
<1>3. ASSUME NEW d \in Docs
      PROVE  doc[d] \in DocRows \cup {None} /\ (doc[d] # None => doc[d].inv = None)
  <2>1. CASE \E a \in Shipments : a.doc = d
    <3>1. PICK a \in Shipments : doc[d] = [src |-> a.src, dst |-> a.dst, inv |-> None]
      <4> DEFINE a == CHOOSE x \in Shipments : x.doc = d
      <4>1. a \in Shipments
        BY <2>1
      <4>2. doc[d] = [src |-> a.src, dst |-> a.dst, inv |-> None]
        BY <2>1 DEF Init
      <4> HIDE DEF a
      <4>3. QED
        BY <4>1, <4>2
    <3>2. QED
      BY <3>1, ShipmentAssumption DEF DocRows
  <2>2. CASE ~\E a \in Shipments : a.doc = d
    BY <2>2 DEF Init
  <2>3. QED
    BY <2>1, <2>2
<1>4. doc \in [Docs -> DocRows \cup {None}]
  <2>1. doc = [d \in Docs |-> doc[d]]
    BY DEF Init
  <2>2. QED
    BY <1>3, <2>1
<1>5. lines \subseteq [doc: Docs, ser: Serials]
  BY ShipmentAssumption DEF Init
<1>6. /\ serial \in [Serials -> [status: Statuses, wh: Warehouses]]
      /\ grn \in [Grns -> GrnRows \cup {None}] /\ grnScans = {} /\ returned = {}
      /\ req \in [Clients -> ReqRows]
  BY IdleRequest DEF Init, Statuses
<1>7. QED
  BY <1>2, <1>3, <1>4, <1>5, <1>6 DEF IndType, TypeOK

LEMMA RequestTypes ==
    ASSUME IndType, NEW c \in Clients, Request(c)
    PROVE  IndType'
<1>1. ASSUME NEW r \in ReqRows, Begin(c, r), UNCHANGED rows,
             r.pc \in {"grnSeeking", "receiptRead", "docWriting", "transferWaiting"}
               => r.doc \in Docs,
             r.pc \in {"grnSeeking", "receiptRead"} => r.wh \in Warehouses,
             r.pc \in {"receiptWaiting", "receiptRead", "transferWaiting"} => r.ser \in Serials,
             r.pc = "receiptWaiting" => r.grn \in Grns /\ grn[r.grn] # None,
             r.pc = "docWriting" => r.inv \in Invoices,
             r.pc \notin {"grnCreating", "transferCounted"}
      PROVE  IndType'
  <2>1. Grounded(c)'
    BY <1>1 DEF Begin, Grounded, IndType, TypeOK, rows, papers
  <2>2. QED
    BY <1>1, <2>1, RequestKeepsTypes DEF Begin
<1>2. ASSUME UNCHANGED <<serial, doc, lines, grnScans, returned, req>>,
             grn' \in [Grns -> GrnRows \cup {None}], \A g \in Grns : grn[g] # None => grn'[g] # None
      PROVE  IndType'
  BY <1>2 DEF IndType, TypeOK, Grounded
<1>3. ASSUME NEW g \in Grns, NEW w \in Warehouses, StartLooseGrn(c, g, w) PROVE IndType'
  <2>1. [wh |-> w, doc |-> None, status |-> "PENDING"] \in GrnRows
    BY DEF GrnRows, GrnStatuses
  <2>2. QED
    BY <1>2, <1>3, <2>1, NoneAssumption DEF StartLooseGrn, IndType, TypeOK, GrnRows
<1>4. ASSUME NEW d \in Docs, NEW w \in Warehouses, StartGrn(c, d, w) PROVE IndType'
  <2> DEFINE r == [Idle EXCEPT !.pc = "grnSeeking", !.doc = d, !.wh = w]
  <2>1. r \in ReqRows /\ r.pc = "grnSeeking" /\ r.doc = d /\ r.wh = w
    BY DEF Idle, ReqRows
  <2>2. Begin(c, r) /\ UNCHANGED rows
    BY <1>4 DEF StartGrn
  <2> HIDE DEF r
  <2>3. QED
    BY <1>1, <2>1, <2>2
<1>5. ASSUME NEW g \in Grns, NEW s \in Serials, ValidateReceipt(c, g, s) PROVE IndType'
  <2> DEFINE r == [Idle EXCEPT !.pc = "receiptWaiting", !.grn = g, !.ser = s]
  <2>1. r \in ReqRows /\ r.pc = "receiptWaiting" /\ r.grn = g /\ r.ser = s
    BY DEF Idle, ReqRows
  <2>2. Begin(c, r) /\ UNCHANGED rows /\ grn[g] # None
    BY <1>5 DEF ValidateReceipt
  <2> HIDE DEF r
  <2>3. QED
    BY <1>1, <2>1, <2>2
<1>6. ASSUME NEW g \in Grns, CompleteGrn(c, g) PROVE IndType'
  <2>1. [grn[g] EXCEPT !.status = "CLOSED"] \in GrnRows
    BY <1>6 DEF CompleteGrn, GrnRows, GrnStatuses, IndType, TypeOK
  <2>2. grn' = [grn EXCEPT ![g] = [grn[g] EXCEPT !.status = "CLOSED"]]
    BY <1>6 DEF CompleteGrn
  <2>3. QED
    BY <1>2, <1>6, <2>1, <2>2, NoneAssumption DEF CompleteGrn, IndType, TypeOK, GrnRows
<1>7. ASSUME NEW s \in Serials, NEW w \in Warehouses, ReadReceipt(c, s, w) PROVE IndType'
  <2> DEFINE r(d) == [Idle EXCEPT !.pc = "receiptRead", !.doc = d, !.ser = s, !.wh = w,
                          !.bound = BoundFor(d, w)]
  <2>1. PICK d \in Docs : Begin(c, r(d)) /\ UNCHANGED rows
    BY <1>7 DEF ReadReceipt
  <2>2. r(d) \in ReqRows /\ r(d).pc = "receiptRead" /\ r(d).doc = d /\ r(d).ser = s /\ r(d).wh = w
    BY DEF Idle, ReqRows, BoundFor
  <2> HIDE DEF r
  <2>3. QED
    BY <1>1, <2>1, <2>2
<1>8. ASSUME NEW d \in Docs, NEW i \in Invoices, StartTransfer(c, d, i) PROVE IndType'
  <2> DEFINE r == [Idle EXCEPT !.pc = "docWriting", !.doc = d, !.inv = i]
  <2>1. r \in ReqRows /\ r.pc = "docWriting" /\ r.doc = d /\ r.inv = i
    BY DEF Idle, ReqRows
  <2>2. Begin(c, r) /\ UNCHANGED rows
    BY <1>8 DEF StartTransfer
  <2> HIDE DEF r
  <2>3. QED
    BY <1>1, <2>1, <2>2
<1>9. ASSUME NEW d \in Docs, NEW s \in Serials, ValidateTransfer(c, d, s) PROVE IndType'
  <2> DEFINE r == [Idle EXCEPT !.pc = "transferWaiting", !.doc = d, !.ser = s, !.inv = doc[d].inv]
  <2>1. doc[d].inv \in Invoices \cup {None}
    BY <1>9 DEF ValidateTransfer, IndType, TypeOK, DocRows
  <2>2. r \in ReqRows /\ r.pc = "transferWaiting" /\ r.doc = d /\ r.ser = s
    BY <2>1 DEF Idle, ReqRows
  <2>3. Begin(c, r) /\ UNCHANGED rows
    BY <1>9 DEF ValidateTransfer
  <2> HIDE DEF r
  <2>4. QED
    BY <1>1, <2>2, <2>3
<1>10. QED
  BY <1>3, <1>4, <1>5, <1>6, <1>7, <1>8, <1>9 DEF Request

LEMMA StepTypes ==
    ASSUME IndType, NEW c \in Clients, Step(c) \/ Crash(c)
    PROVE  IndType'
<1>1. ASSUME Finish(c), UNCHANGED rows PROVE IndType'
  BY <1>1, IdleRequest, FinishedIsGrounded, RequestKeepsTypes DEF Finish
<1>2. ASSUME NEW pc \in {"grnCreating", "transferCounted"}, UNCHANGED rows,
             req' = [req EXCEPT ![c].pc = pc],
             req[c].pc = (IF pc = "grnCreating" THEN "grnSeeking" ELSE "transferWaiting")
      PROVE  IndType'
  <2> DEFINE r == [req[c] EXCEPT !.pc = pc]
  <2>1. r \in ReqRows /\ req' = [req EXCEPT ![c] = r]
    BY <1>2 DEF IndType, TypeOK, ReqRows
  <2>2. Grounded(c)
    BY DEF IndType
  <2>3. Grounded(c)'
    BY <1>2, <2>1, <2>2 DEF Grounded, IndType, TypeOK, ReqRows
  <2> HIDE DEF r
  <2>4. QED
    BY <1>2, <2>1, <2>3, RequestKeepsTypes
<1>3. CASE SeekOpenGrn(c)
  BY <1>1, <1>2, <1>3 DEF SeekOpenGrn
<1>4. CASE LockForTransfer(c)
  BY <1>1, <1>2, <1>4 DEF LockForTransfer
<1>5. ASSUME NEW g \in Grns, CreateGrn(c, g) PROVE IndType'
  <2>1. [wh |-> req[c].wh, doc |-> req[c].doc, status |-> "PENDING"] \in GrnRows
    BY <1>5 DEF CreateGrn, GrnRows, GrnStatuses, IndType, Grounded
  <2>2. grn' \in [Grns -> GrnRows \cup {None}] /\ \A h \in Grns : grn[h] # None => grn'[h] # None
    BY <1>5, <2>1, NoneAssumption DEF CreateGrn, IndType, TypeOK, GrnRows
  <2>3. QED
    BY <1>5, <2>2, IdleRequest, FinishedIsGrounded, StepKeepsTypes DEF CreateGrn, Finish, IndType, TypeOK
<1>6. CASE CommitReceipt(c)
  <2>1. /\ req[c].grn \in Grns /\ grn[req[c].grn] \in GrnRows /\ req[c].ser \in Serials
        /\ Finish(c)
    BY <1>6 DEF CommitReceipt, IndType, TypeOK, Grounded
  <2>2. /\ serial' \in [Serials -> [status: Statuses, wh: Warehouses]]
        /\ grnScans' \subseteq [grn: Grns, ser: Serials, match: {"MATCHED", "REFUSED"}]
    BY <1>6, <2>1 DEF CommitReceipt, TakeIn, GrnRows, Statuses, IndType, TypeOK
  <2>3. ASSUME NEW status \in GrnStatuses, grn' = [grn EXCEPT ![req[c].grn].status = status]
        PROVE  grn' \in [Grns -> GrnRows \cup {None}] /\ \A h \in Grns : grn[h] # None => grn'[h] # None
    <3>1. [grn[req[c].grn] EXCEPT !.status = status] \in GrnRows
      BY <2>1 DEF GrnRows
    <3>2. grn' = [grn EXCEPT ![req[c].grn] = [grn[req[c].grn] EXCEPT !.status = status]]
      BY <2>3
    <3>3. QED
      BY <2>1, <3>1, <3>2, NoneAssumption DEF IndType, TypeOK, GrnRows
  <2>4. grn' \in [Grns -> GrnRows \cup {None}] /\ \A h \in Grns : grn[h] # None => grn'[h] # None
    BY <1>6, <2>3 DEF CommitReceipt, GrnStatuses, IndType, TypeOK
  <2>5. QED
    BY <1>6, <2>1, <2>2, <2>4, IdleRequest, FinishedIsGrounded, StepKeepsTypes
    DEF CommitReceipt, Finish, IndType, TypeOK
<1>7. ASSUME NEW g \in Grns, CommitReadReceipt(c, g) PROVE IndType'
  <2>1. req[c].doc \in Docs /\ req[c].ser \in Serials /\ req[c].wh \in Warehouses /\ Finish(c)
    BY <1>7 DEF CommitReadReceipt, IndType, Grounded
  <2>2. /\ serial' \in [Serials -> [status: Statuses, wh: Warehouses]]
        /\ grnScans' \subseteq [grn: Grns, ser: Serials, match: {"MATCHED", "REFUSED"}]
    BY <1>7, <2>1 DEF CommitReadReceipt, TakeIn, Statuses, IndType, TypeOK
  <2>3. PICK status \in GrnStatuses :
          grn' = [grn EXCEPT ![g] = [wh |-> req[c].wh, doc |-> req[c].doc, status |-> status]]
    BY <1>7 DEF CommitReadReceipt, GrnStatuses
  <2>4. [wh |-> req[c].wh, doc |-> req[c].doc, status |-> status] \in GrnRows
    BY <2>1 DEF GrnRows
  <2>5. grn' \in [Grns -> GrnRows \cup {None}] /\ \A h \in Grns : grn[h] # None => grn'[h] # None
    BY <2>3, <2>4, NoneAssumption DEF IndType, TypeOK, GrnRows
  <2>6. QED
    BY <1>7, <2>1, <2>2, <2>5, IdleRequest, FinishedIsGrounded, StepKeepsTypes
    DEF CommitReadReceipt, Finish, IndType, TypeOK
<1>8. CASE UpsertDoc(c)
  <2>1. req[c].doc \in Docs /\ Finish(c)
    BY <1>8 DEF UpsertDoc, IndType, Grounded
  <2>2. PICK i \in Invoices : i = req[c].inv
    BY <1>8 DEF UpsertDoc, IndType, Grounded
  <2>3. DocFor(i) \in DocRows /\ DocFor(i).src # DocFor(i).dst
    BY InvoiceAssumption DEF DocFor, DocRows, Routes
  <2>4. doc' = [doc EXCEPT ![req[c].doc] = DocFor(i)]
    BY <1>8, <2>2 DEF UpsertDoc
  <2>5. /\ doc' \in [Docs -> DocRows \cup {None}]
        /\ \A d \in Docs : doc'[d] # None /\ doc'[d].inv # None => doc'[d].src # doc'[d].dst
    BY <2>1, <2>3, <2>4 DEF IndType, TypeOK
  <2>6. QED
    BY <1>8, <2>1, <2>5, IdleRequest, FinishedIsGrounded, StepKeepsTypes
    DEF UpsertDoc, Finish, IndType, TypeOK
<1>9. CASE CommitTransfer(c)
  <2>1. req[c].doc \in Docs /\ req[c].ser \in Serials /\ Finish(c)
    BY <1>9 DEF CommitTransfer, IndType, Grounded
  <2>2. /\ serial' \in [Serials -> [status: Statuses, wh: Warehouses]]
        /\ lines' \subseteq [doc: Docs, ser: Serials]
    BY <1>9, <2>1 DEF CommitTransfer, Statuses, IndType, TypeOK
  <2>3. QED
    BY <1>9, <2>1, <2>2, IdleRequest, FinishedIsGrounded, StepKeepsTypes
    DEF CommitTransfer, Finish, IndType, TypeOK
<1>10. QED
  BY <1>1, <1>3, <1>4, <1>5, <1>6, <1>7, <1>8, <1>9 DEF Step, Crash

LEMMA HouseTypes ==
    ASSUME IndType, NEW s \in Serials, Sell(s) \/ \E w \in ReturnsAt : TakeBack(s, w)
    PROVE  IndType'
<1>1. /\ serial' \in [Serials -> [status: Statuses, wh: Warehouses]]
      /\ returned' \subseteq Serials
      /\ UNCHANGED <<papers, req>>
  BY RegistryAssumption DEF Sell, TakeBack, Statuses, IndType, TypeOK
<1>2. QED
  BY <1>1 DEF IndType, TypeOK, Grounded, papers

LEMMA TypeStep == IndType /\ [Next]_vars => IndType'
<1>1. IndType /\ UNCHANGED vars => IndType'
  BY DEF IndType, TypeOK, Grounded, vars
<1>2. QED
  BY <1>1, RequestTypes, StepTypes, HouseTypes DEF Next

\* Rows of documents, receipts and units keep their types; a document that a transfer
\* invoice gates never ships from a warehouse to itself.
THEOREM ReceivingTypesHold == Spec => []TypeOK
<1>1. IndType => TypeOK
  BY DEF IndType
<1>2. QED
  BY <1>1, TypeInit, TypeStep, PTL DEF Spec

-----------------------------------------------------------------------------
(* What a document moves.  The room left on a document is counted under    *)
(* the lock on its row, which is held until the line is written; the cap   *)
(* is that of an invoice which gated the document when the scan was        *)
(* validated (MovesKept).  Documents of an import have no invoice.         *)

FromImport(d) == \E a \in Shipments : a.doc = d
MovesOf(d, p) == {l \in lines : l.doc = d /\ ProductOf[l.ser] = p}

GatedByInvoice ==
    \A d \in Docs : doc[d] # None /\ ~FromImport(d) => \E i \in Invoices : doc[d] = DocFor(i)
OneDocHolder ==
    \A c, e \in Clients :
        req[c].pc = "transferCounted" /\ req[e].pc = "transferCounted" /\ req[c].doc = req[e].doc
          => c = e
MovesKept(c) ==
    /\ req[c].pc \in {"transferWaiting", "transferCounted"} /\ ~FromImport(req[c].doc)
         => req[c].inv \in Invoices
    /\ req[c].pc = "transferCounted" /\ req[c].inv # None
         => CountLines(req[c].doc, ProductOf[req[c].ser]) < Cap[req[c].inv][ProductOf[req[c].ser]]

\* A document that is not imported moves no more of a product than some transfer invoice allows.
MovesAreInvoiced ==
    \A d \in Docs, p \in Products : ~FromImport(d) =>
        CountLines(d, p) = 0 \/ \E i \in Invoices : CountLines(d, p) <= Cap[i][p]

IndMove ==
    /\ IndType
    /\ GatedByInvoice
    /\ OneDocHolder
    /\ \A c \in Clients : MovesKept(c)
    /\ MovesAreInvoiced

LEMMA CountIsNat ==
    ASSUME IndType, NEW d, NEW p
    PROVE  IsFiniteSet(MovesOf(d, p)) /\ CountLines(d, p) = Cardinality(MovesOf(d, p))
           /\ CountLines(d, p) \in Nat
<1> DEFINE line == [s \in Serials |-> [doc |-> d, ser |-> s]]
           all == {[doc |-> d, ser |-> s] : s \in Serials}
<1>1. line \in Surjection(Serials, all)
  BY DEF Surjection
<1>2. IsFiniteSet(all)
  BY <1>1, RegistryAssumption, FS_Surjection
<1>3. MovesOf(d, p) \subseteq all
  BY DEF MovesOf, IndType, TypeOK
<1>4. IsFiniteSet(MovesOf(d, p))
  BY <1>2, <1>3, FS_Subset
<1>5. CountLines(d, p) = Cardinality(MovesOf(d, p))
  BY DEF CountLines, MovesOf
<1>6. QED
  BY <1>4, <1>5, FS_CardinalityType

LEMMA MoveInit == Init => IndMove
<1> SUFFICES ASSUME Init PROVE IndMove
  OBVIOUS
<1>1. \A d \in Docs : doc[d] = None \/ FromImport(d)
  BY DEF Init, FromImport
<1>2. \A c \in Clients : req[c].pc = "idle"
  BY DEF Init, Idle
<1>3. MovesAreInvoiced
  <2>1. SUFFICES ASSUME NEW d \in Docs, NEW p \in Products, ~FromImport(d) PROVE CountLines(d, p) = 0
    BY DEF MovesAreInvoiced
  <2>2. MovesOf(d, p) = {}
    BY <2>1 DEF Init, MovesOf, FromImport
  <2>3. QED
    BY <2>2, FS_EmptySet DEF MovesOf, CountLines
<1>4. QED
  BY <1>1, <1>2, <1>3, TypeInit DEF IndMove, GatedByInvoice, OneDocHolder, MovesKept

\* A step that writes no line, where c is the only request to move on.
LEMMA OtherStepKeepsMoves ==
    ASSUME IndMove, IndType', NEW c \in Clients, UNCHANGED lines, GatedByInvoice',
           \A e \in Clients \ {c} : req'[e] = req[e], OneDocHolder', MovesKept(c)'
    PROVE  IndMove'
<1>1. MovesAreInvoiced'
  BY DEF IndMove, MovesAreInvoiced, CountLines
<1>2. ASSUME NEW e \in Clients PROVE MovesKept(e)'
  <2>1. CASE e # c
    BY <2>1 DEF IndMove, MovesKept, CountLines
  <2>2. QED
    BY <2>1
<1>3. QED
  BY <1>1, <1>2 DEF IndMove

\* In particular when the request of c is not at a transfer.
LEMMA OutsideStepKeepsMoves ==
    ASSUME IndMove, IndType', NEW c \in Clients, UNCHANGED lines, GatedByInvoice',
           \A e \in Clients \ {c} : req'[e] = req[e],
           req'[c].pc \notin {"transferWaiting", "transferCounted"}
    PROVE  IndMove'
<1>1. OneDocHolder' /\ MovesKept(c)'
  BY DEF IndMove, OneDocHolder, MovesKept
<1>2. QED
  BY <1>1, OtherStepKeepsMoves

LEMMA RequestKeepsMoves ==
    ASSUME IndMove, IndType', NEW c \in Clients, Request(c)
    PROVE  IndMove'
<1>1. ASSUME NEW r, Begin(c, r), UNCHANGED rows,
             r.pc \notin {"transferWaiting", "transferCounted"}
      PROVE  IndMove'
  BY <1>1, OutsideStepKeepsMoves DEF Begin, rows, papers, IndMove, GatedByInvoice, IndType, TypeOK
<1>2. ASSUME UNCHANGED <<doc, lines, req>>, req[c].pc = "idle" PROVE IndMove'
  BY <1>2, OutsideStepKeepsMoves DEF IndMove, GatedByInvoice
<1>3. ASSUME NEW g \in Grns, NEW w \in Warehouses, StartLooseGrn(c, g, w) PROVE IndMove'
  BY <1>2, <1>3 DEF StartLooseGrn
<1>4. ASSUME NEW g \in Grns, CompleteGrn(c, g) PROVE IndMove'
  BY <1>2, <1>4 DEF CompleteGrn
<1>5. ASSUME NEW d \in Docs, NEW w \in Warehouses, StartGrn(c, d, w) PROVE IndMove'
  BY <1>1, <1>5 DEF StartGrn, Idle
<1>6. ASSUME NEW g \in Grns, NEW s \in Serials, ValidateReceipt(c, g, s) PROVE IndMove'
  BY <1>1, <1>6 DEF ValidateReceipt, Idle
<1>7. ASSUME NEW s \in Serials, NEW w \in Warehouses, ReadReceipt(c, s, w) PROVE IndMove'
  <2> DEFINE r(d) == [Idle EXCEPT !.pc = "receiptRead", !.doc = d, !.ser = s, !.wh = w,
                          !.bound = BoundFor(d, w)]
  <2>1. PICK d \in Docs : Begin(c, r(d)) /\ UNCHANGED rows
    BY <1>7 DEF ReadReceipt
  <2>2. r(d).pc = "receiptRead"
    BY DEF Idle
  <2> HIDE DEF r
  <2>3. QED
    BY <1>1, <2>1, <2>2
<1>8. ASSUME NEW d \in Docs, NEW i \in Invoices, StartTransfer(c, d, i) PROVE IndMove'
  BY <1>1, <1>8 DEF StartTransfer, Idle
<1>9. ASSUME NEW d \in Docs, NEW s \in Serials, ValidateTransfer(c, d, s) PROVE IndMove'
  <2>1. /\ UNCHANGED <<doc, lines>> /\ doc[d] # None
        /\ req'[c].pc = "transferWaiting" /\ req'[c].doc = d /\ req'[c].inv = doc[d].inv
        /\ \A e \in Clients \ {c} : req'[e] = req[e]
    BY <1>9 DEF ValidateTransfer, Begin, Idle, rows, papers, IndMove, IndType, TypeOK
  <2>2. GatedByInvoice' /\ OneDocHolder'
    BY <2>1 DEF IndMove, GatedByInvoice, OneDocHolder
  <2>3. ~FromImport(d) => doc[d].inv \in Invoices
    <3>1. SUFFICES ASSUME ~FromImport(d) PROVE doc[d].inv \in Invoices
      OBVIOUS
    <3>2. PICK i \in Invoices : doc[d] = DocFor(i)
      BY <2>1, <3>1 DEF IndMove, GatedByInvoice
    <3>3. QED
      BY <3>2 DEF DocFor
  <2>4. MovesKept(c)'
    BY <2>1, <2>3 DEF MovesKept
  <2>5. QED
    BY <2>1, <2>2, <2>4, OtherStepKeepsMoves
<1>10. QED
  BY <1>3, <1>4, <1>5, <1>6, <1>7, <1>8, <1>9 DEF Request

\* The line written is within the cap it was counted against.
LEMMA CommitTransferMoves ==
    ASSUME IndMove, IndType', NEW c \in Clients, CommitTransfer(c),
           NEW d \in Docs, d = req[c].doc, NEW s \in Serials, s = req[c].ser,
           NEW i, i = req[c].inv
    PROVE  IndMove'
<1> DEFINE p == ProductOf[s]
           line == [doc |-> d, ser |-> s]
<1>1. /\ req[c].pc = "transferCounted" /\ UNCHANGED doc
      /\ req'[c].pc = "idle" /\ \A e \in Clients \ {c} : req'[e] = req[e]
  BY DEF CommitTransfer, Finish, Idle, IndMove, IndType, TypeOK
<1>2. GatedByInvoice'
  BY <1>1 DEF IndMove, GatedByInvoice
<1>3. CASE UNCHANGED lines
  BY <1>1, <1>2, <1>3, OutsideStepKeepsMoves
<1>4. CASE lines' = lines \cup {line}
  <2>1. line.doc = d /\ line.ser = s /\ p \in Products
    BY RegistryAssumption
  <2> HIDE DEF line, p
  <2>2. ASSUME NEW e, NEW q, ~(e = d /\ q = ProductOf[s]) PROVE CountLines(e, q)' = CountLines(e, q)
    <3>1. {l \in lines' : l.doc = e /\ ProductOf[l.ser] = q} = {l \in lines : l.doc = e /\ ProductOf[l.ser] = q}
      BY <1>4, <2>1, <2>2
    <3>2. QED
      BY <3>1 DEF CountLines
  <2>3. i # None => CountLines(d, p) < Cap[i][p]
    BY <1>1 DEF IndMove, MovesKept, p
  <2>4. ~FromImport(d) => i \in Invoices
    BY <1>1 DEF IndMove, MovesKept
  <2>5. CountLines(d, p)' <= CountLines(d, p) + 1 /\ CountLines(d, p) \in Nat /\ CountLines(d, p)' \in Nat
    <3>1. {l \in lines' : l.doc = d /\ ProductOf[l.ser] = p} = MovesOf(d, p) \cup {line}
      BY <1>4, <2>1 DEF MovesOf, p
    <3>2. CountLines(d, p)' = Cardinality(MovesOf(d, p) \cup {line})
      BY <3>1 DEF CountLines, p
    <3>3. IsFiniteSet(MovesOf(d, p)) /\ CountLines(d, p) = Cardinality(MovesOf(d, p))
          /\ CountLines(d, p) \in Nat
      BY CountIsNat DEF IndMove
    <3>4. QED
      BY <3>2, <3>3, FS_AddElement
  <2>6. MovesAreInvoiced'
    <3>1. SUFFICES ASSUME NEW e \in Docs, NEW q \in Products, ~FromImport(e)
                   PROVE  CountLines(e, q)' = 0 \/ \E j \in Invoices : CountLines(e, q)' <= Cap[j][q]
      BY DEF MovesAreInvoiced
    <3>2. CASE e = d /\ q = p
      <4>1. i \in Invoices /\ CountLines(d, p) < Cap[i][p] /\ Cap[i][p] \in Nat
        BY <2>1, <2>3, <2>4, <3>1, <3>2, NoneAssumption, InvoiceAssumption
      <4>2. CountLines(d, p)' <= Cap[i][p]
        BY <2>5, <4>1
      <4>3. QED
        BY <3>2, <4>1, <4>2
    <3>3. CASE ~(e = d /\ q = p)
      BY <2>2, <3>1, <3>3 DEF IndMove, MovesAreInvoiced, p
    <3>4. QED
      BY <3>2, <3>3
  <2>7. OneDocHolder'
    BY <1>1 DEF IndMove, OneDocHolder
  <2>8. ASSUME NEW e \in Clients PROVE MovesKept(e)'
    <3>1. CASE e = c
      BY <1>1, <3>1 DEF MovesKept
    <3>2. CASE e # c
      <4>1. req'[e] = req[e] /\ MovesKept(e)
        BY <1>1, <3>2 DEF IndMove
      <4>2. req[e].pc = "transferCounted" => req[e].doc # d
        BY <1>1, <3>2 DEF IndMove, OneDocHolder
      <4>3. ASSUME NEW f, NEW q, f = req[e].doc, q = ProductOf[req[e].ser], f # d
            PROVE  CountLines(req[e].doc, ProductOf[req[e].ser])' = CountLines(f, q)
        <5>1. CountLines(f, q)' = CountLines(f, q)
          BY <2>2, <4>3
        <5>2. CountLines(req[e].doc, ProductOf[req[e].ser])' = CountLines(f, q)'
          BY <4>1, <4>3 DEF CountLines
        <5>3. QED
          BY <5>1, <5>2
      <4>4. QED
        BY <4>1, <4>2, <4>3 DEF MovesKept
    <3>3. QED
      BY <3>1, <3>2
  <2>9. QED
    BY <1>2, <2>6, <2>7, <2>8 DEF IndMove
<1>5. QED
  BY <1>3, <1>4 DEF CommitTransfer

LEMMA StepKeepsMoves ==
    ASSUME IndMove, IndType', NEW c \in Clients, Step(c) \/ Crash(c)
    PROVE  IndMove'
<1>1. ASSUME Finish(c), UNCHANGED lines, GatedByInvoice' PROVE IndMove'
  BY <1>1, OutsideStepKeepsMoves DEF Finish, Idle, IndMove, IndType, TypeOK
<1>2. ASSUME UNCHANGED doc PROVE GatedByInvoice'
  BY <1>2 DEF IndMove, GatedByInvoice
<1>3. CASE SeekOpenGrn(c) /\ ~Finish(c)
  <2>1. /\ UNCHANGED <<doc, lines>> /\ req'[c].pc = "grnCreating"
        /\ \A e \in Clients \ {c} : req'[e] = req[e]
    BY <1>3 DEF SeekOpenGrn, rows, papers, IndMove, IndType, TypeOK, ReqRows
  <2>2. QED
    BY <1>2, <2>1, OutsideStepKeepsMoves
<1>4. CASE LockForTransfer(c) /\ ~Finish(c)
  <2>1. /\ UNCHANGED <<doc, lines>> /\ req'[c] = [req[c] EXCEPT !.pc = "transferCounted"]
        /\ \A e \in Clients \ {c} : req'[e] = req[e]
        /\ req[c].pc = "transferWaiting"
        /\ HasRoom(req[c].doc, req[c].inv, ProductOf[req[c].ser])
        /\ ~DocLocked(req[c].doc)
    BY <1>4 DEF LockForTransfer, rows, papers, IndMove, IndType, TypeOK
  <2>2. /\ req'[c].pc = "transferCounted" /\ req'[c].doc = req[c].doc
        /\ req'[c].inv = req[c].inv /\ req'[c].ser = req[c].ser
    BY <2>1 DEF IndMove, IndType, TypeOK, ReqRows
  <2>3. OneDocHolder'
    <3>1. \A e \in Clients : req[e].pc = "transferCounted" => req[e].doc # req[c].doc
      BY <2>1 DEF DocLocked
    <3>2. \A e \in Clients \ {c} : req'[e] = req[e]
      BY <2>1
    <3>3. SUFFICES ASSUME NEW e \in Clients, NEW f \in Clients, req'[e].pc = "transferCounted",
                          req'[f].pc = "transferCounted", req'[e].doc = req'[f].doc, e # f
                   PROVE  FALSE
      BY DEF OneDocHolder
    <3>4. CASE e = c \/ f = c
      BY <2>2, <3>1, <3>2, <3>3, <3>4
    <3>5. CASE e # c /\ f # c
      BY <3>2, <3>3, <3>5 DEF IndMove, OneDocHolder
    <3>6. QED
      BY <3>4, <3>5
  <2>4. MovesKept(c)'
    BY <2>1, <2>2 DEF HasRoom, IndMove, MovesKept, CountLines
  <2>5. QED
    BY <1>2, <2>1, <2>3, <2>4, OtherStepKeepsMoves
<1>5. CASE UpsertDoc(c)
  <2>1. GatedByInvoice'
    <3>1. req[c].inv \in Invoices /\ req[c].doc \in Docs
      BY <1>5 DEF UpsertDoc, IndMove, IndType, Grounded
    <3>2. doc' = [doc EXCEPT ![req[c].doc] = DocFor(req[c].inv)]
      BY <1>5 DEF UpsertDoc
    <3>3. QED
      BY <3>1, <3>2 DEF IndMove, GatedByInvoice, IndType, TypeOK
  <2>2. QED
    BY <1>1, <1>5, <2>1 DEF UpsertDoc
<1>6. CASE CommitTransfer(c)
  BY <1>6, CommitTransferMoves DEF CommitTransfer, IndMove, IndType, Grounded
<1>7. QED
  BY <1>1, <1>2, <1>3, <1>4, <1>5, <1>6
  DEF Step, Crash, SeekOpenGrn, CreateGrn, CommitReceipt, CommitReadReceipt, LockForTransfer,
      rows, papers

LEMMA MoveStep == IndMove /\ [Next]_vars => IndMove'
<1> SUFFICES ASSUME IndMove, [Next]_vars PROVE IndMove'
  OBVIOUS
<1>1. IndType'
  BY TypeStep DEF IndMove
<1>2. ASSUME UNCHANGED <<doc, lines, req>> PROVE IndMove'
  BY <1>1, <1>2 DEF IndMove, GatedByInvoice, OneDocHolder, MovesKept, MovesAreInvoiced, CountLines
<1>3. ASSUME NEW s \in Serials, Sell(s) \/ \E w \in ReturnsAt : TakeBack(s, w) PROVE IndMove'
  BY <1>2, <1>3 DEF Sell, TakeBack, papers
<1>4. QED
  BY <1>1, <1>2, <1>3, RequestKeepsMoves, StepKeepsMoves DEF Next, vars

\* Whatever scans of a document run at once, and whichever invoices took over its reference,
\* it moves no more of a product than some transfer invoice allows.
THEOREM TransfersAreInvoiced == Spec => []MovesAreInvoiced
<1>1. IndMove => MovesAreInvoiced
  BY DEF IndMove
<1>2. QED
  BY <1>1, MoveInit, MoveStep, PTL DEF Spec

\* Where all transfer invoices name one route, so that no reference can be taken over for
\* another, that invoice is one for the document's own route.
THEOREM TransfersStayWithinInvoice ==
    ASSUME \A i, j \in Invoices : Route[i] = Route[j]
    PROVE  Spec => []TransferWithinInvoice
<1>1. IndMove => TransferWithinInvoice
  <2>1. SUFFICES ASSUME IndMove, NEW d \in Docs, NEW p \in Products, doc[d] # None, ~FromImport(d)
                 PROVE  \E i \in Invoices : SameRoute(d, i) /\ CountLines(d, p) <= Cap[i][p]
    BY DEF TransferWithinInvoice, FromImport
  <2>2. PICK i \in Invoices : doc[d] = DocFor(i)
    BY <2>1 DEF IndMove, GatedByInvoice
  <2>3. \A j \in Invoices : SameRoute(d, j)
    BY <2>2 DEF SameRoute, DocFor
  <2>4. CASE CountLines(d, p) = 0
    BY <2>2, <2>3, <2>4, InvoiceAssumption
  <2>5. CASE CountLines(d, p) # 0
    BY <2>1, <2>3, <2>5 DEF IndMove, MovesAreInvoiced
  <2>6. QED
    BY <2>4, <2>5
<1>2. QED
  BY <1>1, MoveInit, MoveStep, PTL DEF Spec

-----------------------------------------------------------------------------
(* Custody.  What is in stock or sold has come in by a receipt or a        *)
(* return, so a unit without either is still on its first way in, and the  *)
(* receipt that takes it in is its first.                                  *)

EnteredOnce ==
    \A s \in Serials : serial[s].status \in {"IN_STOCK", "DISPATCHED"} => Received(s) \/ s \in returned

IndCustody == IndType /\ EnteredOnce

LEMMA CustodyInit == Init => IndCustody /\ custody!Init
<1> SUFFICES ASSUME Init PROVE EnteredOnce /\ custody!Init
  BY TypeInit DEF IndCustody
<1>1. \A s \in Serials : serial[s].status \in {"PRODUCED", "IN_TRANSIT"}
  BY DEF Init
<1>2. returned = {} /\ \A s \in Serials : ~Received(s)
  BY DEF Init, Received
<1>3. \A s \in Serials : PlaceOf(s) = "inbound"
  BY <1>1, <1>2 DEF PlaceOf
<1>4. EnteredOnce
  BY <1>1 DEF EnteredOnce
<1>5. QED
  BY <1>2, <1>3, <1>4 DEF custody!Init

\* A unit whose status, receipt and return do not change stays where it is.
LEMMA PlaceStays ==
    ASSUME NEW s \in Serials, serial'[s].status = serial[s].status,
           Received(s)' <=> Received(s), s \in returned' <=> s \in returned
    PROVE  PlaceOf(s)' = PlaceOf(s)
BY DEF PlaceOf

LEMMA UnitsStay ==
    ASSUME UNCHANGED <<serial, grnScans, returned>>
    PROVE  UNCHANGED <<[s \in Serials |-> PlaceOf(s)], {s \in Serials : Received(s)}, returned>>
BY DEF PlaceOf, Received

\* Receipts take in units that have no receipt and, unless a return took them in, never were in.
LEMMA TakeInReceives ==
    ASSUME IndCustody, NEW s \in Serials, ~Received(s), NEW g, NEW w, TakeIn(g, w, s),
           UNCHANGED returned
    PROVE  EnteredOnce' /\ custody!Receive(s)
<1> DEFINE scan == [grn |-> g, ser |-> s, match |-> "MATCHED"]
<1>1. /\ grnScans' = grnScans \cup {scan} /\ scan.ser = s /\ scan.match = "MATCHED"
      /\ serial'[s].status = "IN_STOCK" /\ \A t \in Serials \ {s} : serial'[t] = serial[t]
  BY DEF TakeIn, IndCustody, IndType, TypeOK
<1> HIDE DEF scan
<1>2. Received(s)' /\ \A t \in Serials \ {s} : Received(t)' <=> Received(t)
  BY <1>1 DEF Received
<1>3. EnteredOnce'
  BY <1>1, <1>2 DEF IndCustody, EnteredOnce
<1>4. PlaceOf(s)' = "house" /\ \A t \in Serials \ {s} : PlaceOf(t)' = PlaceOf(t)
  BY <1>1, <1>2, PlaceStays DEF PlaceOf
<1>5. s \notin returned => PlaceOf(s) = "inbound"
  <2>1. s \notin returned => serial[s].status \in {"PRODUCED", "IN_TRANSIT"}
    BY DEF IndCustody, EnteredOnce, IndType, TypeOK, Statuses
  <2>2. QED
    BY <2>1 DEF PlaceOf
<1>6. [t \in Serials |-> PlaceOf(t)]' = [[t \in Serials |-> PlaceOf(t)] EXCEPT ![s] = "house"]
  BY <1>4
<1>7. {t \in Serials : Received(t)}' = {t \in Serials : Received(t)} \cup {s}
  BY <1>2
<1>8. QED
  BY <1>3, <1>5, <1>6, <1>7 DEF custody!Receive, custody!Put

\* A step that only moves unit s: where it comes from and goes to is its status before and after.
LEMMA OneUnitMoves ==
    ASSUME IndCustody, NEW s \in Serials, NEW to \in {"house", "moving", "sold"},
           NEW status \in Statuses, serial' = [serial EXCEPT ![s].status = status],
           UNCHANGED <<grnScans, returned>>,
           status = (CASE to = "house" -> "IN_STOCK" [] to = "sold" -> "DISPATCHED"
                       [] OTHER -> "IN_TRANSIT"),
           serial[s].status = "IN_STOCK"
    PROVE  /\ EnteredOnce'
           /\ PlaceOf(s) = "house"
           /\ [t \in Serials |-> PlaceOf(t)]' = [[t \in Serials |-> PlaceOf(t)] EXCEPT ![s] = to]
           /\ UNCHANGED <<{t \in Serials : Received(t)}, returned>>
<1>1. /\ serial'[s].status = status /\ \A t \in Serials \ {s} : serial'[t] = serial[t]
  BY DEF IndCustody, IndType, TypeOK
<1>2. \A t \in Serials : Received(t)' <=> Received(t)
  BY DEF Received
<1>3. Received(s) \/ s \in returned
  BY DEF IndCustody, EnteredOnce
<1>4. PlaceOf(s) = "house" /\ PlaceOf(s)' = to
  BY <1>1, <1>2, <1>3 DEF PlaceOf
<1>5. \A t \in Serials \ {s} : PlaceOf(t)' = PlaceOf(t)
  BY <1>1, <1>2, PlaceStays
<1>6. EnteredOnce'
  BY <1>1, <1>2 DEF IndCustody, EnteredOnce
<1>7. QED
  BY <1>2, <1>4, <1>5, <1>6

LEMMA CustodyStep ==
    ASSUME IndCustody, [Next]_vars
    PROVE  EnteredOnce' /\ [custody!Next]_<<[s \in Serials |-> PlaceOf(s)], {s \in Serials : Received(s)}, returned>>
<1> DEFINE Goal == EnteredOnce' /\ [custody!Next]_<<[s \in Serials |-> PlaceOf(s)], {s \in Serials : Received(s)}, returned>>
<1>1. ASSUME UNCHANGED <<serial, grnScans, returned>> PROVE Goal
  BY <1>1, UnitsStay DEF IndCustody, EnteredOnce, Received
<1>2. ASSUME NEW c \in Clients, CommitReceipt(c) PROVE Goal
  <2>1. PICK s \in Serials : s = req[c].ser
    BY <1>2 DEF CommitReceipt, IndCustody, IndType, Grounded
  <2>2. CASE ~Received(s) /\ TakeIn(req[c].grn, grn[req[c].grn].wh, s)
    BY <1>2, <2>2, TakeInReceives DEF CommitReceipt, custody!Next
  <2>3. CASE UNCHANGED <<serial, grnScans>>
    BY <1>1, <1>2, <2>3 DEF CommitReceipt
  <2>4. CASE UNCHANGED serial /\ grnScans' = grnScans \cup {[grn |-> req[c].grn, ser |-> s, match |-> "REFUSED"]}
    <3>1. \A t \in Serials : Received(t)' <=> Received(t)
      BY <2>4 DEF Received
    <3>2. UNCHANGED returned
      BY <1>2 DEF CommitReceipt
    <3>3. EnteredOnce'
      BY <2>4, <3>1, <3>2 DEF IndCustody, EnteredOnce
    <3>4. \A t \in Serials : PlaceOf(t)' = PlaceOf(t)
      BY <2>4, <3>1, <3>2, PlaceStays
    <3>5. QED
      BY <3>1, <3>2, <3>3, <3>4
  <2>5. QED
    BY <1>2, <2>1, <2>2, <2>3, <2>4 DEF CommitReceipt
<1>3. ASSUME NEW c \in Clients, NEW g \in Grns, CommitReadReceipt(c, g) PROVE Goal
  <2>1. PICK s \in Serials : s = req[c].ser
    BY <1>3 DEF CommitReadReceipt, IndCustody, IndType, Grounded
  <2>2. CASE ~Received(s) /\ TakeIn(g, req[c].wh, s)
    BY <1>3, <2>2, TakeInReceives DEF CommitReadReceipt, custody!Next
  <2>3. CASE UNCHANGED <<serial, grnScans>>
    BY <1>1, <1>3, <2>3 DEF CommitReadReceipt
  <2>4. QED
    BY <1>3, <2>1, <2>2, <2>3 DEF CommitReadReceipt
<1>4. ASSUME NEW c \in Clients, CommitTransfer(c) PROVE Goal
  <2>1. PICK s \in Serials : s = req[c].ser
    BY <1>4 DEF CommitTransfer, IndCustody, IndType, Grounded
  <2>2. CASE StillInStock(s)
    <3>1. custody!Transfer(s) /\ EnteredOnce'
      BY <1>4, <2>1, <2>2, OneUnitMoves DEF CommitTransfer, StillInStock, Statuses, custody!Transfer, custody!Put
    <3>2. QED
      BY <3>1 DEF custody!Next
  <2>3. CASE ~StillInStock(s)
    BY <1>1, <1>4, <2>1, <2>3 DEF CommitTransfer
  <2>4. QED
    BY <2>2, <2>3
<1>5. ASSUME NEW s \in Serials, Sell(s) PROVE Goal
  <2>1. custody!Sell(s) /\ EnteredOnce'
    BY <1>5, OneUnitMoves DEF Sell, papers, Statuses, custody!Sell, custody!Put
  <2>2. QED
    BY <2>1 DEF custody!Next
<1>6. ASSUME NEW s \in Serials, NEW w \in ReturnsAt, TakeBack(s, w) PROVE Goal
  <2>1. /\ serial'[s].status = "IN_STOCK" /\ \A t \in Serials \ {s} : serial'[t] = serial[t]
        /\ returned' = returned \cup {s} /\ UNCHANGED grnScans
    BY <1>6 DEF TakeBack, papers, IndCustody, IndType, TypeOK
  <2>2. \A t \in Serials : Received(t)' <=> Received(t)
    BY <2>1 DEF Received
  <2>3. EnteredOnce'
    BY <2>1, <2>2 DEF IndCustody, EnteredOnce
  <2>4. PlaceOf(s)' = "house" /\ \A t \in Serials \ {s} : PlaceOf(t)' = PlaceOf(t)
    BY <2>1, <2>2, PlaceStays DEF PlaceOf
  <2>5. [t \in Serials |-> PlaceOf(t)]' = [[t \in Serials |-> PlaceOf(t)] EXCEPT ![s] = "house"]
    BY <2>4
  <2>6. serial[s].status = "DISPATCHED" => PlaceOf(s) = "sold"
    BY DEF PlaceOf
  <2>7. custody!Return(s)
    BY <1>6, <2>1, <2>2, <2>5, <2>6 DEF TakeBack, custody!Return, custody!Put
  <2>8. QED
    BY <2>3, <2>7 DEF custody!Next
<1>7. ASSUME NEW c \in Clients, Request(c) \/ Step(c) \/ Crash(c),
             ~CommitReceipt(c), ~CommitTransfer(c), ~\E g \in Grns : CommitReadReceipt(c, g)
      PROVE  UNCHANGED <<serial, grnScans, returned>>
  BY <1>7 DEF Request, Step, Crash, StartLooseGrn, StartGrn, ValidateReceipt, CompleteGrn,
     ReadReceipt, StartTransfer, ValidateTransfer, SeekOpenGrn, CreateGrn, UpsertDoc,
     LockForTransfer, rows, papers
<1>8. CASE UNCHANGED vars
  BY <1>1, <1>8 DEF vars
<1>9. QED
  BY <1>1, <1>2, <1>3, <1>4, <1>5, <1>6, <1>7, <1>8 DEF Next

\* Receipts, transfers, sales and returns give each unit the life Custody allows.
THEOREM UnitsLiveByCustody == Spec => ImplementsCustody
<1>1. IndCustody /\ [Next]_vars => IndCustody'
  BY CustodyStep, TypeStep DEF IndCustody
<1>2. QED
  BY <1>1, CustodyInit, CustodyStep, PTL DEF Spec, ImplementsCustody, custody!Spec
=============================================================================
