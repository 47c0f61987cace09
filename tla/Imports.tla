------------------------------ MODULE Imports ------------------------------
(***************************************************************************)
(* Production import (IDM-01): the plant sends a batch of produced units,  *)
(* by webhook or as an uploaded file, under a reference of its own choice, *)
(* and sends it again when it got no answer.  A batch row says how far the *)
(* batch came; the units, the shipping documents and their lines are       *)
(* written in one transaction; the batch row is written before and after   *)
(* that transaction, each time by a statement of its own.                  *)
(*                                                                         *)
(* The transaction is one step here.  Two imports that meet on a unit or   *)
(* on a document wait for each other on a unique index, so what they leave *)
(* is what one of the two orders leaves; whatever else can go wrong inside *)
(* is AbortImport.  A batch already processed is answered without a write. *)
(***************************************************************************)
EXTENDS Naturals, Sequences, FiniteSets

CONSTANTS
  Senders,          \* requests that can be in progress at once
  Refs,             \* references batches and documents are known by
  Payloads,         \* for each reference, the record sequences sent under it
  Makes, Bases,     \* products, and the serials stamped on the units
  Names,            \* product names, up to case and punctuation
  Depots,           \* active warehouses
  Nothing           \* no value

ASSUME PayloadsAreSequences == \A r \in Refs : \A p \in Payloads[r] :
  /\ p \in Seq([ok : BOOLEAN, base : Bases \cup {Nothing}, make : Makes \cup {Nothing},
                to : Depots \cup {Nothing, "unknown"}, doc : Refs \cup {Nothing}])
  /\ \A i \in DOMAIN p : p[i].ok => p[i].base # Nothing

ASSUME NothingIsNoRow == Nothing \notin
  [name : Names, status : {"PRODUCED", "IN_TRANSIT", "IN_STOCK"}, to : Depots \cup {Nothing}, batch : Refs]

VARIABLES
  nameOf,           \* product -> its name
  unit,             \* (product, base) -> the row of the unit, or Nothing
  batch,            \* reference -> status of its batch
  docTo,            \* reference -> destination of its document, or Nothing
  docLines,         \* lines of documents: which unit, under which number
  rejected,         \* reference -> positions stored as rejected
  upload            \* request -> where it stands
importVars == <<nameOf, unit, batch, docTo, docLines, rejected, upload>>

BatchStatuses == {"NONE", "PENDING", "PROCESSED", "FAILED"}
NoUpload == [pc |-> "idle", ref |-> Nothing, sent |-> <<>>]
Units == Makes \X Bases

ImportTypeOK ==
  /\ nameOf \in [Makes -> Names]
  /\ unit \in [Units -> {Nothing} \cup
       [name : Names, status : {"PRODUCED", "IN_TRANSIT", "IN_STOCK"},
        to : Depots \cup {Nothing}, batch : Refs]]
  /\ batch \in [Refs -> BatchStatuses]
  /\ docTo \in [Refs -> Depots \cup {Nothing}]
  /\ \A l \in docLines : /\ l.doc \in Refs /\ l.unit \in Units /\ l.no \in Nat \ {0}
                         /\ unit[l.unit] # Nothing /\ docTo[l.doc] # Nothing
  /\ \A r \in Refs : rejected[r] \subseteq Nat
  /\ \A c \in Senders : upload[c].pc \in
       {"idle", "found", "importing", "marking", "storing", "failing"}

(***************************************************************************)
(* What becomes of the records of a batch.                                 *)
(***************************************************************************)
(* The first well-formed record of each serial is kept, whatever product   *)
(* the later ones are of.                                                  *)
Kept(p) == {i \in DOMAIN p : p[i].ok /\ \A j \in 1..(i - 1) : p[j].ok => p[j].base # p[i].base}
Known(r) == r.make # Nothing /\ r.to # "unknown"
Accepted(p) == {i \in Kept(p) : Known(p[i])}
Rejected(p) == {i \in DOMAIN p : ~p[i].ok} \cup (Kept(p) \ Accepted(p))

(* A rejected row is stored with its serial, which the table wants.        *)
Storable(p) == \A i \in Rejected(p) : p[i].base # Nothing

UnitAt(p, i) == <<p[i].make, p[i].base>>
UnitsOf(p) == {UnitAt(p, i) : i \in Accepted(p)}
Shipped(p) == {i \in Accepted(p) : p[i].to # Nothing}
(* A record without an invoice reference goes on the batch's own document. *)
DocOf(ref, p, i) == IF p[i].doc = Nothing THEN ref ELSE p[i].doc

(* Lines are numbered from one in every batch, and a unit that is already  *)
(* on the document keeps the line it has.                                  *)
LineAt(ref, p, i) ==
  [doc |-> DocOf(ref, p, i), unit |-> UnitAt(p, i),
   no |-> Cardinality({j \in Shipped(p) : j <= i /\ DocOf(ref, p, j) = DocOf(ref, p, i)})]
OnDoc(d, u) == \E l \in docLines : l.doc = d /\ l.unit = u
NewLines(ref, p) ==
  {l \in {LineAt(ref, p, i) : i \in Shipped(p)} : ~OnDoc(l.doc, l.unit)}

(* The serial number of a unit is made of the name of its product and its  *)
(* base.  A number that is taken by this unit is no error; one that is     *)
(* taken by a unit of another product of the same name leaves the importer *)
(* without a row; a unit that is known under a former name violates the    *)
(* index on product and base.                                              *)
Taken(u) == \E v \in Units : unit[v] # Nothing /\ v[2] = u[2] /\ unit[v].name = nameOf[u[1]]
Insertable(u) == IF unit[u] = Nothing THEN ~Taken(u) ELSE Taken(u)
NumberFree(l) == ~\E k \in docLines : k.doc = l.doc /\ k.no = l.no
Importable(ref, p) ==
  /\ \A u \in UnitsOf(p) : Insertable(u)
  /\ \A l \in NewLines(ref, p) : NumberFree(l)

(* Broken variant: ON CONFLICT DO UPDATE.                                   *)
UpsertSerial(ref, p, u) ==
  IF u \notin UnitsOf(p) THEN unit[u]
  ELSE LET r == p[CHOOSE i \in Accepted(p) : UnitAt(p, i) = u]
       IN  [name |-> nameOf[u[1]], to |-> r.to, batch |-> ref,
            status |-> IF r.to = Nothing THEN "PRODUCED" ELSE "IN_TRANSIT"]
(* The row an insert leaves: the one that is there, or a new one.          *)
InsertSerial(ref, p, u) ==
  IF unit[u] # Nothing \/ u \notin UnitsOf(p) THEN unit[u]
  ELSE LET r == p[CHOOSE i \in Accepted(p) : UnitAt(p, i) = u]
       IN  [name |-> nameOf[u[1]], to |-> r.to, batch |-> ref,
            status |-> IF r.to = Nothing THEN "PRODUCED" ELSE "IN_TRANSIT"]
(* The document goes where its last record says.                           *)
UpsertDestination(ref, p, d) ==
  LET on == {i \in Shipped(p) : DocOf(ref, p, i) = d}
  IN  IF on = {} THEN docTo[d] ELSE p[CHOOSE i \in on : \A j \in on : j <= i].to

(***************************************************************************)
(* One delivery.                                                           *)
(***************************************************************************)
At(c, pc) == upload[c].pc = pc
Goto(c, pc) == upload' = [upload EXCEPT ![c].pc = pc]
Answer(c) == upload' = [upload EXCEPT ![c] = NoUpload]

(* The batch is looked up; a processed one is ignored as a duplicate.      *)
Deliver(c) == \E ref \in Refs : \E p \in Payloads[ref] :
  /\ At(c, "idle") /\ batch[ref] # "PROCESSED"
  /\ upload' = [upload EXCEPT ![c] = [pc |-> "found", ref |-> ref, sent |-> p]]
  /\ UNCHANGED <<nameOf, unit, batch, docTo, docLines, rejected>>

(* INSERT ... ON CONFLICT DO NOTHING, and the status that is there then.   *)
CreatePending(c) == LET ref == upload[c].ref IN
  /\ At(c, "found")
  /\ batch' = [batch EXCEPT ![ref] = IF @ = "NONE" THEN "PENDING" ELSE @]
  /\ IF batch[ref] = "PROCESSED" THEN Answer(c) ELSE Goto(c, "importing")
  /\ UNCHANGED <<nameOf, unit, docTo, docLines, rejected>>

ImportBatch(c) == LET ref == upload[c].ref  p == upload[c].sent IN
  /\ At(c, "importing") /\ Importable(ref, p)
  /\ unit' = [u \in Units |-> InsertSerial(ref, p, u)]
  /\ docTo' = [d \in Refs |-> UpsertDestination(ref, p, d)]
  /\ docLines' = docLines \cup NewLines(ref, p)
  /\ Goto(c, "marking") /\ UNCHANGED <<nameOf, batch, rejected>>

(* Broken variant: the import goes on to its bookkeeping after an error.    *)
SwallowsError(c) ==
  /\ At(c, "importing") /\ Goto(c, "marking")
  /\ UNCHANGED <<nameOf, unit, batch, docTo, docLines, rejected>>
(* Broken variant: rows are written outside of the transaction.             *)
LeavesRows(c) == LET ref == upload[c].ref  p == upload[c].sent IN
  /\ At(c, "importing") /\ \A u \in UnitsOf(p) : Insertable(u)
  /\ unit' = [u \in Units |-> InsertSerial(ref, p, u)] /\ Goto(c, "failing")
  /\ UNCHANGED <<nameOf, batch, docTo, docLines, rejected>>
(* A row that cannot be written, or the database: all of it is undone.     *)
AbortImport(c) ==
  /\ At(c, "importing") /\ Goto(c, "failing")
  /\ UNCHANGED <<nameOf, unit, batch, docTo, docLines, rejected>>

MarkProcessed(c) == LET ref == upload[c].ref IN
  /\ At(c, "marking")
  /\ batch' = [batch EXCEPT ![ref] = "PROCESSED"]
  /\ IF Rejected(upload[c].sent) = {} THEN Answer(c) ELSE Goto(c, "storing")
  /\ UNCHANGED <<nameOf, unit, docTo, docLines, rejected>>

StoreRejections(c) == LET ref == upload[c].ref IN
  /\ At(c, "storing") /\ Storable(upload[c].sent)
  /\ rejected' = [rejected EXCEPT ![ref] = @ \cup Rejected(upload[c].sent)]
  /\ Answer(c) /\ UNCHANGED <<nameOf, unit, batch, docTo, docLines>>

RefuseRejections(c) ==
  /\ At(c, "storing") /\ ~Storable(upload[c].sent)
  /\ Goto(c, "failing") /\ UNCHANGED <<nameOf, unit, batch, docTo, docLines, rejected>>

(* The bookkeeping sits in the same try block as the import: when one of   *)
(* its statements fails the batch is marked failed, committed as it is.    *)
BookkeepingFails(c) ==
  /\ At(c, "marking") \/ At(c, "storing")
  /\ Goto(c, "failing") /\ UNCHANGED <<nameOf, unit, batch, docTo, docLines, rejected>>

MarkFailed(c) ==
  /\ At(c, "failing")
  /\ batch' = [batch EXCEPT ![upload[c].ref] = "FAILED"]
  /\ Answer(c) /\ UNCHANGED <<nameOf, unit, docTo, docLines, rejected>>

ImporterDies(c) ==
  /\ ~At(c, "idle") /\ Answer(c)
  /\ UNCHANGED <<nameOf, unit, batch, docTo, docLines, rejected>>

(* Elsewhere: a unit is received, a product is renamed.                    *)
UnitReceived(u) ==
  /\ unit[u] # Nothing /\ unit[u].status # "IN_STOCK"
  /\ unit' = [unit EXCEPT ![u].status = "IN_STOCK"]
  /\ UNCHANGED <<nameOf, batch, docTo, docLines, rejected, upload>>
ProductRenamed(m, n) ==
  /\ n # nameOf[m] /\ nameOf' = [nameOf EXCEPT ![m] = n]
  /\ UNCHANGED <<unit, batch, docTo, docLines, rejected, upload>>

ImportInit ==
  /\ nameOf \in [Makes -> Names]
  /\ unit = [u \in Units |-> Nothing] /\ batch = [r \in Refs |-> "NONE"]
  /\ docTo = [r \in Refs |-> Nothing] /\ docLines = {}
  /\ rejected = [r \in Refs |-> {}] /\ upload = [c \in Senders |-> NoUpload]

(* What the import does by itself, and what happens to it.                 *)
Deliveries(c) ==
  \/ Deliver(c) \/ CreatePending(c) \/ ImportBatch(c) \/ MarkProcessed(c)
  \/ StoreRejections(c) \/ RefuseRejections(c) \/ MarkFailed(c)
ImportNext ==
  \/ \E c \in Senders : Deliveries(c) \/ AbortImport(c) \/ BookkeepingFails(c) \/ ImporterDies(c)
  \/ \E u \in Units : UnitReceived(u)
  \/ \E m \in Makes, n \in Names : ProductRenamed(m, n)

ImportSpec == ImportInit /\ [][ImportNext]_importVars
(* The same with a database that never fails and nothing else going on.    *)
CalmImportSpec == ImportInit /\ [][\E c \in Senders : Deliveries(c)]_importVars

(***************************************************************************)
(* Properties.                                                             *)
(***************************************************************************)
(* What a batch said to be processed brought is there: every unit it was   *)
(* to import, and the line of every unit that was shipped, whatever failed *)
(* or overlapped on the way (productionImport.js:75-224).                  *)
ProcessedIsImported == \A ref \in Refs : batch[ref] = "PROCESSED" =>
  \E p \in Payloads[ref] :
    /\ \A u \in UnitsOf(p) : unit[u] # Nothing
    /\ \A i \in Shipped(p) : OnDoc(DocOf(ref, p, i), UnitAt(p, i))

(* A unit appears together with all of its batch and with the lines of the *)
(* batch, or not at all: a batch that fails on one row, is sent again, or  *)
(* dies half way leaves no part of itself (productionImport.js:76-203).    *)
WholeBatches == [][
  LET new == {u \in Units : unit[u] = Nothing /\ unit'[u] # Nothing}
  IN  new # {} => \E ref \in Refs : \E p \in Payloads[ref] :
        /\ new \subseteq UnitsOf(p) /\ \A u \in UnitsOf(p) : unit'[u] # Nothing
        /\ \A u \in new : unit'[u].batch = ref
        /\ \A i \in Shipped(p) : OnDoc(DocOf(ref, p, i), UnitAt(p, i))']_importVars

(* A batch that is sent again does not undo what has happened to its units *)
(* since: no import changes a row that is there (serialRepository.js:77).  *)
RowsAreKept == [][\A u \in Units : unit[u] # Nothing =>
  unit'[u] \in {unit[u], [unit[u] EXCEPT !.status = "IN_STOCK"]}]_importVars

(* However often a batch is delivered, in whatever overlap and with        *)
(* whatever failures, deliveries only add, and whole batches at a time.    *)
DeliveriesOnlyAdd == WholeBatches /\ RowsAreKept

(* "Individual malformed records are rejected per-row": of batches that    *)
(* share no document no batch fails, whatever its records look like, as    *)
(* long as the database does not (productionImport.js:8-10).               *)
NoBatchFailsForItsRows == \A ref \in Refs : batch[ref] # "FAILED"
=============================================================================
