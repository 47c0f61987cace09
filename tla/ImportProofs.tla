---------------------------- MODULE ImportProofs ----------------------------
(***************************************************************************)
(* What an import leaves behind (Imports), for any number of requests,     *)
(* batches, payloads, products and serials; what a scanned number stands   *)
(* for (Numbering), for any products, prefixes and stamps; and that        *)
(* migrations take effect once and in order (Migrations), for any number   *)
(* of deployments and whatever releases they are of.                       *)
(***************************************************************************)
EXTENDS Imports, Numbering, Migrations, FiniteSetTheorems, WellFoundedInduction, TLAPS

-----------------------------------------------------------------------------
(* Sets of numbers.  The library's induction theorems take a predicate as  *)
(* a parameter; that < is well-founded on the naturals does not, and gives *)
(* the least element of a set.                                             *)

LEMMA LeastElement ==
    ASSUME NEW T, T \subseteq Nat, T # {}
    PROVE  \E m \in T : \A k \in T : m <= k
<1> DEFINE Less == OpToRel(<, Nat)
<1>1. IsWellFoundedOn(Less, Nat)
  BY NatLessThanWellFounded
<1>2. \A x, y \in Nat : <<y, x>> \in Less <=> y < x
  BY DEF OpToRel
<1> HIDE DEF Less
<1>3. PICK x \in T : \A y \in T : ~ (<<y, x>> \in Less)
  BY <1>1, WFMin
<1>4. ASSUME NEW y \in T PROVE ~ (y < x)
  <2>1. x \in Nat /\ y \in Nat
    OBVIOUS
  <2>2. ~ (<<y, x>> \in Less)
    BY <1>3
  <2>3. QED
    BY <1>2, <2>1, <2>2, Zenon
<1>5. \A y \in T : x <= y
  BY <1>4
<1>6. QED
  BY <1>5

LEMMA GreatestElement ==
    ASSUME NEW n \in Nat, NEW T, T \subseteq 1..n, T # {}
    PROVE  \E m \in T : \A k \in T : k <= m
<1> DEFINE D == {d \in Nat : n - d \in T}
<1>1. D \subseteq Nat /\ D # {}
  <2>1. PICK k \in T : TRUE
    OBVIOUS
  <2>2. n - k \in Nat /\ n - (n - k) = k
    OBVIOUS
  <2>3. n - k \in D
    BY <2>1, <2>2
  <2>4. QED
    BY <2>3
<1>2. \A k \in T : n - k \in D /\ k \in Nat
  OBVIOUS
<1>3. \A d \in D : n - d \in T
  OBVIOUS
<1> HIDE DEF D
<1>4. PICK d \in D : \A e \in D : d <= e
  BY <1>1, LeastElement
<1>5. ASSUME NEW k \in T PROVE k <= n - d
  <2>1. k \in Nat /\ d \in Nat /\ d <= n - k
    BY <1>1, <1>2, <1>4
  <2>2. QED
    BY <2>1
<1>6. QED
  BY <1>3, <1>4, <1>5

-----------------------------------------------------------------------------
(* Imports.                                                                *)
Rows == [name : Names, status : {"PRODUCED", "IN_TRANSIT", "IN_STOCK"},
         to : Depots \cup {Nothing}, batch : Refs]
Pcs == {"idle", "found", "importing", "marking", "storing", "failing"}
AllSent == UNION {Payloads[r] : r \in Refs}
PayloadsSent == AllSent \cup {<<>>}
Uploads == [pc : Pcs, ref : Refs \cup {Nothing}, sent : PayloadsSent]

(* What a payload was to bring is there.                                   *)
Brought(ref, p) ==
  /\ \A u \in UnitsOf(p) : unit[u] # Nothing
  /\ \A i \in Shipped(p) : OnDoc(DocOf(ref, p, i), UnitAt(p, i))

(* A request that has got as far as its bookkeeping has brought all of its *)
(* payload, and nothing takes a row or a line away again.                  *)
IndImports ==
  /\ nameOf \in [Makes -> Names] /\ batch \in [Refs -> BatchStatuses]
  /\ unit \in [Units -> Rows \cup {Nothing}] /\ upload \in [Senders -> Uploads]
  /\ \A c \in Senders : upload[c].pc # "idle" =>
       upload[c].ref \in Refs /\ upload[c].sent \in Payloads[upload[c].ref]
  /\ \A c \in Senders : upload[c].pc \in {"marking", "storing"} => Brought(upload[c].ref, upload[c].sent)
  /\ ProcessedIsImported

LEMMA AcceptedRecords ==
  ASSUME NEW ref \in Refs, NEW p \in Payloads[ref], NEW i \in Accepted(p)
  PROVE  UnitAt(p, i) \in Units /\ p[i].to \in Depots \cup {Nothing}
<1> DEFINE Record == [ok : BOOLEAN, base : Bases \cup {Nothing}, make : Makes \cup {Nothing},
                      to : Depots \cup {Nothing, "unknown"}, doc : Refs \cup {Nothing}]
<1>1. p \in Seq(Record) /\ \A j \in DOMAIN p : p[j].ok => p[j].base # Nothing
      BY PayloadsAreSequences
<1>2. /\ i \in DOMAIN p /\ p[i].ok /\ p[i].make # Nothing /\ p[i].to # "unknown"
      BY DEF Accepted, Kept, Known
<1>3. \A r \in Record : r.base \in Bases \cup {Nothing} /\ r.make \in Makes \cup {Nothing}
                        /\ r.to \in Depots \cup {Nothing, "unknown"}
      OBVIOUS
<1> HIDE DEF Record
<1>4. p[i] \in Record
      BY <1>1, <1>2
<1>5. p[i].base # Nothing
      BY <1>1, <1>2
<1> QED  BY <1>2, <1>3, <1>4, <1>5 DEF UnitAt, Units

LEMMA PayloadUnits ==
  ASSUME NEW ref \in Refs, NEW p \in Payloads[ref]
  PROVE  UnitsOf(p) \subseteq Units
BY AcceptedRecords DEF UnitsOf

(* The row of a unit that is imported: the one that was there, or one that *)
(* tells the batch.                                                        *)
LEMMA RowOfImport ==
  ASSUME nameOf \in [Makes -> Names], NEW ref \in Refs, NEW p \in Payloads[ref], NEW u \in Units
  PROVE  LET row == InsertSerial(ref, p, u) IN
         /\ unit[u] # Nothing \/ u \notin UnitsOf(p) => row = unit[u]
         /\ unit[u] = Nothing /\ u \in UnitsOf(p) => row \in Rows /\ row # Nothing /\ row.batch = ref
<1> DEFINE i == CHOOSE j \in Accepted(p) : UnitAt(p, j) = u
           row == [name |-> nameOf[u[1]], to |-> p[i].to, batch |-> ref,
                   status |-> IF p[i].to = Nothing THEN "PRODUCED" ELSE "IN_TRANSIT"]
<1>1. CASE unit[u] # Nothing \/ u \notin UnitsOf(p)
  BY <1>1 DEF InsertSerial
<1>2. CASE unit[u] = Nothing /\ u \in UnitsOf(p)
  <2>1. InsertSerial(ref, p, u) = row
        BY <1>2 DEF InsertSerial
  <2>2. \E j \in Accepted(p) : UnitAt(p, j) = u
        BY <1>2 DEF UnitsOf
  <2>3. i \in Accepted(p)
        BY <2>2
  <2> HIDE DEF i
  <2>4. p[i].to \in Depots \cup {Nothing}
        BY <2>3, AcceptedRecords
  <2>5. nameOf[u[1]] \in Names
        BY DEF Units
  <2>6. row \in Rows /\ row.batch = ref
        BY <2>4, <2>5 DEF Rows
  <2> HIDE DEF row
  <2> QED  BY <1>2, <2>1, <2>6, NothingIsNoRow DEF Rows
<1> QED  BY <1>1, <1>2

(* What has been brought stays: rows and lines are only added.             *)
LEMMA BroughtStays ==
  ASSUME NEW ref \in Refs, NEW p \in Payloads[ref], Brought(ref, p),
         \A u \in Units : unit[u] # Nothing => unit'[u] # Nothing, docLines \subseteq docLines'
  PROVE  Brought(ref, p)'
<1>1. \A u \in UnitsOf(p) : unit'[u] # Nothing
      BY PayloadUnits DEF Brought
<1>2. \A d, u : OnDoc(d, u) => OnDoc(d, u)'
      BY DEF OnDoc
<1> QED  BY <1>1, <1>2 DEF Brought, DocOf, UnitAt, Shipped, Accepted, Kept, Known, UnitsOf

(* The import of a payload brings it, and adds no rows but its own.        *)
LEMMA ImportBrings ==
  ASSUME IndImports, NEW c \in Senders, ImportBatch(c),
         NEW ref \in Refs, NEW p \in Payloads[ref], ref = upload[c].ref, p = upload[c].sent
  PROVE  /\ unit' \in [Units -> Rows \cup {Nothing}]
         /\ \A u \in Units : unit[u] # Nothing => unit'[u] = unit[u]
         /\ \A u \in Units : unit[u] = Nothing /\ unit'[u] # Nothing =>
              u \in UnitsOf(p) /\ unit'[u].batch = ref
         /\ docLines \subseteq docLines' /\ Brought(ref, p)'
<1>1. /\ unit' = [u \in Units |-> InsertSerial(ref, p, u)]
      /\ docLines' = docLines \cup NewLines(ref, p)
      BY DEF ImportBatch
<1>2. nameOf \in [Makes -> Names]
      BY DEF IndImports
<1>3. \A u \in Units :
        /\ unit[u] # Nothing \/ u \notin UnitsOf(p) => unit'[u] = unit[u]
        /\ unit[u] = Nothing /\ u \in UnitsOf(p) => unit'[u] # Nothing /\ unit'[u].batch = ref
      BY <1>1, <1>2, RowOfImport
<1>4. \A u \in UnitsOf(p) : unit'[u] # Nothing
      BY <1>3, PayloadUnits
<1>5. unit' \in [Units -> Rows \cup {Nothing}]
  <2>1. \A u \in Units : InsertSerial(ref, p, u) \in Rows \cup {Nothing}
        BY <1>2, RowOfImport DEF IndImports
  <2> QED  BY <1>1, <2>1
<1>6. ASSUME NEW i \in Shipped(p)
      PROVE  \E l \in docLines' : l.doc = DocOf(ref, p, i) /\ l.unit = UnitAt(p, i)
  <2>1. LineAt(ref, p, i).doc = DocOf(ref, p, i) /\ LineAt(ref, p, i).unit = UnitAt(p, i)
        BY DEF LineAt
  <2>2. CASE OnDoc(DocOf(ref, p, i), UnitAt(p, i))
    BY <1>1, <2>2 DEF OnDoc
  <2>3. CASE ~OnDoc(DocOf(ref, p, i), UnitAt(p, i))
    <3>1. LineAt(ref, p, i) \in NewLines(ref, p)
          BY <2>1, <2>3 DEF NewLines
    <3> QED  BY <1>1, <2>1, <3>1
  <2> QED  BY <2>2, <2>3
<1>7. Brought(ref, p)'
      BY <1>4, <1>6 DEF Brought, OnDoc
<1> QED  BY <1>1, <1>3, <1>7, <1>5

LEMMA NoUploadIsOne == NoUpload \in Uploads /\ NoUpload.pc = "idle"
<1>1. <<>> \in PayloadsSent
      BY DEF PayloadsSent
<1> QED  BY <1>1 DEF NoUpload, Uploads, Pcs

LEMMA ImportsStart == ImportInit => IndImports
<1> SUFFICES ASSUME ImportInit PROVE IndImports
  OBVIOUS
<1>1. /\ unit = [u \in Units |-> Nothing] /\ batch = [r \in Refs |-> "NONE"]
      /\ upload = [c \in Senders |-> NoUpload] /\ nameOf \in [Makes -> Names]
      BY DEF ImportInit
<1>3. batch \in [Refs -> BatchStatuses] /\ \A r \in Refs : batch[r] # "PROCESSED"
      BY <1>1 DEF BatchStatuses
<1>4. upload \in [Senders -> Uploads] /\ \A c \in Senders : upload[c].pc = "idle"
      BY <1>1, NoUploadIsOne
<1> QED  BY <1>1, <1>3, <1>4 DEF IndImports, ProcessedIsImported

(* The next step of a request, and its end.                                *)
LEMMA UploadGoes ==
  ASSUME IndImports, NEW c \in Senders, NEW pc \in Pcs, Goto(c, pc)
  PROVE  /\ upload' \in [Senders -> Uploads]
         /\ upload'[c].pc = pc /\ upload'[c].ref = upload[c].ref /\ upload'[c].sent = upload[c].sent
         /\ \A d \in Senders \ {c} : upload'[d] = upload[d]
<1>1. upload[c] \in Uploads
      BY DEF IndImports
<1>2. [upload[c] EXCEPT !.pc = pc] \in Uploads
      BY <1>1 DEF Uploads
<1> QED  BY <1>1, <1>2 DEF IndImports, Goto, Uploads
LEMMA UploadEnds ==
  ASSUME IndImports, NEW c \in Senders, Answer(c)
  PROVE  /\ upload' \in [Senders -> Uploads] /\ upload'[c].pc = "idle"
         /\ \A d \in Senders \ {c} : upload'[d] = upload[d]
BY NoUploadIsOne DEF IndImports, Answer

(* A step that takes nothing away keeps what requests have brought.        *)
LEMMA NothingLost ==
  ASSUME IndImports, nameOf' \in [Makes -> Names], batch' \in [Refs -> BatchStatuses],
         unit' \in [Units -> Rows \cup {Nothing}], upload' \in [Senders -> Uploads],
         \A d \in Senders :
           \/ upload'[d] = upload[d]
           \/ /\ upload'[d].pc # "idle" =>
                   upload'[d].ref \in Refs /\ upload'[d].sent \in Payloads[upload'[d].ref]
              /\ upload'[d].pc \in {"marking", "storing"} => Brought(upload[d].ref, upload[d].sent)',
         \A u \in Units : unit[u] # Nothing => unit'[u] # Nothing, docLines \subseteq docLines',
         \A r \in Refs : batch'[r] = "PROCESSED" =>
           batch[r] = "PROCESSED" \/ \E p \in Payloads[r] : Brought(r, p)
  PROVE  IndImports'
<1>1. \A d \in Senders : upload'[d].pc # "idle" =>
        upload'[d].ref \in Refs /\ upload'[d].sent \in Payloads[upload'[d].ref]
      BY DEF IndImports
<1>2. ASSUME NEW d \in Senders, upload'[d].pc \in {"marking", "storing"}
      PROVE  Brought(upload[d].ref, upload[d].sent)'
  <2>1. CASE upload'[d] # upload[d]
    BY <1>2, <2>1
  <2>2. CASE upload'[d] = upload[d]
    <3>1. PICK r \in Refs : r = upload[d].ref
          BY <1>2, <2>2 DEF IndImports
    <3>2. PICK p \in Payloads[r] : p = upload[d].sent
          BY <1>2, <2>2, <3>1 DEF IndImports
    <3>3. Brought(r, p)
          BY <1>2, <2>2, <3>1, <3>2 DEF IndImports
    <3>4. Brought(r, p)'
          BY <3>3, BroughtStays
    <3>5. r = upload'[d].ref /\ p = upload'[d].sent
          BY <2>2, <3>1, <3>2
    <3> QED  BY <3>4, <3>5
  <2> QED  BY <2>1, <2>2
<1>3. ASSUME NEW r \in Refs, batch'[r] = "PROCESSED"
      PROVE  \E p \in Payloads[r] : Brought(r, p)'
  <2>1. PICK p \in Payloads[r] : Brought(r, p)
        BY <1>3 DEF IndImports, ProcessedIsImported, Brought
  <2> QED  BY <2>1, BroughtStays
<1>4. ProcessedIsImported'
      BY <1>3 DEF ProcessedIsImported, Brought
<1> QED  BY <1>1, <1>2, <1>4 DEF IndImports

LEMMA DeliveryKeeps == IndImports /\ (\E c \in Senders : Deliveries(c)) => IndImports'
<1> SUFFICES ASSUME IndImports, NEW c \in Senders, Deliveries(c) PROVE IndImports'
  OBVIOUS
<1>1. CASE Deliver(c)
  <2>1. PICK ref \in Refs : \E p \in Payloads[ref] :
          /\ upload' = [upload EXCEPT ![c] = [pc |-> "found", ref |-> ref, sent |-> p]]
          /\ UNCHANGED <<nameOf, unit, batch, docTo, docLines, rejected>>
        BY <1>1 DEF Deliver
  <2>2. PICK p \in Payloads[ref] :
          /\ upload' = [upload EXCEPT ![c] = [pc |-> "found", ref |-> ref, sent |-> p]]
          /\ UNCHANGED <<nameOf, unit, batch, docTo, docLines, rejected>>
        BY <2>1
  <2> DEFINE up == [pc |-> "found", ref |-> ref, sent |-> p]
  <2>3. up \in Uploads /\ up.pc = "found" /\ up.ref = ref /\ up.sent = p
    <3>1. p \in PayloadsSent
          BY DEF PayloadsSent, AllSent
    <3> QED  BY <3>1 DEF Uploads, Pcs
  <2>4. upload' = [upload EXCEPT ![c] = up]
        BY <2>2
  <2> HIDE DEF up
  <2>5. /\ upload' \in [Senders -> Uploads] /\ upload'[c] = up
        /\ \A d \in Senders \ {c} : upload'[d] = upload[d]
        BY <2>3, <2>4 DEF IndImports
  <2>6. nameOf' \in [Makes -> Names] /\ batch' \in [Refs -> BatchStatuses] /\ unit' \in [Units -> Rows \cup {Nothing}]
        BY <2>2 DEF IndImports
  <2> QED  BY <2>2, <2>3, <2>5, <2>6, NothingLost
<1>2. CASE CreatePending(c)
  <2>1. Answer(c) \/ (Goto(c, "importing") /\ upload[c].pc = "found")
        BY <1>2 DEF CreatePending, At
  <2>2. /\ upload' \in [Senders -> Uploads] /\ \A d \in Senders \ {c} : upload'[d] = upload[d]
        /\ upload'[c].pc \in {"idle", "importing"}
        /\ upload'[c].pc # "idle" => upload'[c].ref \in Refs /\ upload'[c].sent \in Payloads[upload'[c].ref]
        BY <2>1, UploadGoes, UploadEnds DEF Pcs, IndImports
  <2>3. /\ nameOf' \in [Makes -> Names] /\ batch' \in [Refs -> BatchStatuses] /\ unit' \in [Units -> Rows \cup {Nothing}]
        /\ \A r \in Refs : batch'[r] = "PROCESSED" => batch[r] = "PROCESSED"
        BY <1>2 DEF IndImports, CreatePending, BatchStatuses
  <2>4. unit' = unit /\ docLines' = docLines
        BY <1>2 DEF CreatePending
  <2> QED  BY <2>2, <2>3, <2>4, NothingLost
<1>3. CASE ImportBatch(c)
  <2>1. PICK ref \in Refs : ref = upload[c].ref
        BY <1>3 DEF ImportBatch, At, IndImports
  <2>2. PICK p \in Payloads[ref] : p = upload[c].sent
        BY <1>3, <2>1 DEF ImportBatch, At, IndImports
  <2>3. Goto(c, "marking") /\ UNCHANGED <<nameOf, batch>> /\ unit' = [u \in Units |-> InsertSerial(upload[c].ref, upload[c].sent, u)]
        BY <1>3 DEF ImportBatch
  <2>4. /\ upload' \in [Senders -> Uploads] /\ \A d \in Senders \ {c} : upload'[d] = upload[d]
        /\ upload'[c].ref = ref /\ upload'[c].sent = p
        BY <2>1, <2>2, <2>3, UploadGoes DEF Pcs
  <2>5. /\ unit' \in [Units -> Rows \cup {Nothing}]
        /\ \A u \in Units : unit[u] # Nothing => unit'[u] = unit[u]
        /\ docLines \subseteq docLines' /\ Brought(ref, p)'
        BY <1>3, <2>1, <2>2, ImportBrings
  <2>6. Brought(upload[c].ref, upload[c].sent)'
        BY <2>4, <2>5
  <2>7. nameOf' \in [Makes -> Names] /\ batch' \in [Refs -> BatchStatuses] /\ unit' \in [Units -> Rows \cup {Nothing}]
        BY <2>3, <2>5 DEF IndImports
  <2> QED  BY <2>3, <2>4, <2>5, <2>6, <2>7, NothingLost
<1>4. CASE MarkProcessed(c)
  <2>1. PICK ref \in Refs : ref = upload[c].ref
        BY <1>4 DEF MarkProcessed, At, IndImports
  <2>2. PICK p \in Payloads[ref] : p = upload[c].sent
        BY <1>4, <2>1 DEF MarkProcessed, At, IndImports
  <2>3. /\ batch' = [batch EXCEPT ![ref] = "PROCESSED"] /\ UNCHANGED <<nameOf, unit, docLines>>
        /\ Answer(c) \/ Goto(c, "storing")
        BY <1>4, <2>1 DEF MarkProcessed
  <2>4. Brought(ref, p)
        BY <1>4, <2>1, <2>2 DEF MarkProcessed, At, IndImports
  <2>5. /\ upload' \in [Senders -> Uploads] /\ \A d \in Senders \ {c} : upload'[d] = upload[d]
        /\ upload'[c].pc = "idle" \/ (upload'[c].ref = ref /\ upload'[c].sent = p)
    <3>1. CASE Answer(c)
      BY <3>1, UploadEnds
    <3>2. CASE Goto(c, "storing")
      BY <2>1, <2>2, <3>2, UploadGoes DEF Pcs
    <3> QED  BY <2>3, <3>1, <3>2
  <2>6. Brought(ref, p)'
        BY <2>3, <2>4, BroughtStays
  <2>7. upload'[c].pc # "idle" => Brought(upload[c].ref, upload[c].sent)'
        BY <2>5, <2>6
  <2>8. nameOf' \in [Makes -> Names] /\ batch' \in [Refs -> BatchStatuses] /\ unit' \in [Units -> Rows \cup {Nothing}]
        BY <2>3 DEF IndImports, BatchStatuses
  <2>9. \A r \in Refs : batch'[r] = "PROCESSED" =>
          batch[r] = "PROCESSED" \/ \E q \in Payloads[r] : Brought(r, q)
        BY <2>3, <2>4 DEF IndImports
  <2> QED  BY <2>3, <2>5, <2>7, <2>8, <2>9, NothingLost
<1>5. CASE StoreRejections(c) \/ RefuseRejections(c) \/ MarkFailed(c)
  <2>1. Answer(c) \/ (Goto(c, "failing") /\ upload[c].pc # "idle")
        BY <1>5 DEF StoreRejections, RefuseRejections, MarkFailed, At
  <2>2. /\ upload' \in [Senders -> Uploads] /\ \A d \in Senders \ {c} : upload'[d] = upload[d]
        /\ upload'[c].pc \in {"idle", "failing"}
        /\ upload'[c].pc # "idle" => upload'[c].ref \in Refs /\ upload'[c].sent \in Payloads[upload'[c].ref]
        BY <2>1, UploadGoes, UploadEnds DEF Pcs, IndImports
  <2>3. /\ nameOf' = nameOf /\ unit' = unit /\ docLines' = docLines
        /\ UNCHANGED batch \/ batch' = [batch EXCEPT ![upload[c].ref] = "FAILED"]
        BY <1>5 DEF StoreRejections, RefuseRejections, MarkFailed
  <2>4. /\ nameOf' \in [Makes -> Names] /\ batch' \in [Refs -> BatchStatuses] /\ unit' \in [Units -> Rows \cup {Nothing}]
        /\ \A r \in Refs : batch'[r] = "PROCESSED" => batch[r] = "PROCESSED"
        BY <2>3 DEF IndImports, BatchStatuses
  <2> QED  BY <2>2, <2>3, <2>4, NothingLost
<1> QED  BY <1>1, <1>2, <1>3, <1>4, <1>5 DEF Deliveries

LEMMA ImportsStep == IndImports /\ [ImportNext]_importVars => IndImports'
<1> SUFFICES ASSUME IndImports, [ImportNext]_importVars PROVE IndImports'
  OBVIOUS
<1>1. CASE UNCHANGED importVars
  BY <1>1 DEF importVars, IndImports, Brought, OnDoc, ProcessedIsImported
<1>2. ASSUME NEW c \in Senders, AbortImport(c) \/ BookkeepingFails(c) \/ ImporterDies(c)
      PROVE  IndImports'
  <2>1. Answer(c) \/ (Goto(c, "failing") /\ upload[c].pc # "idle")
        BY <1>2 DEF AbortImport, BookkeepingFails, ImporterDies, At
  <2>2. /\ upload' \in [Senders -> Uploads] /\ \A d \in Senders \ {c} : upload'[d] = upload[d]
        /\ upload'[c].pc \in {"idle", "failing"}
        /\ upload'[c].pc # "idle" => upload'[c].ref \in Refs /\ upload'[c].sent \in Payloads[upload'[c].ref]
        BY <2>1, UploadGoes, UploadEnds DEF Pcs, IndImports
  <2>3. UNCHANGED <<nameOf, unit, batch, docLines>>
        BY <1>2 DEF AbortImport, BookkeepingFails, ImporterDies
  <2>4. nameOf' \in [Makes -> Names] /\ batch' \in [Refs -> BatchStatuses] /\ unit' \in [Units -> Rows \cup {Nothing}]
        BY <2>3 DEF IndImports
  <2> QED  BY <2>2, <2>3, <2>4, NothingLost
<1>3. ASSUME NEW u \in Units, UnitReceived(u) PROVE IndImports'
  <2> DEFINE row == [unit[u] EXCEPT !.status = "IN_STOCK"]
  <2>1. /\ unit' = [unit EXCEPT ![u] = row] /\ unit[u] # Nothing
        /\ UNCHANGED <<nameOf, batch, docLines, upload>>
        BY <1>3 DEF UnitReceived
  <2>2. unit[u] \in Rows
        BY <2>1 DEF IndImports
  <2>3. row \in Rows
        BY <2>2 DEF Rows
  <2> HIDE DEF row
  <2>4. row # Nothing
        BY <2>3, NothingIsNoRow DEF Rows
  <2>5. unit' \in [Units -> Rows \cup {Nothing}] /\ \A v \in Units : unit[v] # Nothing => unit'[v] # Nothing
        BY <2>1, <2>3, <2>4 DEF IndImports
  <2>6. /\ nameOf' \in [Makes -> Names] /\ batch' \in [Refs -> BatchStatuses]
        /\ upload' \in [Senders -> Uploads] /\ upload' = upload /\ docLines' = docLines /\ batch' = batch
        BY <2>1 DEF IndImports
  <2> QED  BY <2>5, <2>6, NothingLost
<1>4. ASSUME NEW m \in Makes, NEW n \in Names, ProductRenamed(m, n) PROVE IndImports'
  <2>1. nameOf' = [nameOf EXCEPT ![m] = n] /\ UNCHANGED <<unit, batch, docLines, upload>>
        BY <1>4 DEF ProductRenamed
  <2>2. /\ nameOf' \in [Makes -> Names] /\ batch' \in [Refs -> BatchStatuses]
        /\ upload' \in [Senders -> Uploads] /\ unit' \in [Units -> Rows \cup {Nothing}]
        BY <2>1 DEF IndImports
  <2>3. unit' = unit /\ upload' = upload /\ docLines' = docLines /\ batch' = batch
        BY <2>1
  <2> QED  BY <2>2, <2>3, NothingLost
<1> QED  BY <1>1, <1>2, <1>3, <1>4, DeliveryKeeps DEF ImportNext

(* What a batch said to be processed brought is there: every unit it was   *)
(* to import, and the line of every unit that was shipped, whatever failed *)
(* or overlapped on the way (productionImport.js:75-224).                  *)
THEOREM ProcessedBatchesAreThere == ImportSpec => []ProcessedIsImported
<1>1. IndImports => ProcessedIsImported
      BY DEF IndImports
<1> QED  BY <1>1, ImportsStart, ImportsStep, PTL DEF ImportSpec

(* The rows that a step of the import may write.                           *)
LEMMA RowsOfStep ==
  ASSUME IndImports, [ImportNext]_importVars
  PROVE  \/ UNCHANGED unit
         \/ \E c \in Senders : ImportBatch(c)
         \/ \E u \in Units : UnitReceived(u)
BY DEF ImportNext, importVars, Deliveries, Deliver, CreatePending, MarkProcessed, StoreRejections,
       RefuseRejections, MarkFailed, AbortImport, BookkeepingFails, ImporterDies, ProductRenamed

LEMMA ReceivedRow ==
  ASSUME IndImports, NEW u \in Units, UnitReceived(u)
  PROVE  \A v \in Units : unit'[v] = IF v = u THEN [unit[v] EXCEPT !.status = "IN_STOCK"] ELSE unit[v]
BY DEF UnitReceived, IndImports

LEMMA RowsStand == IndImports /\ [ImportNext]_importVars => \A u \in Units : unit[u] # Nothing =>
  unit'[u] \in {unit[u], [unit[u] EXCEPT !.status = "IN_STOCK"]}
<1> SUFFICES ASSUME IndImports, [ImportNext]_importVars, NEW u \in Units, unit[u] # Nothing
             PROVE  unit'[u] \in {unit[u], [unit[u] EXCEPT !.status = "IN_STOCK"]}
  OBVIOUS
<1>1. ASSUME NEW c \in Senders, ImportBatch(c) PROVE unit'[u] = unit[u]
  <2>1. PICK ref \in Refs : ref = upload[c].ref
        BY <1>1 DEF ImportBatch, At, IndImports
  <2>2. PICK p \in Payloads[ref] : p = upload[c].sent
        BY <1>1, <2>1 DEF ImportBatch, At, IndImports
  <2> QED  BY <1>1, <2>1, <2>2, ImportBrings
<1> QED  BY <1>1, RowsOfStep, ReceivedRow

(* A batch that is sent again does not undo what has happened to its units *)
(* since: no import changes a row that is there (serialRepository.js:77).  *)
LEMMA ImportsKeepRows == ImportSpec => RowsAreKept
<1>1. IndImports /\ [ImportNext]_importVars =>
        [\A u \in Units : unit[u] # Nothing =>
           unit'[u] \in {unit[u], [unit[u] EXCEPT !.status = "IN_STOCK"]}]_importVars
      BY RowsStand
<1> QED  BY <1>1, ImportsStart, ImportsStep, PTL DEF ImportSpec, RowsAreKept

LEMMA NewRowsAreWhole ==
  ASSUME IndImports, [ImportNext]_importVars,
         NEW new, new = {u \in Units : unit[u] = Nothing /\ unit'[u] # Nothing}, new # {}
  PROVE  \E ref \in Refs : \E p \in Payloads[ref] :
           /\ new \subseteq UnitsOf(p) /\ \A u \in UnitsOf(p) : unit'[u] # Nothing
           /\ \A u \in new : unit'[u].batch = ref
           /\ \A i \in Shipped(p) : OnDoc(DocOf(ref, p, i), UnitAt(p, i))'
<1>1. PICK c \in Senders : ImportBatch(c)
  <2>1. CASE UNCHANGED unit
    BY <2>1
  <2>2. ASSUME NEW u \in Units, UnitReceived(u) PROVE FALSE
    <3>1. unit[u] # Nothing
          BY <2>2 DEF UnitReceived
    <3> QED  BY <2>2, <3>1, ReceivedRow
  <2> QED  BY <2>1, <2>2, RowsOfStep
<1>2. PICK ref \in Refs : ref = upload[c].ref
      BY <1>1 DEF ImportBatch, At, IndImports
<1>3. PICK p \in Payloads[ref] : p = upload[c].sent
      BY <1>1, <1>2 DEF ImportBatch, At, IndImports
<1>4. /\ \A u \in Units : unit[u] = Nothing /\ unit'[u] # Nothing =>
           u \in UnitsOf(p) /\ unit'[u].batch = ref
      /\ Brought(ref, p)'
      BY <1>1, <1>2, <1>3, ImportBrings
<1> QED  BY <1>4 DEF Brought

(* A unit appears together with all of its batch and with the lines of the *)
(* batch, or not at all: a batch that fails on one row, is sent again, or  *)
(* dies half way leaves no part of itself (productionImport.js:76-203).    *)
LEMMA BatchesAppearWhole == ImportSpec => WholeBatches
<1>1. IndImports /\ [ImportNext]_importVars =>
        [LET new == {u \in Units : unit[u] = Nothing /\ unit'[u] # Nothing}
         IN  new # {} => \E ref \in Refs : \E p \in Payloads[ref] :
               /\ new \subseteq UnitsOf(p) /\ \A u \in UnitsOf(p) : unit'[u] # Nothing
               /\ \A u \in new : unit'[u].batch = ref
               /\ \A i \in Shipped(p) : OnDoc(DocOf(ref, p, i), UnitAt(p, i))']_importVars
      BY NewRowsAreWhole
<1> QED  BY <1>1, ImportsStart, ImportsStep, PTL DEF ImportSpec, WholeBatches

(* However often a batch is delivered, in whatever overlap and with        *)
(* whatever failures, deliveries only add, and whole batches at a time.    *)
THEOREM DeliveriesAddWholeBatches == ImportSpec => DeliveriesOnlyAdd
<1> QED  BY ImportsKeepRows, BatchesAppearWhole DEF DeliveriesOnlyAdd

(* The types of documents and rejections: a document goes somewhere as soon *)
(* as it has a line, which the last record that is on it decides.          *)
DocumentsTyped ==
  /\ docTo \in [Refs -> Depots \cup {Nothing}] /\ rejected \in [Refs -> SUBSET Nat]
  /\ \A l \in docLines : /\ l.doc \in Refs /\ l.unit \in Units /\ l.no \in Nat \ {0}
                         /\ unit[l.unit] # Nothing /\ docTo[l.doc] # Nothing

(* What the payload's records give a document.                             *)
LEMMA ShippedRecords ==
  ASSUME NEW ref \in Refs, NEW p \in Payloads[ref]
  PROVE  /\ Len(p) \in Nat /\ Shipped(p) \subseteq 1..Len(p) /\ Rejected(p) \subseteq Nat
         /\ \A i \in Shipped(p) : /\ i \in Accepted(p) /\ p[i].to \in Depots /\ p[i].to # Nothing
                                  /\ DocOf(ref, p, i) \in Refs
<1> DEFINE Record == [ok : BOOLEAN, base : Bases \cup {Nothing}, make : Makes \cup {Nothing},
                      to : Depots \cup {Nothing, "unknown"}, doc : Refs \cup {Nothing}]
<1>1. p \in Seq(Record)
  BY PayloadsAreSequences
<1>2. \A r \in Record : r.doc \in Refs \cup {Nothing}
  OBVIOUS
<1> HIDE DEF Record
<1>3. Len(p) \in Nat /\ DOMAIN p = 1..Len(p) /\ \A i \in DOMAIN p : p[i] \in Record
  BY <1>1
<1>4. Shipped(p) \subseteq 1..Len(p) /\ Rejected(p) \subseteq 1..Len(p)
  BY <1>3 DEF Shipped, Rejected, Accepted, Kept
<1>5. ASSUME NEW i \in Shipped(p)
      PROVE  i \in Accepted(p) /\ p[i].to \in Depots /\ p[i].to # Nothing /\ DocOf(ref, p, i) \in Refs
  <2>1. i \in Accepted(p) /\ p[i].to # Nothing
    BY DEF Shipped
  <2>2. p[i].to \in Depots
    BY <2>1, AcceptedRecords
  <2>3. p[i].doc \in Refs \cup {Nothing}
    BY <1>2, <1>3, <1>4
  <2> QED BY <2>1, <2>2, <2>3 DEF DocOf
<1> QED BY <1>3, <1>4, <1>5

(* The last of the records on a document is there, for their positions    *)
(* are bounded.                                                            *)
LEMMA DestinationIsGiven ==
  ASSUME DocumentsTyped, NEW ref \in Refs, NEW p \in Payloads[ref], NEW d \in Refs
  PROVE  /\ UpsertDestination(ref, p, d) \in Depots \cup {Nothing}
         /\ docTo[d] # Nothing \/ (\E i \in Shipped(p) : DocOf(ref, p, i) = d)
              => UpsertDestination(ref, p, d) # Nothing
<1> DEFINE on == {i \in Shipped(p) : DocOf(ref, p, i) = d}
           last == CHOOSE i \in on : \A j \in on : j <= i
<1>1. CASE on = {}
  BY <1>1 DEF UpsertDestination, DocumentsTyped
<1>2. CASE on # {}
  <2>1. on \subseteq 1..Len(p) /\ Len(p) \in Nat
    BY ShippedRecords
  <2>2. \E i \in on : \A j \in on : j <= i
    <3> HIDE DEF on
    <3> QED BY <1>2, <2>1, GreatestElement
  <2>3. last \in on
    <3> HIDE DEF on
    <3> QED BY <2>2
  <2>4. UpsertDestination(ref, p, d) = p[last].to
    BY <1>2 DEF UpsertDestination
  <2>5. last \in Shipped(p)
    BY <2>3
  <2> HIDE DEF last
  <2> QED BY <2>4, <2>5, ShippedRecords
<1> QED BY <1>1, <1>2

(* A line is numbered by how many are on its document up to it, itself    *)
(* among them.                                                             *)
LEMMA LinesAreNumbered ==
  ASSUME NEW ref \in Refs, NEW p \in Payloads[ref], NEW i \in Shipped(p)
  PROVE  LineAt(ref, p, i).no \in Nat \ {0}
<1> DEFINE S == {j \in Shipped(p) : j <= i /\ DocOf(ref, p, j) = DocOf(ref, p, i)}
<1>1. Len(p) \in Nat /\ Shipped(p) \subseteq 1..Len(p)
  BY ShippedRecords
<1>2. IsFiniteSet(1..Len(p))
  <2>1. 1 \in Int /\ Len(p) \in Int
    BY <1>1
  <2> QED BY <2>1, FS_Interval
<1>3. S \subseteq 1..Len(p) /\ i \in S
  BY <1>1
<1> HIDE DEF S
<1>4. IsFiniteSet(S) /\ Cardinality(S) \in Nat /\ Cardinality(S) # 0
  BY <1>2, <1>3, FS_Subset, FS_CardinalityType, FS_EmptySet
<1> QED BY <1>4 DEF LineAt, S

LEMMA ImportKeepsDocuments ==
  ASSUME IndImports, DocumentsTyped, NEW c \in Senders, ImportBatch(c)
  PROVE  DocumentsTyped'
<1>1. PICK ref \in Refs : ref = upload[c].ref
  BY DEF ImportBatch, At, IndImports
<1>2. PICK p \in Payloads[ref] : p = upload[c].sent
  BY <1>1 DEF ImportBatch, At, IndImports
<1>3. /\ docTo' = [d \in Refs |-> UpsertDestination(ref, p, d)]
      /\ docLines' = docLines \cup NewLines(ref, p)
      /\ rejected' = rejected
  BY <1>1, <1>2 DEF ImportBatch
<1>4. /\ \A u \in Units : unit[u] # Nothing => unit'[u] = unit[u]
      /\ \A u \in UnitsOf(p) : unit'[u] # Nothing
  BY <1>1, <1>2, ImportBrings DEF Brought, UnitsOf, UnitAt, Accepted, Kept, Known
<1>5. docTo' \in [Refs -> Depots \cup {Nothing}]
  BY <1>3, DestinationIsGiven
<1>6. ASSUME NEW l \in docLines
      PROVE  /\ l.doc \in Refs /\ l.unit \in Units /\ l.no \in Nat \ {0}
             /\ unit'[l.unit] # Nothing /\ docTo'[l.doc] # Nothing
  BY <1>3, <1>4, DestinationIsGiven DEF DocumentsTyped
<1>7. ASSUME NEW l \in NewLines(ref, p)
      PROVE  /\ l.doc \in Refs /\ l.unit \in Units /\ l.no \in Nat \ {0}
             /\ unit'[l.unit] # Nothing /\ docTo'[l.doc] # Nothing
  <2>1. PICK i \in Shipped(p) : l = LineAt(ref, p, i)
    BY DEF NewLines
  <2>2. l.doc = DocOf(ref, p, i) /\ l.unit = UnitAt(p, i) /\ l.no \in Nat \ {0}
    <3>1. l.no \in Nat \ {0}
      BY <2>1, LinesAreNumbered
    <3> QED BY <2>1, <3>1 DEF LineAt
  <2>3. l.doc \in Refs /\ i \in Accepted(p)
    BY <2>2, ShippedRecords
  <2>4. l.unit \in Units /\ l.unit \in UnitsOf(p)
    BY <2>2, <2>3, AcceptedRecords DEF UnitsOf
  <2>5. docTo'[l.doc] # Nothing
    BY <1>3, <2>2, <2>3, DestinationIsGiven
  <2> QED BY <1>4, <2>2, <2>3, <2>4, <2>5
<1>8. rejected' \in [Refs -> SUBSET Nat]
  BY <1>3 DEF DocumentsTyped
<1> QED BY <1>3, <1>5, <1>6, <1>7, <1>8 DEF DocumentsTyped

LEMMA DocumentsStep ==
  ASSUME IndImports, DocumentsTyped, [ImportNext]_importVars
  PROVE  DocumentsTyped'
<1>1. ASSUME NEW c \in Senders, ImportBatch(c) PROVE DocumentsTyped'
  BY <1>1, ImportKeepsDocuments
<1>2. ASSUME UNCHANGED <<docTo, docLines>>, rejected' \in [Refs -> SUBSET Nat],
             \A u \in Units : unit[u] # Nothing => unit'[u] # Nothing
      PROVE  DocumentsTyped'
  BY <1>2 DEF DocumentsTyped
<1>3. \A u \in Units : unit[u] # Nothing => unit'[u] # Nothing
  <2>1. SUFFICES ASSUME NEW u \in Units, unit[u] # Nothing, unit'[u] = [unit[u] EXCEPT !.status = "IN_STOCK"]
                 PROVE  unit'[u] # Nothing
    BY RowsStand
  <2>2. unit[u] \in Rows
    BY <2>1 DEF IndImports
  <2>3. unit'[u] \in Rows
    BY <2>1, <2>2 DEF Rows
  <2> QED BY <2>3, NothingIsNoRow DEF Rows
<1>4. rejected \in [Refs -> SUBSET Nat]
  BY DEF DocumentsTyped
<1>5. ASSUME NEW c \in Senders, StoreRejections(c) PROVE DocumentsTyped'
  <2>1. PICK ref \in Refs : ref = upload[c].ref
    BY <1>5 DEF StoreRejections, At, IndImports
  <2>2. PICK p \in Payloads[ref] : p = upload[c].sent
    BY <1>5, <2>1 DEF StoreRejections, At, IndImports
  <2>3. Rejected(p) \subseteq Nat
    BY ShippedRecords
  <2>4. rejected' = [rejected EXCEPT ![ref] = @ \cup Rejected(p)] /\ UNCHANGED <<docTo, docLines>>
    BY <1>5, <2>1, <2>2 DEF StoreRejections
  <2> QED BY <1>2, <1>3, <1>4, <2>3, <2>4
<1>6. ASSUME UNCHANGED <<docTo, docLines, rejected>> PROVE DocumentsTyped'
  BY <1>2, <1>3, <1>4, <1>6
<1> QED
  BY <1>1, <1>5, <1>6 DEF ImportNext, importVars, Deliveries, Deliver, CreatePending, MarkProcessed,
     RefuseRejections, MarkFailed, AbortImport, BookkeepingFails, ImporterDies, ProductRenamed, UnitReceived

LEMMA ImportTypes == IndImports /\ DocumentsTyped => ImportTypeOK
BY DEF IndImports, DocumentsTyped, ImportTypeOK, Rows, Uploads, Pcs

LEMMA DocumentsStart == ImportInit => DocumentsTyped
BY DEF ImportInit, DocumentsTyped

(* Whatever is delivered, to however many requests: a line of a document   *)
(* is of a unit that is there, and its document goes somewhere.            *)
THEOREM ImportTypesHold == ImportSpec => []ImportTypeOK
BY ImportsStart, ImportsStep, DocumentsStart, DocumentsStep, ImportTypes, PTL DEF ImportSpec

-----------------------------------------------------------------------------
(* Numbers (Numbering).  The two unique indexes are kept, whatever name a  *)
(* product has had and wherever a unit is: no two units have one full      *)
(* number, none of one product are stamped alike.                          *)
Numbered ==
  /\ IsFiniteSet(registry)
  /\ \A u, v \in registry : u.number = v.number => u = v
  /\ \A u, v \in registry : u.kind = v.kind /\ u.base = v.base => u = v
  /\ \A u \in registry : u \in [kind : {u.kind}, base : {u.base}, number : {u.number},
                                gone : {u.gone}, at : {u.at}, bound : {u.bound}]

LEMMA NumberedStep == Numbered /\ [NumberingNext]_numberingVars => Numbered'
<1> SUFFICES ASSUME Numbered, [NumberingNext]_numberingVars PROVE Numbered'
  OBVIOUS
<1>1. ASSUME NEW k, NEW s, NEW w, Register(k, s, w) PROVE Numbered'
  <2>1. PICK n : n = [kind |-> k, base |-> BaseFrom(s, prefix[k]), number |-> Compose(s, prefix[k]),
                      gone |-> FALSE, at |-> Unknown, bound |-> w]
    OBVIOUS
  <2>2. /\ n \in [kind : {n.kind}, base : {n.base}, number : {n.number}, gone : {n.gone}, at : {n.at}, bound : {n.bound}]
        /\ n.kind = k /\ n.base = BaseFrom(s, prefix[k]) /\ n.number = Compose(s, prefix[k])
    BY <2>1
  <2>3. registry' = registry \cup {n}
    BY <1>1, <2>1 DEF Register
  <2>4. \A u \in registry : u.number # n.number /\ (u.kind # n.kind \/ u.base # n.base)
    BY <1>1, <2>2 DEF Register
  <2>5. IsFiniteSet(registry')
    BY <2>3, FS_AddElement DEF Numbered
  <2>6. QED
    BY <2>2, <2>3, <2>4, <2>5 DEF Numbered
<1>2. ASSUME NEW u \in registry, NEW w, NEW gone, Move(u, w, gone) PROVE Numbered'
  <2>1. PICK n : n = [u EXCEPT !.at = w, !.gone = gone]
    OBVIOUS
  <2>2. /\ n \in [kind : {n.kind}, base : {n.base}, number : {n.number}, gone : {n.gone}, at : {n.at}, bound : {n.bound}]
        /\ n.kind = u.kind /\ n.base = u.base /\ n.number = u.number
    BY <2>1 DEF Numbered
  <2>3. registry' = (registry \ {u}) \cup {n}
    BY <1>2, <2>1 DEF Move
  <2>4. IsFiniteSet(registry')
    BY <2>3, FS_AddElement, FS_RemoveElement DEF Numbered
  <2>5. QED
    BY <2>2, <2>3, <2>4 DEF Numbered
<1>3. ASSUME UNCHANGED registry PROVE Numbered'
  BY <1>3 DEF Numbered
<1>4. QED
  BY <1>1, <1>2, <1>3 DEF NumberingNext, Rename, Refuse, numberingVars

\* What is resolved: a finite set of units that bear the number.
LEMMA FoundBear ==
    ASSUME Numbered, NEW number, NEW k
    PROVE  /\ Resolve(number, k) \subseteq {u \in registry : number \in {u.number, u.base}}
           /\ IsFiniteSet(Resolve(number, k)) /\ Cardinality(Resolve(number, k)) \in Nat
<1>1. Resolve(number, k) \subseteq {u \in registry : number \in {u.number, u.base}}
  BY DEF Resolve
<1>2. IsFiniteSet(Resolve(number, k))
  BY <1>1, FS_Subset DEF Numbered
<1>3. QED
  BY <1>1, <1>2, FS_CardinalityType

LEMMA AloneInSet ==
    ASSUME NEW S, IsFiniteSet(S), NEW x \in S
    PROVE  /\ ~(Cardinality(S) > 1) => S = {x}
           /\ (\A y \in S : y = x) => ~(Cardinality(S) > 1)
<1>1. S = {x} => Cardinality(S) = 1
  BY FS_Singleton
<1>2. ASSUME NEW y \in S, y # x, ~(Cardinality(S) > 1) PROVE FALSE
  <2>1. Cardinality({x}) = 1 /\ IsFiniteSet({x})
    BY FS_Singleton
  <2>2. Cardinality({x} \cup {y}) = 2
    BY <1>2, <2>1, FS_AddElement
  <2>3. {x} \cup {y} \subseteq S
    BY <1>2
  <2>4. Cardinality({x} \cup {y}) <= Cardinality(S) /\ Cardinality(S) \in Nat
    BY <2>3, FS_Subset, FS_CardinalityType
  <2>5. QED
    BY <1>2, <2>2, <2>4
<1>3. QED
  BY <1>1, <1>2

\* No scan picks the wrong unit.
THEOREM NoScanIsMistaken == NumberingSpec => []ScansResolve
<1>1. NumberingInit => Numbered
  BY FS_EmptySet DEF NumberingInit, Numbered
<1>2. Numbered => ScansResolve
  <2> SUFFICES ASSUME Numbered, NEW q \in Scans(UNION {{u.number, u.base} : u \in registry})
      PROVE  LET bearers == {u \in registry : q.number \in {u.number, u.base}}
                 meant == {u \in bearers : ~OtherProduct(u, q)}
                 hidden == \E u \in bearers : u.number = q.number /\ u \notin meant IN
             /\ Valid(q) => /\ Answered(q) \in bearers
                            /\ q.kind \in {Answered(q).kind, Unknown}
                            /\ \A u \in meant : u = Answered(q) \/ q.number = Answered(q).number
             /\ RuleBroken(q) = "NOT_FOUND" => meant = {}
             /\ RuleBroken(q) = "PRODUCT_INVOICE_MISMATCH" => hidden
             /\ RuleBroken(q) = "AMBIGUOUS_SERIAL" => q.kind = Unknown /\ Cardinality(bearers) > 1
    BY DEF ScansResolve
  <2> DEFINE bearers == {u \in registry : q.number \in {u.number, u.base}}
             meant == {u \in bearers : ~OtherProduct(u, q)}
             found == Resolve(q.number, q.kind)
             exact == {u \in registry : u.number = q.number}
  <2>0. /\ exact # {} => found = exact
        /\ exact = {} => found = {u \in registry : u.base = q.number /\ q.kind \in {u.kind, Unknown}}
    BY DEF Resolve
  <2>1. found \subseteq bearers /\ IsFiniteSet(found) /\ Cardinality(found) \in Nat
    <3> HIDE DEF exact
    <3>1. QED
      BY FoundBear
  <2>2. found # {} => Answered(q) \in found
    BY DEF Answered
  <2>3. exact = {} => meant \subseteq found
    BY <2>0 DEF OtherProduct
  <2>4. Valid(q) => /\ Answered(q) \in bearers
                    /\ q.kind \in {Answered(q).kind, Unknown}
                    /\ \A u \in meant : u = Answered(q) \/ q.number = Answered(q).number
    <3> SUFFICES ASSUME Valid(q) PROVE /\ Answered(q) \in bearers
                    /\ q.kind \in {Answered(q).kind, Unknown}
                    /\ \A u \in meant : u = Answered(q) \/ q.number = Answered(q).number
      OBVIOUS
    <3>1. found # {} /\ ~(Cardinality(found) > 1) /\ ~OtherProduct(Answered(q), q)
      BY DEF Valid, RuleBroken, Answered
    <3>2. found = {Answered(q)}
      BY <2>1, <2>2, <3>1, AloneInSet
    <3>3. QED
      BY <2>0, <2>1, <2>2, <2>3, <3>1, <3>2 DEF OtherProduct
  <2>5. RuleBroken(q) = "NOT_FOUND" => meant = {}
    <3>1. RuleBroken(q) = "NOT_FOUND" => found = {}
      BY DEF RuleBroken
    <3>2. QED
      BY <2>0, <2>3, <3>1
  <2>6. RuleBroken(q) = "PRODUCT_INVOICE_MISMATCH" => \E u \in bearers : u.number = q.number /\ u \notin meant
    <3>1. RuleBroken(q) = "PRODUCT_INVOICE_MISMATCH" => found # {} /\ OtherProduct(Answered(q), q)
      BY DEF RuleBroken, Answered
    <3>2. QED
      BY <2>0, <2>1, <2>2, <3>1 DEF OtherProduct
  <2>7. RuleBroken(q) = "AMBIGUOUS_SERIAL" => q.kind = Unknown /\ Cardinality(bearers) > 1
    <3> SUFFICES ASSUME RuleBroken(q) = "AMBIGUOUS_SERIAL" PROVE q.kind = Unknown /\ Cardinality(bearers) > 1
      OBVIOUS
    <3>1. found # {} /\ Cardinality(found) > 1
      BY DEF RuleBroken
    <3>2. PICK x \in found : \E y \in found : y # x
      BY <2>1, <3>1, AloneInSet
    <3>3. q.kind = Unknown
      BY <2>0, <3>2 DEF Numbered
    <3>4. IsFiniteSet(bearers)
      BY FS_Subset DEF Numbered
    <3>5. Cardinality(found) <= Cardinality(bearers) /\ Cardinality(bearers) \in Nat
      BY <2>1, <3>4, FS_Subset, FS_CardinalityType
    <3>6. QED
      BY <2>1, <3>1, <3>3, <3>5
  <2>8. QED
    BY <2>4, <2>5, <2>6, <2>7
<1>3. QED
  BY <1>1, <1>2, NumberedStep, PTL DEF NumberingSpec

(* What is registered is composed in the step that registers it.           *)
LEMMA NumberingTypesStep == NumberingTypeOK /\ [NumberingNext]_numberingVars => NumberingTypeOK'
<1> SUFFICES ASSUME NumberingTypeOK, [NumberingNext]_numberingVars PROVE NumberingTypeOK'
  OBVIOUS
<1>1. ASSUME NEW k \in Brands, NEW p \in Prefixes, Rename(k, p) PROVE NumberingTypeOK'
  BY <1>1 DEF Rename, NumberingTypeOK
<1>2. ASSUME NEW k \in Brands, NEW s \in Stamps, NEW w \in Yards \cup {Unknown}, Register(k, s, w)
      PROVE  NumberingTypeOK'
  <2>1. BaseFrom(s, prefix[k]) \in BaseNumbers /\ Compose(s, prefix[k]) \in FullNumbers
    BY DEF NumberingTypeOK, BaseNumbers, FullNumbers
  <2>2. [kind |-> k, base |-> BaseFrom(s, prefix[k]), number |-> Compose(s, prefix[k]),
         gone |-> FALSE, at |-> Unknown, bound |-> w] \in Registrable
    BY <2>1 DEF Registrable
  <2> QED BY <1>2, <2>2 DEF Register, NumberingTypeOK
<1>3. ASSUME NEW u \in registry, NEW w \in Yards \cup {Unknown}, NEW gone \in BOOLEAN, Move(u, w, gone)
      PROVE  NumberingTypeOK'
  <2>1. [u EXCEPT !.at = w, !.gone = gone] \in Registrable
    BY DEF NumberingTypeOK, Registrable
  <2> QED BY <1>3, <2>1 DEF Move, NumberingTypeOK
<1>4. ASSUME NEW q \in Scans(Numerals), Refuse(q) PROVE NumberingTypeOK'
  <2>1. RuleBroken(q) \in Rules
    BY <1>4 DEF Refuse, Valid, RuleBroken, Rules
  <2>2. q.number \in Numerals /\ q.context \in Contexts
    BY DEF Scans
  <2> QED BY <1>4, <2>1, <2>2 DEF Refuse, NumberingTypeOK
<1>5. CASE UNCHANGED numberingVars
  BY <1>5 DEF numberingVars, NumberingTypeOK
<1> QED BY <1>1, <1>2, <1>3, <1>4, <1>5 DEF NumberingNext

LEMMA NumberingTypesStart == NumberingInit => NumberingTypeOK
BY DEF NumberingInit, NumberingTypeOK

(* A unit has a number that a name its product has had can give.           *)
THEOREM NumberingTypesHold == NumberingSpec => []NumberingTypeOK
BY NumberingTypesStart, NumberingTypesStep, PTL DEF NumberingSpec

-----------------------------------------------------------------------------
(* Migrations.  A run has behind it only what is recorded; at its COMMIT   *)
(* it holds the row of the next one, which nobody has committed and nobody *)
(* else holds.                                                             *)
RunnersOK ==
  /\ schema \in Seq(Nat)
  /\ runner \in [Runners -> [pc : RunnerSteps, has : Releases \cup {0}, next : Nat \ {0}]]
BehindIsRecorded == \A r \in Runners : 1..(runner[r].next - 1) \subseteq recorded
RowIsNew == \A r \in Runners : RunnerAt(r, "commit") => runner[r].next \notin recorded
RowIsHeldByOne == \A r, q \in Runners :
  RunnerAt(r, "commit") /\ RunnerAt(q, "commit") /\ runner[r].next = runner[q].next => r = q
IndMigration ==
  RunnersOK /\ AppliedOnceInOrder /\ BehindIsRecorded /\ RowIsNew /\ RowIsHeldByOne

(* The row a run is about to commit is that of the migration after the     *)
(* ones in effect.                                                         *)
LEMMA CommitsTheNext ==
  ASSUME IndMigration, NEW r \in Runners, RunnerAt(r, "commit")
  PROVE  /\ runner[r].next = Len(schema) + 1
         /\ \A q \in Runners : RunnerAt(q, "commit") => q = r
<1>1. ASSUME NEW q \in Runners, RunnerAt(q, "commit")
      PROVE  runner[q].next = Len(schema) + 1
  <2>1. /\ Len(schema) \in Nat
        /\ recorded = 1..Len(schema)
        BY DEF IndMigration, RunnersOK, AppliedOnceInOrder
  <2>2. /\ runner[q].next \in Nat \ {0}
        /\ 1..(runner[q].next - 1) \subseteq recorded
        /\ runner[q].next \notin recorded
        BY <1>1 DEF IndMigration, RunnersOK, BehindIsRecorded, RowIsNew
  <2>3. CASE runner[q].next <= Len(schema)
    BY <2>1, <2>2, <2>3
  <2>4. CASE runner[q].next > Len(schema) + 1
    <3>1. Len(schema) + 1 \in 1..(runner[q].next - 1)
          BY <2>1, <2>2, <2>4
    <3> QED  BY <2>1, <2>2, <3>1
  <2> QED  BY <2>1, <2>2, <2>3, <2>4
<1> QED  BY <1>1 DEF IndMigration, RowIsHeldByOne

(* A run that begins has nothing behind it.                                *)
LEMMA NothingBehind ==
  ASSUME NEW n \in Releases \cup {0}, NEW pc \in {"down", "check"}
  PROVE  LET new == [pc |-> pc, has |-> n, next |-> 1] IN
         /\ new \in [pc : RunnerSteps \ {"commit"}, has : Releases \cup {0}, next : Nat \ {0}]
         /\ \A S : 1..(new.next - 1) \subseteq S
<1>1. 1..(1 - 1) = {}
      OBVIOUS
<1> QED  BY <1>1 DEF RunnerSteps

(* The run turns to the next migration.                                    *)
LEMMA NextIs ==
  ASSUME RunnersOK, NEW r \in Runners, NextMigration(r, "check")
  PROVE  LET new == [pc |-> "check", has |-> runner[r].has, next |-> runner[r].next + 1] IN
         /\ runner' = [runner EXCEPT ![r] = new]
         /\ new \in [pc : RunnerSteps \ {"commit"}, has : Releases \cup {0}, next : Nat \ {0}]
<1> DEFINE new == [pc |-> "check", has |-> runner[r].has, next |-> runner[r].next + 1]
<1>1. runner[r] \in [pc : RunnerSteps, has : Releases \cup {0}, next : Nat \ {0}]
      BY DEF RunnersOK
<1>2. new \in [pc : RunnerSteps \ {"commit"}, has : Releases \cup {0}, next : Nat \ {0}]
      BY <1>1 DEF RunnerSteps
<1>3. [[runner[r] EXCEPT !.pc = "check"] EXCEPT !.next = runner[r].next + 1] = new
  <2> DEFINE row == [runner[r] EXCEPT !.pc = "check"]
  <2>1. row = [pc |-> "check", has |-> runner[r].has, next |-> runner[r].next]
        BY <1>1
  <2> HIDE DEF row
  <2>2. [row EXCEPT !.next = runner[r].next + 1] = new
        BY <2>1
  <2> QED  BY <2>2 DEF row
<1>4. runner' = [runner EXCEPT ![r] = new]
      BY <1>1, <1>3 DEF NextMigration, RunnersOK
<1> QED  BY <1>2, <1>4

(* A step that leaves the schema and the record alone, and brings nobody   *)
(* to COMMIT.                                                              *)
LEMMA MigrationIdles ==
  ASSUME IndMigration, NEW r \in Runners, NEW new \in [pc : RunnerSteps \ {"commit"}, has : Releases \cup {0}, next : Nat \ {0}],
         runner' = [runner EXCEPT ![r] = new], UNCHANGED <<schema, recorded>>,
         1..(new.next - 1) \subseteq recorded
  PROVE  IndMigration'
<1>1. /\ runner'[r] = new
      /\ \A q \in Runners \ {r} : runner'[q] = runner[q]
      BY DEF IndMigration, RunnersOK
<1>2. RunnersOK'
      BY DEF IndMigration, RunnersOK
<1>3. AppliedOnceInOrder'
      BY DEF IndMigration, AppliedOnceInOrder
<1>4. BehindIsRecorded'
      BY <1>1 DEF IndMigration, BehindIsRecorded
<1>5. new.pc # "commit"
      OBVIOUS
<1>6. RowIsNew' /\ RowIsHeldByOne'
      BY <1>1, <1>5 DEF IndMigration, RowIsNew, RowIsHeldByOne, RunnerAt
<1> QED  BY <1>2, <1>3, <1>4, <1>6 DEF IndMigration

LEMMA MigrationStarts == MigrationInit => IndMigration
<1> SUFFICES ASSUME MigrationInit PROVE IndMigration
  OBVIOUS
<1>1. schema = <<>> /\ schema \in Seq(Nat) /\ DOMAIN schema = {} /\ recorded = {}
      BY DEF MigrationInit
<1>2. \A r \in Runners : runner[r] = NoRun
      BY DEF MigrationInit
<1>3. RunnersOK
      BY <1>1 DEF MigrationInit, RunnersOK, NoRun, RunnerSteps
<1>4. AppliedOnceInOrder
      BY <1>1 DEF AppliedOnceInOrder
<1>5. BehindIsRecorded /\ RowIsNew /\ RowIsHeldByOne
      BY <1>2, NothingBehind DEF BehindIsRecorded, RowIsNew, RowIsHeldByOne, NoRun, RunnerAt
<1> QED  BY <1>3, <1>4, <1>5 DEF IndMigration

LEMMA MigrationSteps == IndMigration /\ [MigrationNext]_migrationVars => IndMigration'
<1> SUFFICES ASSUME IndMigration, [MigrationNext]_migrationVars PROVE IndMigration'
  OBVIOUS
<1>1. CASE UNCHANGED migrationVars
  BY <1>1 DEF migrationVars, IndMigration, RunnersOK, AppliedOnceInOrder, BehindIsRecorded,
              RowIsNew, RowIsHeldByOne, RunnerAt
<1>2. ASSUME NEW r \in Runners,
             \/ RunMigrations(r) \/ HasMigration(r) \/ RunSql(r) \/ RecordVersion(r)
             \/ Commit(r) \/ ApplyFails(r) \/ Dies(r)
      PROVE  IndMigration'
  <2>0. /\ runner[r] \in [pc : RunnerSteps, has : Releases \cup {0}, next : Nat \ {0}]
        /\ 1..(runner[r].next - 1) \subseteq recorded
        BY DEF IndMigration, RunnersOK, BehindIsRecorded
  <2>00. /\ NoRun \in [pc : RunnerSteps \ {"commit"}, has : Releases \cup {0}, next : Nat \ {0}]
         /\ 1..(NoRun.next - 1) \subseteq recorded
         BY NothingBehind DEF NoRun
  <2>1. CASE RunMigrations(r)
    <3>1. PICK n \in Releases : runner' = [runner EXCEPT ![r] = [pc |-> "check", has |-> n, next |-> 1]]
          BY <2>1 DEF RunMigrations
    <3> DEFINE new == [pc |-> "check", has |-> n, next |-> 1]
    <3>3. runner' = [runner EXCEPT ![r] = new]
          BY <3>1
    <3>2. /\ new \in [pc : RunnerSteps \ {"commit"}, has : Releases \cup {0}, next : Nat \ {0}]
          /\ 1..(new.next - 1) \subseteq recorded
          BY NothingBehind
    <3> HIDE DEF new
    <3> QED  BY <2>1, <3>2, <3>3, MigrationIdles DEF RunMigrations
  <2>2. CASE HasMigration(r)
    <3>1. CASE runner' = [runner EXCEPT ![r] = NoRun]
      BY <2>00, <2>2, <3>1, MigrationIdles DEF HasMigration
    <3>2. CASE runner[r].next \in recorded /\ NextMigration(r, "check")
      <4> DEFINE new == [pc |-> "check", has |-> runner[r].has, next |-> runner[r].next + 1]
      <4>1. /\ runner' = [runner EXCEPT ![r] = new]
            /\ new \in [pc : RunnerSteps \ {"commit"}, has : Releases \cup {0}, next : Nat \ {0}]
            BY <3>2, NextIs DEF IndMigration
      <4>2. new.next = runner[r].next + 1
            OBVIOUS
      <4> HIDE DEF new
      <4>3. 1..(new.next - 1) \subseteq recorded
            BY <2>0, <3>2, <4>2
      <4> QED  BY <2>2, <4>1, <4>2, <4>3, MigrationIdles DEF HasMigration
    <3>3. CASE RunnerGoes(r, "sql")
      <4> DEFINE new == [runner[r] EXCEPT !.pc = "sql"]
      <4>1. /\ new \in [pc : RunnerSteps \ {"commit"}, has : Releases \cup {0}, next : Nat \ {0}]
            /\ new.next = runner[r].next
            BY <2>0 DEF RunnerSteps
      <4>2. runner' = [runner EXCEPT ![r] = new]
            BY <3>3 DEF RunnerGoes
      <4> HIDE DEF new
      <4> QED  BY <2>0, <2>2, <4>1, <4>2, MigrationIdles DEF HasMigration
    <3> QED  BY <2>2, <3>1, <3>2, <3>3 DEF HasMigration
  <2>3. CASE RunSql(r)
    <3> DEFINE new == [runner[r] EXCEPT !.pc = "record"]
    <3>1. /\ new \in [pc : RunnerSteps \ {"commit"}, has : Releases \cup {0}, next : Nat \ {0}]
          /\ new.next = runner[r].next
          BY <2>0 DEF RunnerSteps
    <3>2. runner' = [runner EXCEPT ![r] = new]
          BY <2>3 DEF RunSql, RunnerGoes
    <3> HIDE DEF new
    <3> QED  BY <2>0, <2>3, <3>1, <3>2, MigrationIdles DEF RunSql
  <2>4. CASE RecordVersion(r)
    <3>1. /\ runner' = [runner EXCEPT ![r].pc = "commit"]
          /\ UNCHANGED <<schema, recorded>>
          /\ runner[r].next \notin recorded
          /\ \A q \in Runners \ {r} : ~(RunnerAt(q, "commit") /\ runner[q].next = runner[r].next)
          BY <2>4 DEF RecordVersion, RunnerGoes, Clashes, Writing
    <3>2. /\ runner'[r].pc = "commit" /\ runner'[r].next = runner[r].next
          /\ \A q \in Runners \ {r} : runner'[q] = runner[q]
          BY <3>1 DEF IndMigration, RunnersOK
    <3>3. RunnersOK'
          BY <3>1 DEF IndMigration, RunnersOK, RunnerSteps
    <3>4. AppliedOnceInOrder' /\ BehindIsRecorded'
          BY <3>1, <3>2 DEF IndMigration, AppliedOnceInOrder, BehindIsRecorded
    <3>5. RowIsNew' /\ RowIsHeldByOne'
          BY <3>1, <3>2 DEF IndMigration, RowIsNew, RowIsHeldByOne, RunnerAt
    <3> QED  BY <3>3, <3>4, <3>5 DEF IndMigration
  <2>5. CASE Commit(r)
    <3> DEFINE new == [pc |-> "check", has |-> runner[r].has, next |-> runner[r].next + 1]
    <3>0. /\ runner' = [runner EXCEPT ![r] = new]
          /\ new \in [pc : RunnerSteps, has : Releases \cup {0}, next : Nat \ {0}]
          BY <2>5, NextIs DEF Commit, IndMigration
    <3>1. /\ RunnerAt(r, "commit")
          /\ schema' = Append(schema, runner[r].next)
          /\ recorded' = recorded \cup {runner[r].next}
          BY <2>5 DEF Commit
    <3>2. /\ runner[r].next = Len(schema) + 1
          /\ \A q \in Runners : RunnerAt(q, "commit") => q = r
          BY <3>1, CommitsTheNext
    <3>3. /\ runner'[r].pc = "check" /\ runner'[r].next = runner[r].next + 1
          /\ \A q \in Runners \ {r} : runner'[q] = runner[q]
          BY <3>0 DEF IndMigration, RunnersOK
    <3>4. RunnersOK'
      <4>1. schema' \in Seq(Nat)
            BY <2>0, <3>1 DEF IndMigration, RunnersOK
      <4> HIDE DEF new
      <4> QED  BY <3>0, <4>1 DEF IndMigration, RunnersOK
    <3>5. /\ Len(schema) \in Nat /\ schema \in Seq(Nat)
          /\ recorded = 1..Len(schema)
          /\ \A i \in 1..Len(schema) : schema[i] = i
          BY DEF IndMigration, RunnersOK, AppliedOnceInOrder
    <3>6. /\ DOMAIN schema' = 1..(Len(schema) + 1)
          /\ \A i \in 1..(Len(schema) + 1) : schema'[i] = i
          BY <3>1, <3>2, <3>5
    <3>7. AppliedOnceInOrder'
          BY <3>1, <3>2, <3>5, <3>6 DEF AppliedOnceInOrder
    <3>8. BehindIsRecorded'
      <4>1. ASSUME NEW q \in Runners PROVE 1..(runner'[q].next - 1) \subseteq recorded'
        <5>1. CASE q = r
          BY <2>0, <3>1, <3>3, <5>1
        <5>2. CASE q # r
          BY <3>1, <3>3, <5>2 DEF IndMigration, BehindIsRecorded
        <5> QED  BY <5>1, <5>2
      <4> QED  BY <4>1 DEF BehindIsRecorded
    <3>9. RowIsNew' /\ RowIsHeldByOne'
          BY <3>2, <3>3 DEF RowIsNew, RowIsHeldByOne, RunnerAt
    <3> QED  BY <3>4, <3>7, <3>8, <3>9 DEF IndMigration
  <2>6. CASE ApplyFails(r)
    <3> DEFINE new == [runner[r] EXCEPT !.pc = "failed"]
    <3>1. /\ new \in [pc : RunnerSteps \ {"commit"}, has : Releases \cup {0}, next : Nat \ {0}]
          /\ new.next = runner[r].next
          BY <2>0 DEF RunnerSteps
    <3>2. runner' = [runner EXCEPT ![r] = new]
          BY <2>6 DEF ApplyFails, RunnerGoes
    <3> HIDE DEF new
    <3> QED  BY <2>0, <2>6, <3>1, <3>2, MigrationIdles DEF ApplyFails
  <2>7. CASE Dies(r)
    BY <2>00, <2>7, MigrationIdles DEF Dies
  <2> QED  BY <1>2, <2>1, <2>2, <2>3, <2>4, <2>5, <2>6, <2>7
<1> QED  BY <1>1, <1>2 DEF MigrationNext

(* However many runs overlap, and wherever they fail or die, the           *)
(* migrations in effect are the first ones of the list, each once and in   *)
(* its order, and exactly those are recorded (migrate.js:29-67).           *)
THEOREM MigrationsApplyOnce == MigrationSpec => []AppliedOnceInOrder
<1>1. IndMigration => AppliedOnceInOrder
      BY DEF IndMigration
<1> QED  BY <1>1, MigrationStarts, MigrationSteps, PTL DEF MigrationSpec

(* A run never turns to a migration behind the next but its release's last.*)
WithinRelease == \A r \in Runners :
  /\ runner[r].next <= runner[r].has + 1
  /\ runner[r].pc \in {"sql", "record", "commit"} => runner[r].next <= runner[r].has

LEMMA LatestIsLast == Latest \in Nat /\ \A n \in Releases : n \in Nat /\ n <= Latest
BY ReleasesAssumption DEF Latest

LEMMA ReleaseStep ==
  ASSUME IndMigration, WithinRelease, [MigrationNext]_migrationVars
  PROVE  WithinRelease'
<1> DEFINE Fits(x) == /\ x.next <= x.has + 1
                      /\ x.pc \in {"sql", "record", "commit"} => x.next <= x.has
<1>1. \A r \in Runners : runner[r] \in [pc : RunnerSteps, has : Releases \cup {0}, next : Nat \ {0}]
  BY DEF IndMigration, RunnersOK
<1>2. \A n \in Releases \cup {0} : n \in Nat
  BY LatestIsLast
<1>3. ASSUME NEW r \in Runners, NEW x, runner' = [runner EXCEPT ![r] = x], Fits(x)
      PROVE  WithinRelease'
  BY <1>1, <1>3 DEF WithinRelease, IndMigration, RunnersOK
<1>4. Fits(NoRun)
  BY DEF NoRun
<1>5. CASE UNCHANGED migrationVars
  BY <1>5 DEF migrationVars, WithinRelease
<1>6. ASSUME NEW r \in Runners, NEW pc, RunnerGoes(r, pc),
             pc \in {"sql", "record", "commit"} => runner[r].next <= runner[r].has
      PROVE  WithinRelease'
  <2>1. Fits([runner[r] EXCEPT !.pc = pc])
    BY <1>1, <1>6 DEF WithinRelease
  <2> QED BY <1>3, <1>6, <2>1 DEF RunnerGoes
<1>7. ASSUME NEW r \in Runners, NextMigration(r, "check"), runner[r].next <= runner[r].has
      PROVE  WithinRelease'
  <2>1. Fits([pc |-> "check", has |-> runner[r].has, next |-> runner[r].next + 1])
    BY <1>1, <1>2, <1>7
  <2> QED BY <1>3, <1>7, <2>1, NextIs DEF IndMigration
<1>8. ASSUME NEW r \in Runners, RunMigrations(r) PROVE WithinRelease'
  <2>1. PICK n \in Releases : runner' = [runner EXCEPT ![r] = [pc |-> "check", has |-> n, next |-> 1]]
    BY <1>8 DEF RunMigrations
  <2>2. Fits([pc |-> "check", has |-> n, next |-> 1])
    BY <1>2
  <2> QED BY <1>3, <2>1, <2>2
<1>9. ASSUME NEW r \in Runners, HasMigration(r) PROVE WithinRelease'
  <2>1. runner[r].next \in Nat /\ runner[r].has \in Nat
    BY <1>1, <1>2
  <2> QED BY <1>3, <1>4, <1>6, <1>7, <1>9, <2>1 DEF HasMigration
<1>10. ASSUME NEW r \in Runners, RunSql(r) \/ RecordVersion(r) \/ Commit(r) PROVE WithinRelease'
  <2>1. runner[r].next <= runner[r].has
    BY <1>10 DEF RunSql, RecordVersion, Commit, RunnerAt, WithinRelease
  <2> QED BY <1>6, <1>7, <1>10, <2>1 DEF RunSql, RecordVersion, Commit
<1>11. ASSUME NEW r \in Runners, ApplyFails(r) PROVE WithinRelease'
  BY <1>6, <1>11 DEF ApplyFails
<1>12. ASSUME NEW r \in Runners, Dies(r) PROVE WithinRelease'
  BY <1>3, <1>4, <1>12 DEF Dies
<1> HIDE DEF Fits
<1> QED BY <1>5, <1>8, <1>9, <1>10, <1>11, <1>12 DEF MigrationNext

LEMMA SchemaStep ==
  ASSUME IndMigration, WithinRelease, schema \in Seq(1..Latest), [MigrationNext]_migrationVars
  PROVE  schema' \in Seq(1..Latest)
<1>1. ASSUME NEW r \in Runners, Commit(r) PROVE schema' \in Seq(1..Latest)
  <2>1. runner[r].next \in Nat \ {0} /\ runner[r].has \in Releases \cup {0} /\ runner[r].next <= runner[r].has
    BY <1>1 DEF Commit, RunnerAt, WithinRelease, IndMigration, RunnersOK
  <2>2. runner[r].next \in 1..Latest
    BY <2>1, LatestIsLast
  <2> QED BY <1>1, <2>2 DEF Commit
<1>2. CASE UNCHANGED schema
  BY <1>2
<1> QED BY <1>1, <1>2 DEF MigrationNext, migrationVars, RunMigrations, HasMigration, RunSql, RecordVersion, ApplyFails, Dies

LEMMA MigrationTypes ==
  IndMigration /\ WithinRelease /\ schema \in Seq(1..Latest) => MigrationTypeOK
<1> SUFFICES ASSUME IndMigration, WithinRelease, schema \in Seq(1..Latest) PROVE MigrationTypeOK
  OBVIOUS
<1>1. recorded \subseteq 1..Latest
  <2>1. \A i \in 1..Len(schema) : schema[i] \in 1..Latest
    <3> DEFINE All == 1..Latest
    <3>1. schema \in Seq(All)
      OBVIOUS
    <3> HIDE DEF All
    <3>2. \A i \in 1..Len(schema) : schema[i] \in All
      BY <3>1
    <3> QED BY <3>2 DEF All
  <2>2. DOMAIN schema = 1..Len(schema)
    OBVIOUS
  <2> QED BY <2>1, <2>2 DEF IndMigration, AppliedOnceInOrder
<1>2. ASSUME NEW r \in Runners
      PROVE  runner[r] \in [pc : RunnerSteps, has : Releases \cup {0}, next : 1..(Latest + 1)]
  <2>1. runner[r] \in [pc : RunnerSteps, has : Releases \cup {0}, next : Nat \ {0}]
        /\ runner[r].next <= runner[r].has + 1
    BY DEF IndMigration, RunnersOK, WithinRelease
  <2>2. runner[r].next \in 1..(Latest + 1)
    BY <2>1, LatestIsLast
  <2> QED BY <2>1, <2>2
<1> QED BY <1>1, <1>2 DEF MigrationTypeOK, IndMigration, RunnersOK

LEMMA ReleaseStart == MigrationInit => WithinRelease /\ schema \in Seq(1..Latest)
BY DEF MigrationInit, WithinRelease, NoRun

(* No run goes beyond its release, nothing beyond the latest is in effect. *)
THEOREM MigrationTypesHold == MigrationSpec => []MigrationTypeOK
<1> DEFINE Ind == IndMigration /\ WithinRelease /\ schema \in Seq(1..Latest)
<1>1. MigrationInit => Ind
  BY MigrationStarts, ReleaseStart
<1>2. Ind /\ [MigrationNext]_migrationVars => Ind'
  BY MigrationSteps, ReleaseStep, SchemaStep
<1>3. Ind => MigrationTypeOK
  BY MigrationTypes
<1> HIDE DEF Ind
<1> QED BY <1>1, <1>2, <1>3, PTL DEF MigrationSpec
=============================================================================
