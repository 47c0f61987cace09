----------------------------- MODULE Catalogue -----------------------------
(***************************************************************************)
(* Uploads of products and of invoices (administration).  An upload is     *)
(* worked off row by row, each row a statement of its own, without a       *)
(* transaction around them: uploads of two administrators interleave, one  *)
(* that dies leaves what it has written, and rows that cannot be taken are *)
(* reported and passed over.  Every row bears the administrator who wrote  *)
(* it last.                                                                *)
(*                                                                         *)
(* A file of products has one task per row.  A file of invoices repeats    *)
(* the header of an invoice on each of its lines: the rows of a reference  *)
(* are gathered where the reference comes first, that row is the header,   *)
(* and the lines follow it.                                                *)
(***************************************************************************)
EXTENDS Naturals, Sequences

CONSTANTS
  Admins,           \* uploads that can be in progress at once
  ProductFiles, InvoiceFiles,  \* what they upload
  Codes, Titles,    \* product codes, product names
  Invoices,         \* invoice references
  LineNos,          \* numbers of invoice lines
  Sites,            \* warehouses there are
  Moves,            \* statuses a dispatch or a return gives an invoice
  Blank             \* no value

(* The rows of a file, as it is read.  A name that is no warehouse is taken *)
(* for any of them on a customer's invoice, where it is a mistake too, and  *)
(* for none on a transfer's; a status the table refuses is a statement that *)
(* fails.                                                                   *)
InvoiceStatuses == {"PENDING", "PARTIALLY_DISPATCHED", "DISPATCHED"}
ProductRows == [key : Codes \cup {Blank}, name : Titles \cup {Blank}, battery : BOOLEAN, ok : BOOLEAN]
InvoiceRows == [ref : Invoices \cup {Blank}, status : InvoiceStatuses \cup {Blank},
                type : {"CUSTOMER", "TRANSFER", "other"}, from : Sites \cup {Blank}, to : Sites \cup {Blank},
                code : Codes \cup {Blank}, no : Nat, qty : Nat]
ASSUME CatalogueAssumption ==
  /\ ProductFiles \subseteq Seq(ProductRows) /\ InvoiceFiles \subseteq Seq(InvoiceRows)
  /\ \A f \in ProductFiles : \A i \in DOMAIN f : f[i].ok => f[i].key \in Codes /\ f[i].name \in Titles
  /\ Moves \subseteq InvoiceStatuses /\ Blank \notin Invoices
  /\ Blank \notin [name : Titles \cup {Blank}, battery : BOOLEAN, by : Admins]
  /\ Blank \notin [status : InvoiceStatuses \cup Moves, type : {"CUSTOMER", "TRANSFER"},
                   from : Sites \cup {Blank}, to : Sites \cup {Blank}, by : Admins \cup {Blank}]
  /\ Blank \notin [code : Codes \cup {Blank}, qty : Nat, by : Admins]

VARIABLES
  product,          \* code -> name, whether a battery, last writer; or Blank
  invoice,          \* reference -> status, type, route, last writer; or Blank
  line,             \* <<reference, number>> -> code, quantity, last writer
  job               \* administrator -> the upload in progress
catalogueVars == <<product, invoice, line, job>>

NoJob == [kind |-> "none", file |-> <<>>, todo |-> {}, errors |-> {}]

CatalogueTypeOK ==
  /\ \A c \in Codes : product[c] = Blank \/
       product[c] \in [name : Titles, battery : BOOLEAN, by : Admins]
  /\ \A r \in Invoices : invoice[r] = Blank \/
       invoice[r] \in [status : InvoiceStatuses, type : {"CUSTOMER", "TRANSFER"},
                       from : Sites \cup {Blank}, to : Sites \cup {Blank},
                       by : Admins \cup {Blank}]
  /\ \A k \in Invoices \X LineNos : line[k] = Blank \/
       /\ line[k] \in [code : Codes, qty : Nat \ {0}, by : Admins]
       /\ invoice[k[1]] # Blank /\ product[line[k].code] # Blank
  /\ \A a \in Admins : job[a].errors \subseteq (DOMAIN job[a].file) \X (0..Len(job[a].file))

(***************************************************************************)
(* The tasks of a file: <<r, 0>> is the header of the invoice whose first  *)
(* row is r, <<r, i>> the line in row i of that invoice.                   *)
(***************************************************************************)
First(f, i) == CHOOSE j \in DOMAIN f :
  f[j].ref = f[i].ref /\ \A k \in 1..(j - 1) : f[k].ref # f[i].ref
Referenced(f) == {i \in DOMAIN f : f[i].ref # Blank}
WithLine(f) == {i \in Referenced(f) : f[i].code # Blank}
InvoiceTasks(f) == {<<First(f, i), 0>> : i \in Referenced(f)}
             \cup {<<First(f, i), i>> : i \in WithLine(f)}
ProductTasks(f) == {<<i, 0>> : i \in DOMAIN f}

Before(t, u) == t[1] < u[1] \/ (t[1] = u[1] /\ t[2] < u[2])
IsNext(a, t) == t \in job[a].todo /\ \A u \in job[a].todo : u = t \/ Before(t, u)

Idle(a) == job[a].kind = "none"
Start(a, kind, f, tasks, errors) ==
  /\ Idle(a)
  /\ job' = [job EXCEPT ![a] = [kind |-> kind, file |-> f, todo |-> tasks, errors |-> errors]]
  /\ UNCHANGED <<product, invoice, line>>
Done(a, t) == job' = [job EXCEPT ![a].todo = @ \ {t}]
Reported(a, t) == job' = [job EXCEPT ![a].todo = @ \ {t}, ![a].errors = @ \cup {t}]
(* The rest of an invoice is left out, and its first row is reported.      *)
Skipped(a, t) == job' = [job EXCEPT
  ![a].todo = {u \in @ : u[1] # t[1]}, ![a].errors = @ \cup {<<t[1], 0>>}]

(***************************************************************************)
(* Products.                                                               *)
(***************************************************************************)
ImportProducts(a, f) == Start(a, "products", f, ProductTasks(f), {})
(* A code that is there, from an earlier row too, is overwritten.          *)
UpsertProduct(a, row) == product' = [product EXCEPT
  ![row.key] = [name |-> row.name, battery |-> row.battery, by |-> a]]
ProductAccepted(row) == row.ok
ProductRow(a) == job[a].kind = "products" /\ \E t \in job[a].todo :
  LET row == job[a].file[t[1]] IN
  /\ IsNext(a, t)
  /\ IF ProductAccepted(row) THEN UpsertProduct(a, row) /\ Done(a, t)
     ELSE UNCHANGED product /\ Reported(a, t)
  /\ UNCHANGED <<invoice, line>>
ProductRowFails(a) == job[a].kind = "products" /\ \E t \in job[a].todo :
  /\ IsNext(a, t) /\ Reported(a, t) /\ UNCHANGED <<product, invoice, line>>

(***************************************************************************)
(* Invoices.                                                               *)
(***************************************************************************)
ImportInvoices(a, f) == Start(a, "invoices", f, InvoiceTasks(f), {<<i, 0>> : i \in DOMAIN f \ Referenced(f)})

(* A transfer names two different warehouses, a customer's invoice none.   *)
RouteAccepted(row) ==
  \/ row.type = "TRANSFER" /\ row.from \in Sites /\ row.to \in Sites /\ row.from # row.to
  \/ row.type = "CUSTOMER" /\ row.from = Blank /\ row.to = Blank
(* Broken variant: the cell of the status is taken as it is.                *)
StatusAsWritten(row) == row.status
StatusOf(row) == IF row.status = Blank THEN "PENDING" ELSE row.status
(* Broken variant: COALESCE(EXCLUDED.from, invoice.from) on conflict.       *)
KeepsRoute(a, row) ==
  LET old(x, y) == IF x = Blank /\ invoice[row.ref] # Blank THEN y ELSE x IN
  invoice' = [invoice EXCEPT ![row.ref] =
    [status |-> StatusOf(row), type |-> row.type,
     from |-> old(row.from, @.from), to |-> old(row.to, @.to), by |-> a]]
UpsertInvoice(a, row) == invoice' = [invoice EXCEPT ![row.ref] =
  [status |-> StatusOf(row), type |-> row.type, from |-> row.from, to |-> row.to, by |-> a]]
Header(a) == job[a].kind = "invoices" /\ \E t \in job[a].todo :
  LET row == job[a].file[t[1]] IN
  /\ IsNext(a, t) /\ t[2] = 0
  /\ IF RouteAccepted(row) THEN UpsertInvoice(a, row) /\ Done(a, t)
     ELSE UNCHANGED invoice /\ Skipped(a, t)
  /\ UNCHANGED <<product, line>>

(* The product must be known by now; number and quantity must be positive. *)
LineAccepted(row) == product[row.code] # Blank /\ row.no > 0 /\ row.qty > 0
UpsertInvoiceLine(a, row) == line' = [line EXCEPT
  ![<<row.ref, row.no>>] = [code |-> row.code, qty |-> row.qty, by |-> a]]
(* Broken variant: a bad line ends its invoice as a failed statement        *)
(* does, unreported.                                                        *)
LosesTheRest(a) == job[a].kind = "invoices" /\ \E t \in job[a].todo :
  LET row == job[a].file[t[2]] IN
  /\ IsNext(a, t) /\ t[2] > 0
  /\ IF LineAccepted(row) THEN UpsertInvoiceLine(a, row) /\ Done(a, t)
     ELSE UNCHANGED line /\ job' = [job EXCEPT ![a].todo = {u \in @ : u[1] # t[1]},
                                               ![a].errors = @ \cup {t}]
  /\ UNCHANGED <<product, invoice>>
LineRow(a) == job[a].kind = "invoices" /\ \E t \in job[a].todo :
  LET row == job[a].file[t[2]] IN
  /\ IsNext(a, t) /\ t[2] > 0
  /\ IF LineAccepted(row) THEN UpsertInvoiceLine(a, row) /\ Done(a, t)
     ELSE UNCHANGED line /\ Reported(a, t)
  /\ UNCHANGED <<product, invoice>>
(* A statement that fails ends its invoice, not the upload.                *)
InvoiceFails(a) == job[a].kind = "invoices" /\ \E t \in job[a].todo :
  /\ IsNext(a, t) /\ Skipped(a, t) /\ UNCHANGED <<product, invoice, line>>

(* The answer, with the rows reported; or the server dies under it.        *)
EndUpload(a) ==
  /\ ~Idle(a) /\ job[a].todo = {} /\ job' = [job EXCEPT ![a] = NoJob]
  /\ UNCHANGED <<product, invoice, line>>
UploadDies(a) ==
  /\ job[a].todo # {} /\ job' = [job EXCEPT ![a] = NoJob]
  /\ UNCHANGED <<product, invoice, line>>

(* Elsewhere: a dispatch or a return sets the status of an invoice.        *)
SetStatus(r, s) ==
  /\ invoice[r] # Blank /\ invoice[r].status # s
  /\ invoice' = [invoice EXCEPT ![r].status = s, ![r].by = Blank]
  /\ UNCHANGED <<product, line, job>>

CatalogueInit ==
  /\ product = [c \in Codes |-> Blank] /\ invoice = [r \in Invoices |-> Blank]
  /\ line = [k \in Invoices \X LineNos |-> Blank] /\ job = [a \in Admins |-> NoJob]
CatalogueNext ==
  \/ \E a \in Admins :
       \/ \E f \in ProductFiles : ImportProducts(a, f)
       \/ \E f \in InvoiceFiles : ImportInvoices(a, f)
       \/ ProductRow(a) \/ ProductRowFails(a) \/ Header(a) \/ LineRow(a) \/ InvoiceFails(a)
       \/ EndUpload(a) \/ UploadDies(a)
  \/ \E r \in Invoices, s \in Moves : SetStatus(r, s)
CatalogueSpec == CatalogueInit /\ [][CatalogueNext]_catalogueVars

(***************************************************************************)
(* Properties.                                                             *)
(***************************************************************************)
Last(S) == CHOOSE i \in S : \A j \in S : j <= i
(* Rows an upload has passed without reporting them.                       *)
Passed(a, i) == LET f == job[a].file IN
  {<<First(f, i), 0>>, <<First(f, i), i>>} \cap (job[a].todo \cup job[a].errors) = {}
LinesPassed(a, k) == {i \in WithLine(job[a].file) : Passed(a, i) /\
  <<job[a].file[i].ref, job[a].file[i].no>> = k}
ProductsPassed(a, c) == {i \in DOMAIN job[a].file :
  <<i, 0>> \notin job[a].todo \cup job[a].errors /\ job[a].file[i].key = c}

(* Every row of products and every row of an invoice that has a line is    *)
(* written or reported, at every moment and whatever other uploads do: a   *)
(* row that is behind and not reported is in the tables, and as the last   *)
(* such row of its key says unless somebody else wrote the key since       *)
(* (products.js:129-187, invoices.js:190-270).  Of a reference that is     *)
(* repeated, a row without a material code is dropped without a report and *)
(* the header of every row but the first is not read (invoices.js:127-141).*)
WrittenOrReported == \A a \in Admins :
  /\ job[a].kind = "products" => \A c \in Codes : LET rows == ProductsPassed(a, c) IN
       rows # {} => /\ product[c] # Blank
                    /\ product[c].by = a => product[c].name = job[a].file[Last(rows)].name
  /\ job[a].kind = "invoices" => \A k \in DOMAIN line : LET rows == LinesPassed(a, k) IN
       rows # {} => /\ invoice[k[1]] # Blank /\ line[k] # Blank
                    /\ line[k].by = a => line[k].qty = job[a].file[Last(rows)].qty

(* An invoice has a route exactly when it is a transfer's, and the route   *)
(* leads somewhere else, also after it was uploaded again as the other     *)
(* kind (invoices.js:150-190, V030).                                       *)
RoutesAreWhole == \A r \in Invoices : invoice[r] # Blank =>
  IF invoice[r].type = "TRANSFER"
  THEN invoice[r].from \in Sites /\ invoice[r].to \in Sites \ {invoice[r].from}
  ELSE invoice[r].from = Blank /\ invoice[r].to = Blank
=============================================================================
