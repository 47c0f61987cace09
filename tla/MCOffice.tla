------------------------------ MODULE MCOffice ------------------------------
(***************************************************************************)
(* The services around fulfilment that share no table with one another,    *)
(* each on a small instance of its own, in one run: service says which of   *)
(* them a behaviour is about, the others stand still in one initial state. *)
(* Three are looked at from two sides, because all of it at once is too    *)
(* much: of Accounts, who signs in (with requests left out) and what one   *)
(* browser may do while roles and members are edited; of Desk, the form    *)
(* (nothing is scanned) and the session (the form is filled in straight);  *)
(* of FollowUp, the exception desk and the export, which read the same     *)
(* dispatches and write nothing the other reads.                           *)
(***************************************************************************)
EXTENDS Imports, FollowUp, Catalogue, Ageing, Accounts, Attempts, Desk,
        Listing, Pages, Numbering, Access, Migrations, ReturnScreen, TransferScreen

CONSTANTS m1, m2, n1, n2, d1, d2, f1, f2, p1, p2, t1, v1, v2, w1, w2, a1, a2,
          g1, g2, b1, b2, r1, x1, o1, o2, k1, l1, l2, l3, q1

VARIABLE service
officeVars == <<importVars, followUpVars, catalogueVars, ageingVars, accountVars,
                attemptVars, deskVars, listingVars, pageVars,
                numberingVars, accessVars, migrationVars, returnVars, transferVars, service>>

\* Production: f1 is sent as one batch, f2 as either of two; a unit is on
\* both, a product is missing, a row is malformed and has no serial.
Record(ok, base, make, to, doc) == [ok |-> ok, base |-> base, make |-> make, to |-> to, doc |-> doc]
BatchesSent == [r \in Refs |->
  IF r = f1 THEN {<<Record(TRUE, b1, m1, w1, Nothing), Record(TRUE, b2, m1, Nothing, Nothing)>>}
  ELSE {<<Record(TRUE, b1, m2, w2, f1), Record(TRUE, b1, m1, w1, Nothing),
          Record(TRUE, b2, Nothing, w1, Nothing)>>,
        <<Record(TRUE, b2, m2, w2, f2), Record(FALSE, Nothing, m1, w1, Nothing)>>}]

\* Products: a code twice, first in a bad row.  Invoices: two that are interleaved
\* in the file, a route that leads nowhere, a line that is not acceptable.
ProductRowOf(c, n, b, ok) == [key |-> c, name |-> n, battery |-> b, ok |-> ok]
ProductUploads ==
  {<<ProductRowOf(p1, n1, TRUE, TRUE), ProductRowOf(p2, n1, FALSE, FALSE), ProductRowOf(p2, n2, FALSE, TRUE)>>}
InvoiceRowOf(r, s, ty, from, to, c, no, q) ==
  [ref |-> r, status |-> s, type |-> ty, from |-> from, to |-> to, code |-> c, no |-> no, qty |-> q]
InvoiceUploads ==
  {<<InvoiceRowOf(v1, Blank, "CUSTOMER", Blank, Blank, p1, 1, 2),
     InvoiceRowOf(v2, Blank, "TRANSFER", w1, w1, p1, 1, 1),
     InvoiceRowOf(v1, "DISPATCHED", "CUSTOMER", w1, w2, p2, 1, 1)>>,
   <<InvoiceRowOf(v1, Blank, "TRANSFER", w1, w2, p2, 0, 1),
     InvoiceRowOf(Blank, Blank, "CUSTOMER", Blank, Blank, p1, 1, 1),
     InvoiceRowOf(v1, Blank, "TRANSFER", w1, w2, p1, 1, 1)>>}

\* Ageing: both sides of every boundary, a date in the future, none at all.
BoundaryDates == {Today - n : n \in {-1, 0, 30, 31, 60, 61, 90, 91}}
Readers == {[role |-> "admin", rooms |-> {}], [role |-> "supervisor", rooms |-> {w1}],
            [role |-> "operator", rooms |-> {}]}

\* Accounts: one warehouse or the other, a permission or none.
OneWarehouse == {{w1}, {w2}}
OneRight == {{x1}, {}}

\* Desk: each piece its own product.
WareOfPiece == [p \in Pieces |-> IF p = b1 THEN m1 ELSE m2]

\* Returns and transfers: two invoices with no product in common, whose routes are each
\* other's way back.
SoldOn == [v \in {v1, v2} |-> IF v = v1 THEN {p1} ELSE {p2}]
BackAndForth == [v \in {v1, v2} |-> IF v = v1 THEN <<w1, w2>> ELSE <<w2, w1>>]

\* Tables: three rows on pages of two, of two columns; one has no value in
\* the first, two have the same in the second; then fewer rows, one, none.
Cells == [r \in {l1, l2, l3} |-> [c \in {1, 2} |->
  IF r = l1 /\ c = 1 THEN NoCell ELSE IF r = l2 THEN 1 ELSE 2]]
WordsOf == [r \in {l1, l2, l3} |-> IF r = l3 THEN {q1} ELSE {}]
RowLists == {<<l1, l2, l3>>, <<l3, l2, l1>>, <<l2, l3>>, <<l1>>, <<>>}

\* Numbers: stamped o1 x1, or just x1, and a product may have the prefix o1.
PrefixesGiven == {<<>>, <<o1>>}
StampsUsed == {<<x1>>, <<o1, x1>>}

\* Members: the administrator, and an operator with some rights.
KindsOfMember ==
  {[role |-> "admin", rights |-> {}],
   [role |-> "operator", rights |-> {"grn:write", "invoice:read", "condition:correct"}]}

Services == {"imports", "correcting", "exporting", "catalogue", "ageing", "signIn", "requests",
             "attempts", "form", "scanning", "listing", "pages", "numbering", "access",
             "migrations", "returning", "moving"}

OfficeInit ==
  /\ service \in Services
  /\ ImportInit /\ nameOf[m1] = n1 /\ (service # "imports" => nameOf[m2] = n1)
  /\ FollowUpInit /\ CatalogueInit
  /\ AgeingInit /\ (service # "ageing" => onHand = [i \in Items |-> Unset])
  /\ AccountInit
  /\ service \notin {"signIn", "requests"} =>
       /\ account = [p \in People |-> [role |-> "admin", active |-> TRUE, fails |-> 0, locked |-> 0]]
       /\ scope = [p \in People |-> {w1}] /\ rights = [r \in Roles |-> {}]
  /\ AttemptInit /\ DeskInit /\ (service # "scanning" => ~native)
  /\ ListingInit /\ (service # "listing" => rows = <<>>)
  /\ PagesInit /\ (service # "pages" => screen = "ageing")
  /\ NumberingInit /\ (service # "numbering" => prefix = [b \in Brands |-> <<>>])
  /\ AccessInit
  /\ service # "access" => alive /\ standing.role = "admin" /\ path = "login"
  /\ MigrationInit /\ ReturnInit /\ TransferInit

\* Of the two products one keeps its name.
OneRenamed == nameOf'[m1] = n1

(* The view holds two units, which stay, or one at most, and one moves.    *)
OneUnitMoves == UNCHANGED <<onHand, day>> \/ (Cardinality(snapshot) <= 1 /\ onHand'[g2] = Unset)

\* What is left out of the two sides of Accounts and of Desk.
OnlySigningIn == UNCHANGED edit /\ \A b \in Browsers : call'[b].pc \notin RequestSteps
OneBrowser == call'[b2] = NoCall /\ wrong' = wrong
OnlyTheForm == ware' = Void /\ ~paused' /\ (session' # Void => session'.status = "PENDING")
StraightForm ==
  /\ typed' \in {Void, o1} /\ shop' \in {Void, w1} /\ Cardinality(lookups') <= 1
  /\ picked # Void => lookups' = {}
  /\ (ware # ware' \/ paused # paused') => calls = {} \/ session' = Void

(* A refused scan is the last; units are bound for and kept in w1 only.    *)
AFewScans == raised = {} /\ \A u \in registry' : w2 \notin {u.at, u.bound}

(* All the others stand still.                                             *)
Still ==
  /\ UNCHANGED service
  /\ IF service = "imports" THEN TRUE ELSE UNCHANGED importVars
  /\ IF service \in {"correcting", "exporting"} THEN TRUE ELSE UNCHANGED followUpVars
  /\ IF service = "catalogue" THEN TRUE ELSE UNCHANGED catalogueVars
  /\ IF service = "ageing" THEN TRUE ELSE UNCHANGED ageingVars
  /\ IF service = "attempts" THEN TRUE ELSE UNCHANGED attemptVars
  /\ IF service = "listing" THEN TRUE ELSE UNCHANGED listingVars
  /\ IF service = "pages" THEN TRUE ELSE UNCHANGED pageVars
  /\ IF service = "numbering" THEN TRUE ELSE UNCHANGED numberingVars
  /\ IF service = "access" THEN TRUE ELSE UNCHANGED accessVars
  /\ IF service = "migrations" THEN TRUE ELSE UNCHANGED migrationVars
  /\ IF service = "returning" THEN TRUE ELSE UNCHANGED returnVars
  /\ IF service = "moving" THEN TRUE ELSE UNCHANGED transferVars
  /\ IF service \in {"signIn", "requests"} THEN TRUE ELSE UNCHANGED accountVars
  /\ IF service \in {"form", "scanning"} THEN TRUE ELSE UNCHANGED deskVars
OfficeNext ==
  \/ service = "imports" /\ ImportNext /\ OneRenamed /\ Still
  \/ service = "correcting" /\ FollowUpNext /\ UNCHANGED <<adapter, told>> /\ Still
  \/ service = "exporting" /\ FollowUpNext /\ UNCHANGED <<case, corrections, desk>> /\ Still
  \/ service = "catalogue" /\ CatalogueNext /\ Still
  \/ service = "ageing" /\ AgeingNext /\ OneUnitMoves /\ Still
  \/ service = "attempts" /\ AttemptNext /\ Still
  \/ service = "listing" /\ ListingNext /\ Still
  \/ service = "pages" /\ PagesNext /\ Still
  \/ service = "numbering" /\ NumberingNext /\ AFewScans /\ Still
  \/ service = "access" /\ AccessNext /\ Still
  \/ service = "migrations" /\ MigrationNext /\ Still
  \/ service = "returning" /\ ReturnNext /\ Still
  \/ service = "moving" /\ TransferNext /\ Still
  \/ service = "signIn" /\ AccountNext /\ OnlySigningIn /\ Still
  \/ service = "requests" /\ AccountNext /\ OneBrowser /\ Still
  \/ service = "form" /\ DeskNext /\ OnlyTheForm /\ Still
  \/ service = "scanning" /\ DeskNext /\ StraightForm /\ Still
OfficeSpec == OfficeInit /\ [][OfficeNext]_officeVars

(* The type invariants of the modules.                                     *)
OfficeTypeOK ==
  CASE service = "imports" -> ImportTypeOK [] service \in {"correcting", "exporting"} -> FollowUpTypeOK
    [] service = "catalogue" -> CatalogueTypeOK [] service = "ageing" -> AgeingTypeOK
    [] service \in {"signIn", "requests"} -> AccountTypeOK [] service = "attempts" -> AttemptTypeOK
    [] service \in {"form", "scanning"} -> DeskTypeOK [] service = "listing" -> ListingTypeOK
    [] service = "pages" -> PagesTypeOK [] service = "numbering" -> NumberingTypeOK
    [] service = "access" -> AccessTypeOK [] service = "migrations" -> MigrationTypeOK
    [] service = "returning" -> ReturnTypeOK [] service = "moving" -> TransferTypeOK
=============================================================================
