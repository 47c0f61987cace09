# Microtek IDM in TLA+

Microtek IDM tracks serialised goods: units are produced and imported from SAP, received into
warehouses, transferred between them, dispatched to customers against invoices, and taken back.
Each physical unit is one row of `serial_master`, and nearly everything that can go wrong is about
two people changing the same unit, the same invoice or the same document at the same time.

The server (`server/src`) is an Express application over one PostgreSQL database. A request runs
one service method; its statements commit one by one, or together inside `withTransaction`
(`db/repositories.js:38`). Apart from the login limit, whose counters are in
Redis or in the process, there is no other shared state, so concurrency on the server means: what other
requests may commit between two statements of this one. In the client (`client/src`, React) it means:
what happens between an `await` and its answer.

## Inventory

| Component | State it keeps | Operations | Hard behaviour | Module |
|---|---|---|---|---|
| Customer dispatch (IDM-05) `idm05/dispatchService.js` | `dispatch`, `dispatch_scan`, `invoice.status` | startDispatch, scanSerial, completeDispatch | rival scans of one serial or one line; targets computed from counts that change; no transaction in startDispatch | `Fulfilment` |
| Sales returns (IDM-04) `idm04/srnService.js` | `srn`, `srn_scan`, soft-returned scans | createSrn, scanReturn, reopenInvoice | rival returns of one serial; foreign stock; invoice status recomputed without the dispatch lock | `Fulfilment` |
| Condition (IDM-04) | `serial_master.condition_tag` | correctConditionTag | a hold that is read before the transaction that obeys it | `Fulfilment` |
| Battery pre-billing (IDM-03) | `battery_pre_billing` | commitSerial | all checks before the transaction | `Fulfilment` |
| Fulfilment status (IDM-07) | none | calculateStatus, canCompleteDispatch | boundaries at 0 and at the required quantity | `Fulfilment` |
| Warehouses (admin) | `warehouse.is_active` | deactivate, reactivate, the guard | check, then act | `Fulfilment` |
| Validation (IDM-06) | exception rows | validateSerial | what a number stands for; its answer is used after other requests have run | `Numbering`, `Fulfilment`, `Receiving` |
| Goods receipt (IDM-02, IDM-01) | `grn`, `grn_scan` | startGrn, scanSerial, completeGrn, scanReceipt | blind receipt writes, re-opened receipts, two GRNs for one document | `Receiving` |
| Warehouse transfer (IDM-05) | `sap_dispatch_doc`, `sap_dispatch_line` | startTransfer, scanSerial | caps per product under a lock; a unit received once cannot be received again | `Receiving` |
| Production import (IDM-01) | `integration_batch`, its rejections, new serials | importProductionBatch | retries, overlapping deliveries, bookkeeping outside the transaction | `Imports` |
| Exception desk (IDM-10) | `exception_log` | correctException | rival corrections; precondition read outside the transaction | `FollowUp` |
| SAP export | `dispatch.sap_outbound_batch_id` | pending, markSapSynced | synchronised once, changed later | `FollowUp` |
| Product and invoice upload | `product`, `invoice`, `invoice_line` | the two uploads | row by row; two uploads of one invoice; death half way | `Catalogue` |
| Sessions (auth) | `app_user` lockout fields, `user_session` | login, authenticate, logout | rival logins; what is read before an administrator changes it | `Accounts` |
| Roles and members | `app_user`, `role`, their rows | update, deactivate | two administrators replace the same rows | `Accounts` |
| Login limit | counters in Redis and in the process | check, reset | a store that fails between two commands | `Attempts` |
| Ageing (IDM-08) | materialized view | report, drill-down, refresh | bucket boundaries; a refresh that fails silently; scope | `Ageing` |
| Migrations | `schema_migrations`, the schema | runMigrations | two servers start at once; death half way | `Migrations` |
| Client: scan screens | form and session in memory | load, start, scan, camera, complete | late answers, handlers of an earlier render, forms that stay open | `Desk`, `ReturnScreen`, `TransferScreen` |
| Client: table, pages, guards | view state, user | filter, order, page; load, retry, drill down; sign in, navigate | effects after renders, answers out of order, late 401s | `Listing`, `Pages`, `Access` |
| Reconciliation, history, dashboard, lookups | none | queries | none | none |

Components meet in the database: dispatch, returns, receipts and transfers all move
`serial_master.current_status` and `current_warehouse_id`; returns re-open the invoices dispatch
closes; pre-billing gates dispatch; validation answers all of them; deactivation must see all their
stock. Imports make the units and documents receipts expect. The client sees all of it through answers that
may be late. What makes each component correct is stated by the properties below.

## Modules

| Module | What it is |
|---|---|
| `Ledger` | What dispatch and returns promise together: each unit is in the house or held by one invoice, an invoice holds no more than it orders, a unit is taken back at most once. |
| `Fulfilment` | Dispatch, returns, condition correction, pre-billing and warehouse deactivation as concurrent requests. Implements `Ledger`. |
| `Custody` | Where a unit may be in its life, whoever moves it: in by one receipt, out by a transfer or a sale, back by one return. |
| `Receiving` | Goods receipt, receipt scan and warehouse transfer as concurrent requests. Implements `Custody`. |
| `Imports` | Production import: batches delivered once, twice, at once, and failing anywhere. |
| `FollowUp` | The exception desk and the export to SAP. |
| `Catalogue` | Uploads of products and of invoices, row by row. |
| `Ageing` | The ageing snapshot, its timer, the buckets, the scope of a viewer. |
| `Accounts`, `Attempts` | Login, lockout, sessions, authorised requests, the administration of members and roles; the limit on logins from one address. |
| `Numbering` | What a scanned number stands for. |
| `Migrations` | Overlapping runs of schema migrations. |
| `Desk`, `ReturnScreen`, `TransferScreen` | The client: the screens for dispatch, with its scanning, for returns and for transfers. |
| `Listing`, `Pages`, `Access` | The client: tables, loading pages, the session and the route guards. |
| `MCFulfilment`, `MCReceiving`, `MCImports`, `MCAgeing`, `MCOffice` and their configurations | Small instances for TLC. |
| `FulfilmentProofs`, `LedgerProofs` | Theorems about `Fulfilment` for every value of the constants, and that it implements `Ledger`. |
| `ReceivingProofs` | Theorems about `Receiving`, and that it implements `Custody`. |
| `ImportProofs`, `AccountProofs` | Theorems about `Imports`, `Numbering` and `Migrations`; about `Accounts` and `Attempts`. |
| `OfficeProofs`, `ScreenProofs` | Theorems about `FollowUp`, `Catalogue`, `Ageing` and `Access`; about the screens, `Pages` and `Listing`. |
| `MCOfficeProofs` | The composition of the services in `MCOffice` implements each of them, and their types together. |

`Fulfilment` and `Receiving` share `serial_master`. Each has the other's effect on a serial: the
serials of `Fulfilment` start in any state receipts and transfers leave (`StartStatuses`), and
`Receiving` has a sale and a return as one step each (`Sell`, `TakeBack`), which is what
`Fulfilment`'s `CommitScan` and `CommitReturn` do to the row. The modules of `MCOffice` share no table with
them that both write, or stand for the other side's write by an action of their own: `UnitReceived` in
`Imports`, `StartSale`, `ScanOut`, `CompleteSale`, `ComeBack` and `UploadSale` in `FollowUp`, `SetStatus` in `Catalogue`, `ComeIn` and
`GoOut` in `Ageing`, `Move` in `Numbering`, `Lapse` and `ChangeRights` in `Access`.

### Fulfilment

A client `c` runs one request at a time; `req[c].pc` names the statement that comes next, and the
other fields of `req[c]` are the local variables of the handler that are still needed. A step is cut
wherever the code lets another request in:

* `startDispatch` has no transaction, so each of its statements is a step: `StartDispatch` (invoice
  and warehouse), `FindDispatch`, `CountForStart`, `CountStock`, then `CreateDispatch` or
  `RepointDispatch`, `SetTarget`, `ResumeDispatch`, and `SeekShort`, `RaiseShort` when stock is short.
* `scanSerial` validates first (`ValidateScan`), then opens a transaction: `LockForScan` takes the
  dispatch row, `PickLine` chooses the invoice line and applies the condition hold and the battery
  gate, `CommitScan` compares and sets the serial and commits.
* `completeDispatch` is `LockForComplete` and `CompleteDispatch`.
* `scanReturn` is `LockForReturn` (quota, reconciliation, duplicate check), `InsertReturn` (the
  insert that a unique index decides, and the count `reopenInvoice` makes), and `CommitReturn`.
  `createSrn` is one step.
* `correctConditionTag` is one step; `commitSerial` of a battery is `CheckPreBilling` and
  `CommitPreBilling`; deactivating a warehouse is `CheckWarehouseEmpty` and `DeactivateWarehouse`.
* `Crash(c)` ends a request anywhere: a transaction rolls back, autocommitted statements stay.

Row locks are not variables. A row is locked while some request is between taking the lock and its
COMMIT, so `DispatchLocked`, `SrnLocked` and `SerialLocked` read `req`, and a crash frees them as the
database does. A request refused before it writes changes nothing and is no step; a request refused
inside a transaction commits its exception row and ends (`EndTransaction`), which frees its locks.

| Variable | Code |
|---|---|
| `serial` | `serial_master.current_status`, `current_warehouse_id`, `condition_tag` |
| `invoiceStatus`, `dispatch` | `invoice.status`; the one `dispatch` row of an invoice (V005) |
| `scans`, `returned` | `dispatch_scan` rows by `returned_at` |
| `srn`, `srnScans` | `srn`, `srn_scan` |
| `prebilled`, `short`, `activeWh` | `battery_pre_billing`, open SHORT rows of `exception_log`, `warehouse.is_active` |

Abstractions, each with its reason:

* Reads made one after the other before the first write of a transaction are one step where nothing
  later depends on the order: the invoice and the warehouse of `startDispatch`; dispatch, warehouse
  and serial in `ValidateScan`; the checks of `createSrn`, of `LockForReturn` and of
  `CheckPreBilling`. `insertScan` of a return and the count it leads to are one step, because its
  transaction already holds every row they read, except the scans of other serials; the compare-and-set and the writes after it are one
  step up to COMMIT, because the row locks hide them.
* `target < Required(i)` stands for `isPartial`: both are computed in one place from the same
  counts.
* A unit is returned once in its life, so at most one scan of it can be reconciled and the order
  by `scanned_at` in `findOriginalDispatchScan` reduces to "one that is still out, else one that came
  back".
* Left out: TRANSFER invoices (dispatch refuses them), dispatch rows with a NULL target (rows older
  than V010), `dispatch_line` targets (no service writes them), the optional product context of a scan,
  the warehouse scope of an operator (both only refuse more), a correction of a SHORT exception, and
  an invoice upload of an invoice in flight: it may change the lines (`Lines` is a constant) and it
  overwrites the status (`adminRepository/invoices.js:105`), a second writer of `invoiceStatus`.
  `StatusUntilReturn` and `InvoiceStatusExact` are about the writes of dispatch and returns only;
  the upload is in `Catalogue`, and its effect on an invoice in `FollowUp`.
* Serials enter in the states of `StartStatuses`: how they were received is module `Receiving`.

### Receiving

The same conventions. `startGrn` is `StartLooseGrn` (no reference, one statement), or `StartGrn`,
`SeekOpenGrn` and `CreateGrn`: it has no transaction, so two operators may both find no open receipt.
A receipt's `scanSerial` is `ValidateReceipt` and `CommitReceipt`; `scanReceipt` of IDM-01 is `ReadReceipt` and
`CommitReadReceipt` (with the destination as it was read before the transaction), which opens a receipt of its own and leaves it also when it refuses. `startTransfer`
is `StartTransfer` and `UpsertDoc`; a transfer's `scanSerial` is `ValidateTransfer`, `LockForTransfer`
(the count under the lock on the document) and `CommitTransfer`. `CompleteGrn` asks nothing of the
receipt. `Received(s)` is the lifetime index of V024, which makes the insert of a matched scan a no-op.
The variables are the tables: `serial`, `doc` and `lines` (`sap_dispatch_doc`, `sap_dispatch_line`),
`grn` and `grnScans`, and `returned`, the serials with a row in `srn_scan`.

A unit that a return took in as foreign stock may be received, from a document, at any time later;
`Custody` says so with the constant `ForeignReturns`, and the property about receipts is about what
remains: without them a receipt takes in only what is still inbound.

### Imports

`Deliver` reads the batch row, `CreatePending` inserts it, `ImportBatch` is the transaction with its
registrations, documents and lines, `AbortImport` its failure; `MarkProcessed`, `StoreRejections` and
`MarkFailed` are the statements after it, each of which may fail by itself (`RefuseRejections`,
`BookkeepingFails`). Names resolve to products by what they are when the batch is imported
(`ProductRenamed` changes them). The sender may repeat a batch at any time, also while the first
delivery is at work, and a file may be sent under the reference of another.

### FollowUp

`Find`, `CheckContext` and `Correct` are the three parts of `correctException`; `Raise` is any service
that leaves an exception. The export is `Pull`, one `Fetch` per pulled dispatch, the external `Post`
and `MarkSapSynced`; starts, scans, completions and returns (`StartSale`, `ScanOut`, `CompleteSale`,
`ComeBack`) run in between, and uploads (`UploadSale`), which set the status of an invoice to what the file
says, DISPATCHED or another, and leave its dispatch as it is. `sale[n]` is the row of a dispatch and the status of its
invoice (`billed`). What a scan or a completion makes of the two is `Outcomes`: both statuses come from one count, so the invoice is DISPATCHED
only if the dispatch is, except where an upload has changed what the invoice orders. `told`,
`completed`, `settled` and `rewritten` are history: the serials SAP was last told of, whether the
dispatch and the invoice have been DISPATCHED, and whether an upload has written the invoice. The desk asks for the status of
the invoice and not for that of the dispatch (`exceptionCorrectionService.js:20`), so `CorrectionsStand` says that
the invoice had been DISPATCHED, by a completed dispatch or by an upload. A return of a unit that
is not on the dispatch (foreign stock) changes nothing the desk or the export read, and is left out.

### Catalogue

One row of a file is one step (`ProductRow`; `Header`, `LineRow`), as each is a statement of its own;
`ProductRowFails` and `InvoiceFails` are rows the database refuses, `EndUpload` also an upload that dies.
`by` says who wrote a row last, which lets `WrittenOrReported` tell an overwritten row from a lost one.
It is about the rows that have a line: the code drops further rows of a reference without a
material code, and the header cells of all rows of a reference but the first, without a report
(`adminService/invoices.js:127-141`).

### Ageing

`RefreshSnapshot` succeeds only when `Indexes` holds a unique index, which the migrations do not create;
the property of the report that depends on it is the run `refresh`. Ages run over both sides of each
boundary, the day of receipt, a day in the future and a missing date.

`answer` is the last answer a route gave, to whom, and the rows it is made of. The report
(`GetAgeingReport`) reads one page (`FindOnHandSerials`, at most `PageLimit` rows) and counts that; which
rows of a larger warehouse it holds depends on the order of products, which is left open. The drill-down
(`GetProductsInBucket`) lists every row of a bucket. `BucketsAgree` therefore compares the tables row by
row on any page, and the numbers where the page holds the warehouse. Exports, the SAP export and the summary
(`GetExport`) go through `ResolveScope`; the report is granted by the policy of roles; the drill-down
takes any warehouse from whoever may read reports, and `ScopeIsNotWidened` excepts it.

### Accounts and Attempts

A login is `FindByUsername`, `PasswordWrong` or `PasswordRight`, then `RecordFailedLogin` or
`RecordSuccessfulLogin`, and `CreateSession`. A request is `Ask`, `FindSession`, `FindById`,
`RequirePermission`, each a query of its own. Administration is `UpdateMember`, `UpdateRole` (which take
the row lock), `CommitEdit`, `RollBackEdit`, `ToggleMemberActive`. `quiet` and `wrong` are history
variables. `Attempts` has `Incr`, `Expire` and `Reset` as separate calls to Redis, each of which may not
be answered, and the counter of the process that takes over.

### Numbering

`Register` composes the full number as the trigger of V027 does, from the name a product has at that
moment (`Rename`); `Resolve` is `findBySerialNo` with its precedence, `RuleBroken` the order of the checks
of `validateSerial`, `Refuse` the exception it leaves. A number is a sequence of parts, so that one may be
another one's stamp with a prefix.

### Migrations

A run checks the record (`HasMigration`), executes the migration (`RunSql`), records it
(`RecordVersion`) and commits, or fails or dies in between (`ApplyFails`, `Dies`). A second run that
inserts the same version waits on the primary key and fails (`Clashes`), and its transaction with it.

### The client

JavaScript runs a handler to its next `await`; the modules cut steps there, and answers come in any
order. `Desk` is the form (`TypeIn`, `HandleLoad`, `ChooseShop`, `Refetch` as an effect, `HandleCreate`)
and the session (`Submit`, `Serve` for the server's answer, `Settle`, the camera with the handler of an
earlier render, `ScanAgain` for a serial that is remembered). `count` is `scanCount`, `lines` the length of the
list of scans, in which every answer, lost request and repeated serial leaves a line; the screen shows the larger of the two
(`EffectiveScanCount`, `ScanSession.jsx:26`), which also decides whether there is anything to complete.
`native` says whether the browser has a detector: its loop waits for its scan, the callback of the
library that stands in for it does not. `Listing` is `DataTable.jsx` with its filters, search, order and pages, and the render
between a change and its effect. `Pages` is the loading of dashboard, ageing report and exception list,
with what each aborts and what it does not. `Access` is `AuthProvider.jsx` with its four calls, `Router.jsx`,
`PermissionRoute.jsx`, `ProtectedRoute.jsx` and the navigation. `ReturnScreen` and
`TransferScreen` are the forms and sessions of `SRNPage.jsx` and `WarehouseTransferPanel.jsx`; what they
share with the dispatch screen, the hand scanner, the camera and a second scan beside the first, is in `Desk`
only. `hasty` and `overtaken` are history variables: the operator went on while something was on its way, an
answer came when what it was asked for had gone.

## What is checked

| Run | Instance | Shows |
|---|---|---|
| `concurrent` | 2 clients, 2 serials, invoices of 2 and of 1 unit, one SRN | `TypeOK`, `NeverOverShipped`, `StatusUntilReturn`, `ReturnQuota`, and that `Fulfilment` implements `Ledger` (without foreign stock) |
| `returns` | 2 clients, 1 serial, 2 SRNs with and without foreign stock, serials also in transit | `SoldOnce`, `ReturnsReconcile`, `BackOnlyByReturn` |
| `scheduled` | 2 clients, 1 battery, an invoice of two lines and one of one, one SRN; fair | `BatteryGate`, `RequestsFinish` |
| `sequential` | 1 client, two batteries and an inverter (`Mixed`), an invoice that orders one of each, one SRN, 2 warehouses of which one may close, tags and corrections | `InvoiceStatusExact`, `OvershootBounded`, `ClosedIsEmpty`, `WarehousePinned`, `HeldStays` |
| `receipts` | 2 clients, 2 serials, 2 warehouses, 2 receipts, one document and one transfer | `TypeOK`, `TransferWithinInvoice`, and that `Receiving` implements `Custody` |
| `office` | the other modules, each on an instance of its own | 22 properties, listed below |
| `two_holders` | 1 client, 2 serials, one SRN that accepts foreign stock | violates `OneHolder` |
| `stale_hold` | 2 clients, corrections to DEFECTIVE, no returns | violates `HeldStays` |
| `stranded` | 1 client, 2 serials from the plant, 2 warehouses | violates `TransfersCanArrive` |
| `misdirected` | 1 client, 2 serials, 2 warehouses | violates `ReceiptsWereExpected` |
| `malformed` | 2 senders, 2 batches, each with a bad row | violates `NoBatchFailsForItsRows` |
| `refresh` | 1 unit, 2 warehouses, a timer that never stops | violates `SnapshotCatchesUp` |

Two clients are enough for each race, because each hazard is between two requests; a third would
only queue. Two serials and two invoices let a unit move from one invoice to another and let two units
compete for one line. The sets of `Fulfilment` and `Receiving` are finite, a serial returns once and is
received once, so no counter needs a bound. In `receipts` there is one transfer document with one route:
`TransferWithinInvoice` compares the lines of a document with its invoice, and the document is one that
everybody uploads for the same route. Clients (and serials or receipts, where the instance does not tell
them apart) are symmetric; no run with symmetry checks liveness.

The properties of `sequential` are kept by the code only while requests do not overlap, crashes
included; with two clients TLC breaks each of them, because the code reads before it locks
(`dispatchService.js:141`, `:191`, `:325`, `srnService.js:29`, `admin/adminService/warehouses.js:47`).
They are checked with one client to show that long sequences of legal calls keep them: dispatch,
return, re-dispatch, re-pointing, crashing half-way through `startDispatch` and starting again.

Two of them have a form that overlapping requests keep, too. `StatusUntilReturn` (run `concurrent`) is
the exactness of a status until the first return of the invoice, which recounts outside the lock that scans
and completions take. `OvershootBounded` says by how much two limits are missed when they are looked up in one
statement and written in another: an invoice has at most one SHORT report, and a line at most as many pre-billed
batteries as it orders, with one more of each for every request that overlaps. The comment
`idm03/batteryPreBillingService.js:91` ("you cannot commit more battery units than the invoice requires")
is therefore right for one operator at a time, which is the instance of the run; two may commit one too many,
and the theorem about the bound is for any number.

### The office run

The fourteen remaining modules share no table that two of them write, so one run checks them all:
`service` names the one a behaviour is about, and the others stand still (about 1.07 million distinct states in
all, three minutes with two workers). Of `Accounts`, `Desk` and `FollowUp` two
sides are looked at, because everything at once is too much: the desk with dispatches, returns and uploads
(`correcting`) and the export with them (`exporting`), between which no variable but `sale` and the serials is shared; who signs in (`signIn`, two browsers) and
what one browser may do while roles and members are edited (`requests`); the form (`form`, nothing is
scanned) and the session (`scanning`, the form is filled in straight, and the product is picked and a pause
made while no scan is on its way; with and without a detector of the browser's own). Of the two products of `Imports` one keeps its name; of the units of `Ageing` one moves where there is
one in stock at most, and two stay where they are; in `Numbering`
units are kept in one warehouse and a refused scan is the last. Deadlock is not checked, because
clocks, files, releases and the list of scans end (`MaxTime`, `LastDay`, `LastTick`, `Lists`, `Releases`, `MaxLines`); in `Imports` a
processed batch is not sent again.

| Module | Property | In short |
|---|---|---|
| `Imports` | `ProcessedIsImported`, `DeliveriesOnlyAdd` | a processed batch is there; a batch appears whole or not at all, and repeating it changes no row |
| `FollowUp` | `CorrectionsStand`, `SyncedWasSent` | rivals correct an exception once, and that of a dispatch not before its invoice has been DISPATCHED, by a completed dispatch or by an upload; a dispatch with a reference of SAP was completed, and what SAP was told is there or known to have come back |
| `Catalogue` | `OfficeTypeOK`, `WrittenOrReported`, `RoutesAreWhole` | no status an upload may not give; every row of a file with a line is written or reported; an invoice has a route exactly when it is a transfer |
| `Ageing` | `BucketsAgree`, `ScopeIsNotWidened` | of the page a report has read, a bucket lists the rows it counts there, and all of them are in some bucket; report, exports and summary show nobody but an administrator a warehouse that is not his (the drill-down is not scoped) |
| `Accounts` | `AnswersAreCurrent`, `OneRequestDecides`, `EveryFailureCounts` | an undisturbed request is granted on what holds now; rival edits leave one of them; no wrong password is lost |
| `Attempts` | `LimitKept` | no more attempts than the limit |
| `Desk` | `StockIsCurrent`, `CountIsTrue` | the stock shown is that of the selection, or the selection's request is on its way; `scanCount` is that of the units accepted, and the number on the screen is it unless more scans came to nothing than the session was begun with |
| `ReturnScreen` | `ReturnIsAsShown` | who waits for what he has asked for scans the return he filled in; nobody scans under another one's label |
| `TransferScreen` | `TransferIsAsShown` | the form has the route of its invoice, and its stock or a request for it; product and `scanCount` are the transfer's own, one transfer after the other |
| `Listing` | `RowsReachable` | a table never looks empty while rows match, and each of them is on some page |
| `Pages` | `ScreenSettles` | a page that has settled shows what is selected |
| `Numbering` | `ScansResolve` | a valid scan means a unit with that number of the product picked, and no other could be meant |
| `Access` | `GuardsAgree` | no page is offered that is refused; nothing waits for an answer that will not come |
| `Migrations` | `AppliedOnceInOrder` | the migrations in effect are the first of the list, once and in order, and exactly those are recorded |

In each, the smallest instance that contains the hazard is used: two requests, browsers or servers, a
batch with a good, an unknown and a malformed row, uploads that interleave two invoices, ages on both
sides of every boundary, three rows on pages of two, two lookups of transfers whose routes
are each other's way back, two returned or transferred units and one scan that outlives its session
(`MaxReturned`, `MaxMoved`, `MaxLate`). The report has two units in stock and a page of one (`PageLimit`), so that
a page is less than its warehouse; a session has three lines (`MaxLines`), enough for more fruitless
scans than it was begun with.

### Where code and words disagree

Six runs end in a counterexample, each against a line of the repository.

* `two_holders`: V025 (lines 13 to 17) drops the lifetime index on `dispatch_scan` because the status
  of the serial is said to keep a unit from being active on two dispatches. A return that accepts foreign
  stock takes in whatever it cannot reconcile (`srnService.js:175`), also a unit that is out on another
  invoice or on a dispatch that is not complete; it does not soft-return the scan, and the next dispatch gives
  the unit a second active scan. One operator is enough. `SoldOnce` and the theorems therefore speak of
  units that no return adopted.
* `stale_hold`: V023 (lines 3 to 5) says that held stock cannot be dispatched silently. A validation
  reads SALEABLE, a correction to DEFECTIVE commits, and the scan ships the unit.
* `stranded`: `warehouseTransferService.js:8` says a transfer is received with the unmodified flow of
  goods receipt. A unit that came by a receipt has used up the one V024 allows it, and stays in transit.
* `misdirected`: `grnService.js:351` says the destination must match the receiving warehouse. A receipt
  scan in the wrong one is refused, but the receipt it has opened there stays, and the next scan on it is not
  compared with the destination.
* `malformed`: `productionImport.js:8` says malformed records are rejected one by one. One without a
  serial cannot be stored as rejected, and the batch is marked FAILED after its import has committed.
* `refresh`: the README of the repository gives the snapshot an interval of refresh. The view has no unique
  index, so `REFRESH ... CONCURRENTLY` always fails and the snapshot stays as the migration made it.

Met while modelling, kept in the models as they are and contradicted by no text of the repository:

* `exceptionCorrectionService.js:20`: the desk trusts `invoice.status`, which an upload may set to DISPATCHED
  (`adminService/invoices.js:203`, `adminRepository/invoices.js:105`): an exception of a dispatch that was never
  completed can then be corrected (`CorrectionsStand`, last conjunct). The same upload overwrites the
  status of an invoice that is being dispatched.
* `ageingReportService.js:52`: summary and chart count the rows of the page that was read, 50 unless asked otherwise
  (`ageingSchemas.js:13`), and the client asks for none; opening a bucket lists all of it. "Export all"
  fetches only the buckets that the page has rows in (`AgeingPage.jsx:165-183`).
* `ageingRoutes.js:99`: opening a bucket is not scoped to the warehouses of the user, as the report and the exports are.
  The comment at lines 21 to 27 says `requirePermission` would reject administrators, whom `can` lets pass.
* `ageingReportRepository.js:125`: the summary by warehouse selects `age_days` without an alias and the service
  reads `ageDays` (`ageingReportService.js:165`), so all its units count as "Missing receipt date".
* `ScanSession.jsx:26`: the number shown is `Math.max(scanCount, scans.length)`, and the list has a line for refused,
  failed and repeated scans: it may exceed what has been dispatched, other than the comment at
  `CustomerDispatchPanel.jsx:139` ("new scans increment from this base") suggests.
* `CustomerDispatchPanel.jsx:129`: with a request for stock on its way, a dispatch can be begun on the stock of the
  pair chosen before; so can a transfer (`WarehouseTransferPanel.jsx`).
* `useScanner.js:138`: the callback of the library scanner does not wait for its scan, the native loop does.
* `useScanner.js:92`: the camera goes on with the handler of the render it was started in, so it sends
  the product chosen then (`Desk`, `cam[k].ware`).
* `SRNPage.jsx:43`: an invoice stays loaded when the lookup of another fails. While a return is being created the
  ticks and the Load button stay open, and the products offered for scanning are those of the form (line 130),
  so that an operator who goes on can scan for a product the return was not flagged with, other than the comment
  on line 129 says; `ReturnIsAsShown` is therefore about those who wait. A limit reached on the screen (line 128)
  is that of the form, too.
* `WarehouseTransferPanel.jsx:170`: a scan on its way when Done is pressed counts in the next transfer, and a lookup or a
  creation still on its way changes it (`TransferScreen`, `overtaken`).
* `MembersTab.jsx:136`: saving a
  member drops warehouses that are not listed. `AgeingPage.jsx:157`: the export of a drill-down may get the name of
  another bucket. `DashboardPage.jsx:211`: an error is hidden while an older summary is shown.
  `DataTable.jsx:50`: a filter with at most one option left loses its control.
* `grnService.js:99` and `:418`: two receipts for one document; a closed receipt is re-opened by a scan.
* `dispatchService.js:248`: the warehouse of the serial is compared with the dispatch before the
  transaction, which then compares status and warehouse with what was read.
* `exceptionCorrectionService.js:89`: a stamped number that fits two units is resolved without the
  product. `ageingReportRepository.js:35`: pages by LIMIT and OFFSET over a key that is not unique.
* V027: a unit imported under a former name of its product makes every later batch that contains it
  fail (`Insertable`).

### Broken variants

The operators commented "broken variant" are what a plausible bug would make of the operator after
them (a lock not taken, a comparison dropped, a reset forgotten). No specification uses them; each
property is known to fail when one of them takes the place of the operator it imitates.

### Fairness

`FairSpec` of `Fulfilment` gives each request strong fairness of its own next step. PostgreSQL queues
the waiters of a row lock in arrival order, so a request that could take a lock again and again is
served; every other step only needs the server to keep running. Arrivals and crashes are not fair: nobody has to
send a request, and nothing has to crash. `RequestsFinish` then says that lock waits end, which rests
on the order in which rows are locked: dispatch or SRN, then serial. The row lock of the invoice, which comes last
and is held to the commit, is not modelled: nobody waits for another row while he holds it, so it cannot close a circle.
`TimedAgeingSpec` of `Ageing` assumes that the timer fires again and again, which is what `setInterval`
does as long as the server runs; whether a refresh then succeeds is decided by the step itself. All other specifications assume nothing.

## What is proved

With tlapm, for every value of the constants that satisfies the assumptions named in the modules: any
number of clients, units, invoices, documents, browsers and files. Every theorem is shown by an inductive
invariant, a conjunction of named parts; TLC looked for counterexamples to the new ones on the
instances above before they were proved. The assumptions say what the tables and the types of the
program guarantee: finitely many serials and lines, positive quantities, line numbers unique in an
invoice, limits that are numbers, values that stand for "none" different from every id and row.

| Property | Theorem | What the inductive invariant adds |
|---|---|---|
| `Fulfilment`: `TypeOK` | `TypesHold` | `Grounded`: the ids a request carries are those of rows that exist when it uses them; the active scans are finitely many, from which counts are numbers (`IndType`) |
| `SoldOnce`, `ReturnsReconcile`, `BackOnlyByReturn` | `UnitsAreSoldOnce`, `ReturnsAreReconciled`, `UnitsComeBackOnce` | `IndStock`, their conjunction: a return marks back the scan it read before its insert, so that scan must still be out, which past the insert no rival can change |
| `NeverOverShipped`, `ReturnQuota`, `BatteryGate` | `LinesAreNotOverShipped`, `ReturnsKeepTheirQuota`, `BatteriesArePreBilled` | `IndCount`: one request at a time is between the lock on a dispatch or on a return and its commit, and what it has counted still leaves room for its insert |
| `ImplementsLedger` | `RequestsKeepTheLedger` | `IndLedger`: `IndCount`, and no return is of foreign stock. Initial states map to initial states; `CommitScan` is a sale, `CommitReturn` a return, every other step none |
| `StatusUntilReturn` | `StatusesFollowUntilReturn` | the request that holds a dispatch has a count that is still so, and nobody writes the status of an invoice without the lock until a unit of it is back |
| `OvershootBounded` | `OverlapsPushLimitsByOne` | reports and pre-billed units, together with the requests about to write one, stay within the limit: the requests at work are what it may be missed by |
| `InvoiceStatusExact`, `ClosedIsEmpty`, `WarehousePinned`, `HeldStays` | `AloneStatusesAreExact`, `AloneClosedWarehousesAreEmpty`, `AloneDispatchesArePinned`, `AloneHeldUnitsStay` | `IndAlone`: what a request has read is still so (`Fresh`), and the status of an invoice follows its scans as far as the request at work has written it. For one client, crashes included |
| `Receiving`: `TypeOK` | `ReceivingTypesHold` | `Grounded`, as above |
| `TransferWithinInvoice` | `TransfersStayWithinInvoice` (one route), `TransfersAreInvoiced` (any) | `IndMove`: the lock on the document, and the count made under it |
| `ImplementsCustody` | `UnitsLiveByCustody` | `IndCustody`: a unit in the house, sold or in transit again has entered by a receipt or a return |
| `Imports`: `ProcessedIsImported`, `DeliveriesOnlyAdd` | `ProcessedBatchesAreThere`, `DeliveriesAddWholeBatches` | `IndImports`: a request at its bookkeeping has brought all of its payload |
| `Numbering`: `ScansResolve` | `NoScanIsMistaken` | `Numbered`: the two unique indexes of V027 |
| `Accounts`: `OneRequestDecides`, `EveryFailureCounts`, `AnswersAreCurrent` | `EditsAreWhole`, `FailuresAreCounted`, `GrantsAreCurrent` | `IndEdits`: what an edit has deleted is still all there is; `IndFails`: a login is one of a member; `IndCurrent`: what an undisturbed request has read so far |
| `Attempts`: `LimitKept` | `LimitIsKept` | each counter has let through what it shows, up to the limit |
| `Migrations`: `AppliedOnceInOrder` | `MigrationsApplyOnce` | a run has behind it only what is recorded, and nobody has committed the row it is about to |
| `FollowUp`: `CorrectionsStand`, `SyncedWasSent` | `ExceptionsAreCorrectedOnce`, `SyncedDispatchesWereSent` | `IndDesk`: a correction at work has seen the invoice DISPATCHED, and an invoice is that only by a completed dispatch or an upload; `IndExport`: what the adapter has in hand was fetched from a completed dispatch |
| `Catalogue`: `RoutesAreWhole`, `WrittenOrReported` | `UploadsLeaveWholeRoutes`, `RowsAreWrittenOrReported` | `RowsKept`: for each row behind an upload, header and line are in the tables, overwritten or reported |
| `Ageing`: `BucketsAgree`, `ScopeIsNotWidened` | `BucketsAgreeAtEveryAge`, `ExportsKeepTheirScope` | ages are natural numbers or missing; the rows of an answer are those the scope let through |
| `Access`: `GuardsAgree` | `TheBrowserIsRight` | `IndAccess`: with no crossing of calls, what the browser believes is what the server knows or an answer on its way says |
| `Desk`: `StockIsCurrent`, `CountIsTrue` | `DispatchesFollowTheForm`, `ScansAreCountedOnce` | a request for stock is for what is on the form; the pieces counted, answered for and on their way are different ones; the list has a line for each accepted and each fruitless scan |
| `ReturnScreen`: `ReturnIsAsShown` | `ReturnsFollowTheForm` | `IndReturn`: one lookup and one creation at a time, and what is on its way is what was filled in |
| `TransferScreen`: `TransferIsAsShown` | `TransfersFollowTheForm` | `IndTransfer`: stock, route and session each follow the invoice on the form |
| `Pages`: `ScreenSettles` | `SelectionsSettle` | `IndPage`: of the requests a page still listens to, the last is for the selection |
| `Listing`: `RowsReachable` | `RowsCanBeReached` | `IndListing`, the type invariant; the rest is about one render: no two rows have the same rank, the ranks fill the numbers below the number of matches, and a page is a range of ranks |
| `MCOffice`: `OfficeTypeOK` | `OfficeTypesHold` | the type invariants below, and `OfficeImplements` |

Three of these have a hypothesis beyond the modules' assumptions, and need it. `RequestsKeepTheLedger`
assumes that nobody answers yes to the question about foreign stock: with foreign stock the run
`two_holders` is a counterexample to the ledger. The four theorems whose names begin with `Alone` assume
at most one client, because with two the properties are false (see above). `TransfersStayWithinInvoice`
assumes that all transfer invoices name one route: a reference that was used for one route is taken over by the
next invoice that bears it, and `TransfersAreInvoiced` is what remains without the assumption.

Every module has its type invariant as a theorem: `TypesHold` and `ReceivingTypesHold` for the two large
ones, and `ImportTypesHold`, `NumberingTypesHold`, `MigrationTypesHold`, `AccountTypesHold`, `AttemptTypesHold`,
`FollowUpTypesHold`, `CatalogueTypesHold`, `AgeingTypesHold`, `AccessTypesHold`, `DeskTypesHold`,
`PagesTypesHold`, `ListingTypesHold`, `ReturnTypesHold` and `TransferTypesHold` for the others. Few of them are
inductive as they stand: a request, a lookup or a page at work carries values it has read, and the invariants
add what those are (`IndAccount`, `IndScreen`, `IndPages` and their like). Some say more than shapes: a line
of an invoice has its invoice and its product (`Catalogue`), a line of a document its unit
(`Imports`), a cookie its session (`Accounts`).

`OfficeImplements` is the composition: the services share no variable, a step of the office is a step of one
of them and leaves the others alone, so a behaviour of the office is one of each module's specification, and
every theorem above holds in it.

The assumptions the proofs use, by name: `LinesAssumption`, `StockAssumption`, `InputAssumption`,
`NoneAssumption` and `ClientsAssumption` (finitely many requests at a time, which the pool of connections
sees to, and only the counting of `OvershootBounded` needs) in `Fulfilment`; `RegistryAssumption`,
`ShipmentAssumption`, `InvoiceAssumption` and `NoneAssumption` in `Receiving`; `PayloadsAreSequences`,
`NothingIsNoRow`; `ReleasesAssumption` (there is a latest release); `CatalogueAssumption` (files are sequences of rows, a row that
passes the parser names a product); `AgeingAssumption`; `LockoutAssumption`, `EditAssumption`,
`LimitAssumption` (limits and windows are positive); `ListingAssumption` (cells that can be ordered, a page has room for
a row); and in `FollowUp` and the screens that the value for "nothing" is none of the others. Beyond finiteness
none restricts how many there are of anything, nor in what order they act.

The ages and files of `Catalogue` and `Ageing` are numbers and sequences of any length. Where a
property of every row of a file follows from that of the rows before it, the proof takes a least counterexample
(`LeastElement`, from the well-foundedness of the natural numbers) in place of an induction scheme.

Only model-checked:

* `RequestsFinish`: liveness under fairness is outside the prover.
* The violation runs, which are counterexamples.

## Not modelled

* Reports and lookups (reconciliation, serial history, dashboard, search): read-only queries.
* HTTP wiring, configuration, logging, the general rate limiters (a library's).
* Seeds, and what the SQL of each migration does, apart from the indexes and defaults that decide a
  step of some module.
* Single edits of warehouses, products and invoices, creating members and resetting passwords, and the
  document of an invoice (POD): single statements without a race of their own.
* An upload that changes the lines of an invoice while it is dispatched: `Lines` of `Fulfilment` is a
  constant. `Catalogue` has the upload by itself; the status it overwrites is in `FollowUp`.
* Layout, charts, formatting and export files of the client; its receipt, pre-billing, condition and
  administration screens, which repeat the patterns of `Desk`, `Listing` and `Pages`.

## Plan

1. The promise of the two broken properties that a narrower hypothesis saves: `OneHolder` and the
   implementation of `Ledger` with foreign stock, for units no return adopts; `TransfersCanArrive` for units
   that have had no receipt.
2. `Fulfilment` with lines that an upload may change.
3. `Fulfilment` and `Receiving` over one `serial_master`: `Ledger` and `Custody` as two views of one
   composition, in place of the steps each module has for the other.
