-------------------------- MODULE FulfilmentProofs --------------------------
(***************************************************************************)
(* Proofs about Fulfilment, for every number of clients, serials, invoices *)
(* and returns.                                                            *)
(***************************************************************************)
EXTENDS Fulfilment, FiniteSetTheorems, TLAPS

-----------------------------------------------------------------------------
(* Types.  Handlers copy the ids they looked up into the rows, so types    *)
(* are inductive together with what each request carries; counts are       *)
(* numbers because the rows counted are finitely many.                     *)

IndType ==
    /\ TypeOK
    /\ IsFiniteSet(scans)
    /\ \A c \in Clients : Grounded(c)

LEMMA MinOfTwo ==
    ASSUME NEW a \in Int, NEW b \in Int
    PROVE  Min({a, b}) = IF a <= b THEN a ELSE b
BY DEF Min

\* Counts of rows are natural numbers.
LEMMA CountsAreNat ==
    ASSUME IsFiniteSet(scans), NEW i
    PROVE  CountScans(i) \in Nat
BY FS_Subset, FS_CardinalityType DEF CountScans, ScansOf

\* An invoice orders finitely many units.
LEMMA OrderedIsFinite ==
    ASSUME NEW i \in Invoices
    PROVE  IsFiniteSet(Ordered(i))
<1> DEFINE piece == [l \in LinesOf(i) |-> {l} \X (1 .. l.qty)]
           pieces == {{l} \X (1 .. l.qty) : l \in LinesOf(i)}
<1>1. IsFiniteSet(LinesOf(i))
  BY LinesAssumption, FS_Subset DEF LinesOf
<1>2. IsFiniteSet(pieces)
  <2>1. piece \in Surjection(LinesOf(i), pieces)
    BY DEF Surjection
  <2>2. QED
    BY <1>1, <2>1, FS_Surjection
<1>3. \A p \in pieces : IsFiniteSet(p)
  <2>1. SUFFICES ASSUME NEW l \in LinesOf(i) PROVE IsFiniteSet({l} \X (1 .. l.qty))
    OBVIOUS
  <2>2. IsFiniteSet({l})
    BY FS_Singleton
  <2>3. 1 \in Int /\ l.qty \in Int
    BY LinesAssumption DEF LinesOf
  <2>4. IsFiniteSet(1 .. l.qty)
    BY <2>3, FS_Interval
  <2>5. QED
    BY <2>2, <2>4, FS_Product
<1>4. QED
  BY <1>2, <1>3, FS_UNION DEF Ordered

LEMMA RequiredIsNat ==
    ASSUME NEW i \in Invoices
    PROVE  Required(i) \in Nat
BY OrderedIsFinite, FS_CardinalityType DEF Required

LEMMA AvailableIsNat ==
    ASSUME NEW w, NEW i
    PROVE  AvailableStock(w, i) \in Nat
BY StockAssumption, FS_Subset, FS_CardinalityType DEF AvailableStock, Available

\* A step that changes one request keeps every type when the rows it leaves and the
\* request it stores have theirs, and no dispatch or SRN row disappears.
LEMMA StepKeepsTypes ==
    ASSUME IndType, NEW c \in Clients, NEW r \in Request,
           req' = [req EXCEPT ![c] = r],
           serial' \in [Serials -> [status: Statuses, wh: Warehouses, tag: ConditionTags \cup {None}]],
           invoiceStatus' \in [Invoices -> {"PENDING", "PARTIALLY_DISPATCHED", "DISPATCHED"}],
           dispatch' \in [Invoices -> DispatchRow \cup {None}],
           scans' \subseteq Scan, IsFiniteSet(scans'),
           returned' \subseteq Scan,
           srn' \in [Srns -> SrnRow \cup {None}],
           srnScans' \subseteq SrnScan,
           prebilled' \subseteq Scan,
           short' \in [Invoices -> Nat],
           activeWh' \subseteq Warehouses,
           \A i \in Invoices : dispatch[i] # None => dispatch'[i] # None,
           \A k \in Srns : srn[k] # None => srn'[k] # None,
           Grounded(c)'
    PROVE  IndType'
<1>1. TypeOK'
  BY DEF IndType, TypeOK
<1>2. ASSUME NEW e \in Clients PROVE Grounded(e)'
  <2>1. CASE e = c
    BY <2>1
  <2>2. CASE e # c
    <3>1. req'[e] = req[e] /\ Grounded(e)
      BY <2>2 DEF IndType, TypeOK
    <3>2. QED
      BY <3>1 DEF Grounded, Starting, Scanning, Returning, LinesOf
  <2>3. QED
    BY <2>1, <2>2
<1>3. QED
  BY <1>1, <1>2 DEF IndType

LEMMA TypeInit == Init => IndType
<1> SUFFICES ASSUME Init PROVE IndType
  OBVIOUS
<1>1. IsFiniteSet(scans)
  BY FS_EmptySet DEF Init
<1>2. Idle \in Request
  BY DEF Idle, Request
<1>3. TypeOK
  BY <1>2, StockAssumption DEF Init, TypeOK, Statuses
<1>4. ASSUME NEW c \in Clients PROVE Grounded(c)
  <2>1. req[c].pc = "idle"
    BY DEF Init, Idle
  <2>2. QED
    BY <2>1 DEF Grounded, Starting, Scanning, Returning
<1>5. QED
  BY <1>1, <1>3, <1>4 DEF IndType

\* Requests that only change what they carry.
LEMMA RequestKeepsTypes ==
    ASSUME IndType, UNCHANGED rows, NEW c \in Clients, NEW r \in Request,
           req' = [req EXCEPT ![c] = r], Grounded(c)'
    PROVE  IndType'
BY StepKeepsTypes DEF IndType, TypeOK, rows

LEMMA IdleIsGrounded ==
    ASSUME IndType, NEW c \in Clients, req' = [req EXCEPT ![c] = Idle]
    PROVE  Idle \in Request /\ Grounded(c)'
BY DEF IndType, TypeOK, Idle, Request, Grounded, Starting, Scanning, Returning

LEMMA FinishTypes ==
    ASSUME IndType, NEW c \in Clients, Finish(c), UNCHANGED rows
    PROVE  IndType'
BY RequestKeepsTypes, IdleIsGrounded DEF Finish

LEMMA StartDispatchTypes ==
    ASSUME IndType, NEW c \in Clients, NEW i \in Invoices, NEW w \in Warehouses,
           StartDispatch(c, i, w)
    PROVE  IndType'
<1> DEFINE r == [Idle EXCEPT !.pc = "finding", !.inv = i, !.wh = w]
<1>1. r \in Request /\ r.pc = "finding" /\ r.inv = i /\ r.wh = w
  BY DEF Idle, Request
<1>2. req' = [req EXCEPT ![c] = r] /\ UNCHANGED rows
  BY DEF StartDispatch, Begin
<1>3. req'[c] = r
  BY <1>2 DEF IndType, TypeOK
<1>4. Grounded(c)'
  BY <1>1, <1>3 DEF Grounded, Starting, Scanning, Returning
<1>5. QED
  BY <1>1, <1>2, <1>4, RequestKeepsTypes

\* What a startDispatch in progress carries.
LEMMA StartInProgress ==
    ASSUME IndType, NEW c \in Clients, req[c].pc \in Starting
    PROVE  /\ req[c] \in Request
           /\ req[c].inv \in Invoices /\ req[c].wh \in Warehouses
           /\ req[c].found \in Warehouses \cup {None}
           /\ req[c].count \in Nat /\ req[c].target \in Nat
BY DEF IndType, TypeOK, Grounded, Request

LEMMA FindDispatchTypes ==
    ASSUME IndType, NEW c \in Clients, FindDispatch(c)
    PROVE  IndType'
<1> DEFINE i == req[c].inv
           found == IF dispatch[i] = None THEN None ELSE dispatch[i].wh
           r == [req[c] EXCEPT !.pc = "counting", !.found = found]
<1>1. req[c] \in Request /\ i \in Invoices /\ req[c].wh \in Warehouses
  BY StartInProgress DEF FindDispatch, Starting
<1>2. found \in Warehouses \cup {None} /\ (found # None => dispatch[i] # None)
  BY <1>1 DEF IndType, TypeOK, DispatchRow
<1>3. r \in Request /\ r.pc = "counting" /\ r.inv = i /\ r.wh = req[c].wh /\ r.found = found
  BY <1>1, <1>2 DEF Request
<1>4. req' = [req EXCEPT ![c] = r] /\ req'[c] = r /\ UNCHANGED rows
  BY DEF FindDispatch, IndType, TypeOK
<1>5. Grounded(c)'
  BY <1>1, <1>2, <1>3, <1>4 DEF Grounded, Starting, Scanning, Returning, rows
<1>6. QED
  BY <1>3, <1>4, <1>5, RequestKeepsTypes

LEMMA CountForStartTypes ==
    ASSUME IndType, NEW c \in Clients, CountForStart(c)
    PROVE  IndType'
<1> DEFINE i == req[c].inv
           already == IF req[c].found = None THEN 0 ELSE CountScans(i)
           r == [req[c] EXCEPT !.pc = "stocking", !.count = already]
<1>1. /\ req[c] \in Request /\ i \in Invoices /\ req[c].wh \in Warehouses
      /\ req[c].pc = "counting" /\ UNCHANGED rows
  BY StartInProgress DEF CountForStart, Starting
<1>2. CASE Finish(c)
  BY <1>1, <1>2, FinishTypes
<1>3. CASE ~Finish(c)
  <2>1. already \in Nat /\ Required(i) \in Nat /\ already < Required(i)
    BY <1>1, <1>3, CountsAreNat, RequiredIsNat DEF CountForStart, IndType
  <2>2. req' = [req EXCEPT ![c] = r] /\ req'[c] = r
    BY <1>3 DEF CountForStart, IndType, TypeOK
  <2> HIDE DEF already
  <2>3. /\ r \in Request /\ r.pc = "stocking" /\ r.inv = i /\ r.wh = req[c].wh
        /\ r.found = req[c].found /\ r.count = already
    BY <1>1, <2>1 DEF Request
  <2>4. req[c].found # None => dispatch[i] # None
    BY <1>1 DEF IndType, Grounded
  <2>5. Grounded(c)'
    BY <1>1, <2>1, <2>2, <2>3, <2>4 DEF Grounded, Starting, Scanning, Returning, rows
  <2>6. QED
    BY <1>1, <2>2, <2>3, <2>5, RequestKeepsTypes
<1>4. QED
  BY <1>2, <1>3

\* The target is at most what the invoice still misses, and at least one unit.
LEMMA CountStockTypes ==
    ASSUME IndType, NEW c \in Clients, CountStock(c)
    PROVE  IndType'
<1> DEFINE i == req[c].inv
           onHand == AvailableStock(req[c].wh, i)
           remaining == Required(i) - req[c].count
           pc == IF req[c].found = None THEN "creating"
                 ELSE IF SwitchesWarehouse(c) THEN "repointing" ELSE "targeting"
           target == req[c].count + Min({onHand, remaining})
           r == [req[c] EXCEPT !.pc = pc, !.target = target]
<1>1. /\ req[c] \in Request /\ i \in Invoices /\ req[c].wh \in Warehouses /\ req[c].count \in Nat
      /\ req[c].pc = "stocking" /\ UNCHANGED rows
  BY StartInProgress DEF CountStock, Starting
<1>2. CASE Finish(c)
  BY <1>1, <1>2, FinishTypes
<1>3. CASE ~Finish(c)
  <2>1. target \in Nat
    <3>1. onHand \in Nat /\ remaining \in Nat
      BY <1>1, RequiredIsNat, AvailableIsNat DEF IndType, Grounded
    <3>2. Min({onHand, remaining}) = IF onHand <= remaining THEN onHand ELSE remaining
      BY <3>1, MinOfTwo
    <3>3. QED
      BY <1>1, <3>1, <3>2
  <2>2. req' = [req EXCEPT ![c] = r] /\ req'[c] = r
    BY <1>3 DEF CountStock, IndType, TypeOK
  <2>3. /\ pc \in {"creating", "repointing", "targeting"}
        /\ pc # "creating" => req[c].found # None
    OBVIOUS
  <2> HIDE DEF pc, target
  <2>4. r \in Request /\ r.pc = pc /\ r.inv = i /\ r.wh = req[c].wh
    BY <1>1, <2>1, <2>3 DEF Request
  <2>5. pc # "creating" => dispatch[i] # None
    BY <1>1, <2>3 DEF IndType, Grounded
  <2>6. Grounded(c)'
    BY <1>1, <2>2, <2>3, <2>4, <2>5 DEF Grounded, Starting, Scanning, Returning, rows
  <2>7. QED
    BY <1>1, <2>2, <2>4, <2>6, RequestKeepsTypes
<1>4. QED
  BY <1>2, <1>3

\* Requests that only move on to another statement.
LEMMA GotoTypes ==
    ASSUME IndType, NEW c \in Clients,
           NEW pc \in {"targeting", "resuming", "seekingShort", "raisingShort"},
           Goto(c, pc),
           req[c].inv \in Invoices, req[c].wh \in Warehouses,
           pc \in {"targeting", "resuming"} => dispatch'[req[c].inv] # None
    PROVE  /\ [req[c] EXCEPT !.pc = pc] \in Request
           /\ req' = [req EXCEPT ![c] = [req[c] EXCEPT !.pc = pc]]
           /\ Grounded(c)'
<1>1. req[c] \in Request
  BY DEF IndType, TypeOK
<1>2. [req[c] EXCEPT !.pc = pc] \in Request
  BY <1>1 DEF Request
<1>3. req' = [req EXCEPT ![c] = [req[c] EXCEPT !.pc = pc]]
  BY DEF Goto
<1>4. req'[c] = [req[c] EXCEPT !.pc = pc]
  BY <1>3 DEF IndType, TypeOK
<1>5. Grounded(c)'
  BY <1>1, <1>4 DEF Grounded, Starting, Scanning, Returning, Request
<1>6. QED
  BY <1>2, <1>3, <1>5

\* After the target is written the request ends or reports a shortage.
LEMMA AfterTargetTypes ==
    ASSUME IndType, NEW c \in Clients, AfterTarget(c), req[c].pc \in Starting
    PROVE  \E r \in Request : req' = [req EXCEPT ![c] = r] /\ Grounded(c)'
<1>1. CASE Finish(c)
  BY <1>1, IdleIsGrounded DEF Finish
<1>2. CASE Goto(c, "seekingShort")
  <2>1. req[c].inv \in Invoices /\ req[c].wh \in Warehouses
    BY DEF IndType, Grounded
  <2>2. QED
    BY <1>2, <2>1, GotoTypes
<1>3. QED
  BY <1>1, <1>2 DEF AfterTarget

\* The writes of startDispatch leave every table but the dispatches alone.
LEMMA DispatchRowKeepsTypes ==
    ASSUME IndType, NEW c \in Clients, NEW i \in Invoices, NEW row \in DispatchRow,
           dispatch' = [dispatch EXCEPT ![i] = row],
           UNCHANGED <<stock, invoiceStatus, srn, srnScans, prebilled, short, activeWh>>,
           NEW r \in Request, req' = [req EXCEPT ![c] = r], Grounded(c)'
    PROVE  IndType'
<1>1. dispatch' \in [Invoices -> DispatchRow \cup {None}]
  BY DEF IndType, TypeOK
<1>2. \A j \in Invoices : dispatch[j] # None => dispatch'[j] # None
  BY NoneAssumption DEF IndType, TypeOK, DispatchRow
<1>3. QED
  BY <1>1, <1>2, StepKeepsTypes DEF IndType, TypeOK, stock

LEMMA CreateDispatchTypes ==
    ASSUME IndType, NEW c \in Clients, CreateDispatch(c)
    PROVE  IndType'
<1> DEFINE i == req[c].inv
           row == [wh |-> req[c].wh, target |-> req[c].target, status |-> "PENDING"]
<1>1. i \in Invoices /\ req[c].wh \in Warehouses /\ req[c].target \in Nat /\ req[c].pc \in Starting
  BY DEF IndType, TypeOK, Request, CreateDispatch, Grounded, Starting
<1>2. CASE Finish(c) /\ UNCHANGED dispatch
  <2>1. UNCHANGED rows
    BY <1>2 DEF CreateDispatch, rows, stock
  <2>2. QED
    BY <1>2, <2>1, FinishTypes
<1>3. CASE dispatch' = [dispatch EXCEPT ![i] = row] /\ AfterTarget(c)
  <2>1. row \in DispatchRow
    BY <1>1 DEF DispatchRow, DispatchStatuses
  <2>2. PICK r \in Request : req' = [req EXCEPT ![c] = r] /\ Grounded(c)'
    BY <1>1, <1>3, AfterTargetTypes
  <2>3. QED
    BY <1>1, <1>3, <2>1, <2>2, DispatchRowKeepsTypes DEF CreateDispatch
<1>4. QED
  BY <1>2, <1>3 DEF CreateDispatch

\* The dispatch row a later statement of startDispatch updates is there.
LEMMA OpenRow ==
    ASSUME IndType, NEW c \in Clients, req[c].pc \in {"repointing", "targeting", "resuming"}
    PROVE  /\ req[c].inv \in Invoices /\ req[c].wh \in Warehouses /\ req[c].target \in Nat
           /\ req[c].pc \in Starting
           /\ dispatch[req[c].inv] \in DispatchRow
BY DEF IndType, TypeOK, Request, Grounded, Starting

LEMMA RepointDispatchTypes ==
    ASSUME IndType, NEW c \in Clients, RepointDispatch(c)
    PROVE  IndType'
<1> DEFINE i == req[c].inv
           row == [dispatch[i] EXCEPT !.wh = req[c].wh]
<1>1. i \in Invoices /\ req[c].wh \in Warehouses /\ dispatch[i] \in DispatchRow
  BY OpenRow DEF RepointDispatch
<1>2. row \in DispatchRow
  BY <1>1 DEF DispatchRow
<1>3. dispatch' = [dispatch EXCEPT ![i] = row] /\ dispatch'[i] = row
  BY <1>1 DEF RepointDispatch, IndType, TypeOK
<1>4. row # None
  BY <1>2, NoneAssumption DEF DispatchRow
<1>5. PICK r \in Request : req' = [req EXCEPT ![c] = r] /\ Grounded(c)'
  BY <1>1, <1>3, <1>4, GotoTypes DEF RepointDispatch
<1>6. QED
  BY <1>1, <1>2, <1>3, <1>5, DispatchRowKeepsTypes DEF RepointDispatch

LEMMA SetTargetTypes ==
    ASSUME IndType, NEW c \in Clients, SetTarget(c)
    PROVE  IndType'
<1> DEFINE i == req[c].inv
           row == [dispatch[i] EXCEPT !.target = req[c].target]
<1>1. /\ i \in Invoices /\ req[c].wh \in Warehouses /\ req[c].target \in Nat
      /\ req[c].pc \in Starting /\ dispatch[i] \in DispatchRow
  BY OpenRow DEF SetTarget
<1>2. row \in DispatchRow
  BY <1>1 DEF DispatchRow
<1>3. dispatch' = [dispatch EXCEPT ![i] = row] /\ dispatch'[i] = row
  BY <1>1 DEF SetTarget, IndType, TypeOK
<1>4. row # None
  BY <1>2, NoneAssumption DEF DispatchRow
<1>5. PICK r \in Request : req' = [req EXCEPT ![c] = r] /\ Grounded(c)'
  <2>1. CASE Goto(c, "resuming")
    BY <1>1, <1>3, <1>4, <2>1, GotoTypes
  <2>2. CASE AfterTarget(c)
    BY <1>1, <2>2, AfterTargetTypes
  <2>3. QED
    BY <2>1, <2>2 DEF SetTarget
<1>6. QED
  BY <1>1, <1>2, <1>3, <1>5, DispatchRowKeepsTypes DEF SetTarget

LEMMA ResumeDispatchTypes ==
    ASSUME IndType, NEW c \in Clients, ResumeDispatch(c)
    PROVE  IndType'
<1> DEFINE i == req[c].inv
           row == [dispatch[i] EXCEPT !.status = ResumeStatus(c)]
<1>1. i \in Invoices /\ req[c].pc \in Starting /\ dispatch[i] \in DispatchRow
  BY OpenRow DEF ResumeDispatch
<1>2. row \in DispatchRow
  BY <1>1 DEF DispatchRow, ResumeStatus, DispatchStatuses
<1>3. dispatch' = [dispatch EXCEPT ![i] = row]
  BY <1>1 DEF ResumeDispatch, IndType, TypeOK
<1>4. PICK r \in Request : req' = [req EXCEPT ![c] = r] /\ Grounded(c)'
  BY <1>1, AfterTargetTypes DEF ResumeDispatch
<1>5. QED
  BY <1>1, <1>2, <1>3, <1>4, DispatchRowKeepsTypes DEF ResumeDispatch

LEMMA SeekShortTypes ==
    ASSUME IndType, NEW c \in Clients, SeekShort(c)
    PROVE  IndType'
<1>1. req[c].inv \in Invoices /\ req[c].wh \in Warehouses
  BY DEF IndType, Grounded, SeekShort, Starting
<1>2. CASE Finish(c)
  BY <1>2, FinishTypes DEF SeekShort
<1>3. CASE Goto(c, "raisingShort")
  BY <1>1, <1>3, GotoTypes, RequestKeepsTypes DEF SeekShort
<1>4. QED
  BY <1>2, <1>3 DEF SeekShort

LEMMA RaiseShortTypes ==
    ASSUME IndType, NEW c \in Clients, RaiseShort(c)
    PROVE  IndType'
<1>1. short' \in [Invoices -> Nat]
  <2>1. req[c].inv \in Invoices
    BY DEF IndType, Grounded, RaiseShort, Starting
  <2>2. short \in [Invoices -> Nat] /\ short[req[c].inv] + 1 \in Nat
    BY <2>1 DEF IndType, TypeOK
  <2>3. QED
    BY <2>2 DEF RaiseShort
<1>2. req' = [req EXCEPT ![c] = Idle] /\ Idle \in Request /\ Grounded(c)'
  BY IdleIsGrounded DEF RaiseShort, Finish
<1>3. QED
  BY <1>1, <1>2, StepKeepsTypes DEF IndType, TypeOK, RaiseShort, stock

LEMMA ValidateScanTypes ==
    ASSUME IndType, NEW c \in Clients, NEW i \in Invoices, NEW s \in Serials,
           ValidateScan(c, i, s)
    PROVE  IndType'
<1> DEFINE r == [Idle EXCEPT !.pc = "scanWaiting", !.inv = i, !.ser = s, !.tag = serial[s].tag]
<1>1. r \in Request
  BY DEF IndType, TypeOK, Idle, Request
<1>2. req' = [req EXCEPT ![c] = r] /\ UNCHANGED rows
  BY DEF ValidateScan, Begin
<1>3. Grounded(c)'
  <2>1. req'[c] = r /\ dispatch[i] # None /\ UNCHANGED dispatch
    BY <1>2 DEF IndType, TypeOK, ValidateScan, rows
  <2>2. QED
    BY <2>1 DEF Grounded, Idle, Starting, Scanning, Returning
<1>4. QED
  BY <1>1, <1>2, <1>3, RequestKeepsTypes

\* What a scan in progress carries.
LEMMA ScanInProgress ==
    ASSUME IndType, NEW c \in Clients, req[c].pc \in Scanning
    PROVE  /\ req[c] \in Request
           /\ req[c].inv \in Invoices /\ req[c].ser \in Serials
           /\ dispatch[req[c].inv] \in DispatchRow
BY DEF IndType, TypeOK, Grounded

LEMMA LockForScanTypes ==
    ASSUME IndType, NEW c \in Clients, LockForScan(c)
    PROVE  IndType'
<1> DEFINE i == req[c].inv
           r == [req[c] EXCEPT !.pc = "scanLocked", !.count = CountScans(i),
                               !.target = dispatch[i].target]
<1>1. req[c].pc = "scanWaiting" /\ req[c].pc \in Scanning /\ UNCHANGED rows
  BY DEF LockForScan, Scanning
<1>2. req[c] \in Request /\ i \in Invoices /\ req[c].ser \in Serials /\ dispatch[i] \in DispatchRow
  BY <1>1, ScanInProgress
<1>3. CASE EndTransaction(c)
  BY <1>1, <1>3, FinishTypes DEF EndTransaction
<1>4. CASE req' = [req EXCEPT ![c] = r]
  <2>1. r \in Request
    <3>1. CountScans(i) \in Nat /\ dispatch[i].target \in Nat
      BY <1>2, CountsAreNat DEF IndType, DispatchRow
    <3>2. QED
      BY <1>2, <3>1 DEF Request
  <2>2. req'[c] = r /\ UNCHANGED dispatch
    BY <1>1, <1>4 DEF IndType, TypeOK, rows
  <2>3. r.pc = "scanLocked" /\ r.inv = i /\ r.ser = req[c].ser
    BY <1>2 DEF Request
  <2>4. Grounded(c)'
    BY <1>2, <2>2, <2>3, NoneAssumption DEF Grounded, Starting, Scanning, Returning, DispatchRow
  <2>5. QED
    BY <1>1, <1>4, <2>1, <2>4, RequestKeepsTypes
<1>5. QED
  <2>1. EndTransaction(c) \/ req' = [req EXCEPT ![c].pc = "scanLocked", ![c].count = CountScans(i),
                                         ![c].target = dispatch[i].target]
    BY DEF LockForScan
  <2>2. req' = [req EXCEPT ![c].pc = "scanLocked", ![c].count = CountScans(i),
                           ![c].target = dispatch[i].target]
        => req' = [req EXCEPT ![c] = r]
    BY DEF IndType, TypeOK
  <2>3. QED
    BY <1>3, <1>4, <2>1, <2>2

LEMMA PickLineTypes ==
    ASSUME IndType, NEW c \in Clients, PickLine(c)
    PROVE  IndType'
<1> DEFINE i == req[c].inv
<1>1. req[c].pc = "scanLocked" /\ req[c].pc \in Scanning /\ UNCHANGED rows
  BY DEF PickLine, Scanning
<1>2. req[c] \in Request /\ i \in Invoices /\ req[c].ser \in Serials /\ dispatch[i] \in DispatchRow
  BY <1>1, ScanInProgress
<1>3. CASE EndTransaction(c)
  BY <1>1, <1>3, FinishTypes DEF EndTransaction
<1>4. ASSUME NEW line \in LinesOf(i),
             req' = [req EXCEPT ![c].pc = "scanLined", ![c].line = line]
      PROVE  IndType'
  <2> DEFINE r == [req[c] EXCEPT !.pc = "scanLined", !.line = line]
  <2>1. r \in Request
    BY <1>2 DEF Request, LinesOf
  <2>2. req' = [req EXCEPT ![c] = r] /\ req'[c] = r /\ UNCHANGED dispatch
    BY <1>1, <1>4 DEF IndType, TypeOK, rows
  <2>3. r.pc = "scanLined" /\ r.inv = i /\ r.ser = req[c].ser /\ r.line = line
    BY <1>2 DEF Request
  <2>4. dispatch[i] # None
    BY <1>2, NoneAssumption DEF DispatchRow
  <2>5. Grounded(c)'
    <3> HIDE DEF r
    <3>1. req'[c].line \in LinesOf(req'[c].inv)
      BY <2>2, <2>3
    <3>2. QED
      BY <1>2, <2>2, <2>3, <2>4, <3>1 DEF Grounded, Starting, Scanning, Returning
  <2>6. QED
    BY <1>1, <2>1, <2>2, <2>5, RequestKeepsTypes
<1>5. QED
  BY <1>3, <1>4 DEF PickLine, OpenLines

LEMMA CommitScanTypes ==
    ASSUME IndType, NEW c \in Clients, CommitScan(c)
    PROVE  IndType'
<1> DEFINE i == req[c].inv
           s == req[c].ser
           n == req[c].count + 1
           scan == [ser |-> s, line |-> req[c].line]
<1>1. req[c].pc = "scanLined" /\ req[c].pc \in Scanning
  BY DEF CommitScan, Scanning
<1>2. /\ req[c] \in Request /\ i \in Invoices /\ s \in Serials
      /\ dispatch[i] \in DispatchRow /\ req[c].line \in Lines
  BY <1>1, ScanInProgress DEF IndType, Grounded, LinesOf
<1>3. req' = [req EXCEPT ![c] = Idle] /\ Idle \in Request /\ Grounded(c)'
  BY IdleIsGrounded DEF CommitScan, Finish
<1>4. CASE UNCHANGED <<serial, scans, dispatch, invoiceStatus>>
  <2>1. UNCHANGED rows
    BY <1>4 DEF CommitScan, rows
  <2>2. QED
    BY <1>3, <2>1, RequestKeepsTypes
<1>5. CASE /\ serial' = [serial EXCEPT ![s].status = "DISPATCHED"]
           /\ scans' = scans \cup {scan}
           /\ dispatch' = [dispatch EXCEPT ![i].status =
                  IF n >= req[c].target THEN "DISPATCHED" ELSE "IN_PROGRESS"]
           /\ invoiceStatus' = [invoiceStatus EXCEPT ![i] = InvoiceStatusFor(i, n)]
  <2>1. serial' \in [Serials -> [status: Statuses, wh: Warehouses, tag: ConditionTags \cup {None}]]
    BY <1>5 DEF IndType, TypeOK, Statuses
  <2>2. scans' \subseteq Scan
    BY <1>2, <1>5 DEF IndType, TypeOK, Scan
  <2>3. IsFiniteSet(scans')
    BY <1>5, FS_AddElement DEF IndType
  <2>4. dispatch' \in [Invoices -> DispatchRow \cup {None}] /\ dispatch'[i] \in DispatchRow
    BY <1>2, <1>5 DEF IndType, TypeOK, DispatchRow, DispatchStatuses
  <2>5. \A j \in Invoices : dispatch[j] # None => dispatch'[j] # None
    BY <1>5, <2>4, NoneAssumption DEF IndType, TypeOK, DispatchRow
  <2>6. invoiceStatus' \in [Invoices -> {"PENDING", "PARTIALLY_DISPATCHED", "DISPATCHED"}]
    BY <1>5 DEF IndType, TypeOK, InvoiceStatusFor
  <2>7. QED
    BY <1>3, <2>1, <2>2, <2>3, <2>4, <2>5, <2>6, StepKeepsTypes DEF IndType, TypeOK, CommitScan
<1>6. QED
  BY <1>4, <1>5 DEF CommitScan

LEMMA LockForCompleteTypes ==
    ASSUME IndType, NEW c \in Clients, NEW i \in Invoices, LockForComplete(c, i)
    PROVE  IndType'
<1> DEFINE r == [Idle EXCEPT !.pc = "completing", !.inv = i, !.count = CountScans(i),
                             !.target = dispatch[i].target]
<1>1. CountScans(i) \in Nat /\ dispatch[i] \in DispatchRow /\ dispatch[i].target \in Nat
  BY CountsAreNat DEF IndType, TypeOK, LockForComplete, DispatchRow
<1>2. r \in Request
  BY <1>1 DEF Idle, Request
<1>3. req' = [req EXCEPT ![c] = r] /\ UNCHANGED rows
  BY DEF LockForComplete, Begin
<1>4. req'[c] = r /\ dispatch[i] # None /\ UNCHANGED dispatch
  BY <1>3 DEF IndType, TypeOK, LockForComplete, rows
<1>5. Grounded(c)'
  BY <1>4 DEF Grounded, Idle, Starting, Scanning, Returning
<1>6. QED
  BY <1>2, <1>3, <1>5, RequestKeepsTypes

LEMMA CompleteDispatchTypes ==
    ASSUME IndType, NEW c \in Clients, CompleteDispatch(c)
    PROVE  IndType'
<1> DEFINE i == req[c].inv
           row == [dispatch[i] EXCEPT !.status = CompletionStatus(req[c].target, req[c].count)]
<1>1. i \in Invoices /\ dispatch[i] \in DispatchRow
  BY DEF IndType, TypeOK, Grounded, CompleteDispatch
<1>2. row \in DispatchRow
  BY <1>1 DEF DispatchRow, DispatchStatuses, CompletionStatus
<1>3. dispatch' = [dispatch EXCEPT ![i] = row]
  BY <1>1 DEF CompleteDispatch, IndType, TypeOK
<1>4. dispatch' \in [Invoices -> DispatchRow \cup {None}]
  BY <1>2, <1>3 DEF IndType, TypeOK
<1>5. \A j \in Invoices : dispatch[j] # None => dispatch'[j] # None
  BY <1>2, <1>3, NoneAssumption DEF IndType, TypeOK, DispatchRow
<1>6. invoiceStatus' \in [Invoices -> {"PENDING", "PARTIALLY_DISPATCHED", "DISPATCHED"}]
  BY DEF CompleteDispatch, IndType, TypeOK, InvoiceStatusFor
<1>7. req' = [req EXCEPT ![c] = Idle] /\ Idle \in Request /\ Grounded(c)'
  BY IdleIsGrounded DEF CompleteDispatch, Finish
<1>8. QED
  BY <1>4, <1>5, <1>6, <1>7, StepKeepsTypes DEF IndType, TypeOK, CompleteDispatch, stock

LEMMA CreateSrnTypes ==
    ASSUME IndType, NEW c \in Clients, NEW k \in Srns, NEW w \in Warehouses,
           NEW i \in Invoices \cup {None}, NEW q \in Quantities \cup {None},
           NEW foreign \in ForeignAnswers, CreateSrn(c, k, w, i, q, foreign)
    PROVE  IndType'
<1> DEFINE row == [wh |-> w, inv |-> i, qty |-> q, foreign |-> foreign]
<1>1. row \in SrnRow
  <2>1. foreign \in BOOLEAN /\ q \in Nat \cup {None}
    BY InputAssumption
  <2>2. QED
    BY <2>1 DEF SrnRow
<1>2. row # None
  BY <1>1, NoneAssumption DEF SrnRow
<1>3. srn' = [srn EXCEPT ![k] = row]
  BY DEF CreateSrn
<1> HIDE DEF row
<1>4. srn' \in [Srns -> SrnRow \cup {None}] /\ \A j \in Srns : srn[j] # None => srn'[j] # None
  BY <1>1, <1>2, <1>3 DEF IndType, TypeOK
<1>5. /\ req[c] \in Request /\ req' = [req EXCEPT ![c] = req[c]]
      /\ req[c].pc = "idle" /\ req'[c] = req[c]
  BY DEF IndType, TypeOK, CreateSrn, InFlight
<1>6. Grounded(c)'
  BY <1>5 DEF Grounded, Starting, Scanning, Returning
<1>7. QED
  BY <1>4, <1>5, <1>6, StepKeepsTypes DEF IndType, TypeOK, CreateSrn, stock

LEMMA LockForReturnTypes ==
    ASSUME IndType, NEW c \in Clients, NEW k \in Srns, NEW s \in Serials, NEW t \in Tags,
           LockForReturn(c, k, s, t)
    PROVE  IndType'
<1>1. PICK orig \in Lines \cup {None} :
        Begin(c, [Idle EXCEPT !.pc = "returnLocked", !.srn = k, !.ser = s, !.tag = t,
                              !.line = orig])
  BY DEF LockForReturn
<1> DEFINE r == [Idle EXCEPT !.pc = "returnLocked", !.srn = k, !.ser = s, !.tag = t,
                             !.line = orig]
<1>2. t \in ConditionTags
  BY InputAssumption
<1>3. r \in Request
  BY <1>2 DEF Idle, Request
<1>4. req' = [req EXCEPT ![c] = r] /\ UNCHANGED rows
  BY <1>1 DEF LockForReturn, Begin
<1>5. req'[c] = r /\ srn[k] # None /\ UNCHANGED srn
  BY <1>4 DEF IndType, TypeOK, LockForReturn, rows
<1>6. r.pc = "returnLocked" /\ r.srn = k /\ r.ser = s /\ r.tag = t
  BY DEF Idle
<1>7. Grounded(c)'
  BY <1>2, <1>5, <1>6 DEF Grounded, Starting, Scanning, Returning
<1>8. QED
  BY <1>3, <1>4, <1>7, RequestKeepsTypes

\* What a return in progress carries.
LEMMA ReturnInProgress ==
    ASSUME IndType, NEW c \in Clients, req[c].pc \in Returning
    PROVE  /\ req[c] \in Request
           /\ req[c].srn \in Srns /\ req[c].ser \in Serials /\ req[c].tag \in ConditionTags
           /\ srn[req[c].srn] \in SrnRow
           /\ req[c].line \in Lines \cup {None}
BY DEF IndType, TypeOK, Grounded, Request

LEMMA InsertReturnTypes ==
    ASSUME IndType, NEW c \in Clients, InsertReturn(c)
    PROVE  IndType'
<1> DEFINE n == IF req[c].line = None THEN 0 ELSE Recount(req[c].ser, req[c].line)
           r == [req[c] EXCEPT !.pc = "returnInserted", !.count = n]
<1>1. req[c].pc = "returnLocked" /\ req[c].pc \in Returning /\ UNCHANGED rows
  BY DEF InsertReturn, Returning
<1>2. /\ req[c] \in Request /\ req[c].srn \in Srns /\ req[c].ser \in Serials
      /\ req[c].tag \in ConditionTags /\ srn[req[c].srn] \in SrnRow
  BY <1>1, ReturnInProgress
<1>3. CASE EndTransaction(c)
  BY <1>1, <1>3, FinishTypes DEF EndTransaction
<1>4. CASE req' = [req EXCEPT ![c] = r]
  <2>1. n \in Nat
    BY FS_Subset, FS_CardinalityType DEF IndType, Recount, ScansOf
  <2>2. r \in Request
    BY <1>2, <2>1 DEF Request
  <2>3. req'[c] = r /\ UNCHANGED srn
    BY <1>1, <1>4 DEF IndType, TypeOK, rows
  <2>4. r.pc = "returnInserted" /\ r.srn = req[c].srn /\ r.ser = req[c].ser /\ r.tag = req[c].tag
    BY <1>2 DEF Request
  <2>5. srn[req[c].srn] # None
    BY <1>2, NoneAssumption DEF SrnRow
  <2>6. Grounded(c)'
    BY <1>2, <2>3, <2>4, <2>5 DEF Grounded, Starting, Scanning, Returning
  <2>7. QED
    BY <1>1, <1>4, <2>2, <2>6, RequestKeepsTypes
<1>5. QED
  <2>1. \/ EndTransaction(c)
        \/ req' = [req EXCEPT ![c].pc = "returnInserted", ![c].count = n]
    BY DEF InsertReturn
  <2>2. req' = [req EXCEPT ![c].pc = "returnInserted", ![c].count = n]
        => req' = [req EXCEPT ![c] = r]
    BY DEF IndType, TypeOK
  <2>3. QED
    BY <1>3, <1>4, <2>1, <2>2

LEMMA CommitReturnTypes ==
    ASSUME IndType, NEW c \in Clients, CommitReturn(c)
    PROVE  IndType'
<1> DEFINE k == req[c].srn
           s == req[c].ser
           line == req[c].line
           back == ScanMarked(s, line)
           row == [status |-> "IN_STOCK", wh |-> srn[k].wh, tag |-> req[c].tag]
<1>1. req[c].pc \in Returning
  BY DEF CommitReturn, Returning
<1>2. /\ req[c] \in Request /\ k \in Srns /\ s \in Serials /\ req[c].tag \in ConditionTags
      /\ srn[k] \in SrnRow /\ line \in Lines \cup {None}
  BY <1>1, ReturnInProgress
<1>3. serial' \in [Serials -> [status: Statuses, wh: Warehouses, tag: ConditionTags \cup {None}]]
  <2>1. row \in [status: Statuses, wh: Warehouses, tag: ConditionTags \cup {None}]
    BY <1>2 DEF SrnRow, Statuses
  <2>2. QED
    BY <2>1 DEF CommitReturn, IndType, TypeOK
<1>4. srnScans' \subseteq SrnScan
  BY <1>2 DEF CommitReturn, IndType, TypeOK, SrnScan
<1>5. scans' \subseteq Scan /\ returned' \subseteq Scan
  BY DEF CommitReturn, ScanMarked, IndType, TypeOK
<1>6. IsFiniteSet(scans')
  BY FS_Subset DEF CommitReturn, IndType
<1>7. invoiceStatus' \in [Invoices -> {"PENDING", "PARTIALLY_DISPATCHED", "DISPATCHED"}]
  BY DEF CommitReturn, Reopened, InvoiceStatusFor, IndType, TypeOK
<1>8. req' = [req EXCEPT ![c] = Idle] /\ Idle \in Request /\ Grounded(c)'
  BY IdleIsGrounded DEF CommitReturn, Finish
<1>9. QED
  BY <1>3, <1>4, <1>5, <1>6, <1>7, <1>8, StepKeepsTypes DEF CommitReturn, IndType, TypeOK

\* A step that leaves the requests alone.
LEMMA InstantRequest ==
    ASSUME IndType, NEW c \in Clients, ~InFlight(c), UNCHANGED req
    PROVE  req[c] \in Request /\ req' = [req EXCEPT ![c] = req[c]] /\ Grounded(c)'
<1>1. req[c] \in Request /\ req' = [req EXCEPT ![c] = req[c]] /\ req[c].pc = "idle" /\ req'[c] = req[c]
  BY DEF IndType, TypeOK, InFlight
<1>2. QED
  BY <1>1 DEF Grounded, Starting, Scanning, Returning

LEMMA CorrectTagTypes ==
    ASSUME IndType, NEW c \in Clients, NEW s \in Serials, NEW t \in Corrections, CorrectTag(c, s, t)
    PROVE  IndType'
<1>1. serial' \in [Serials -> [status: Statuses, wh: Warehouses, tag: ConditionTags \cup {None}]]
  <2>1. t \in ConditionTags
    BY InputAssumption
  <2>2. QED
    BY <2>1 DEF CorrectTag, IndType, TypeOK
<1>2. QED
  BY <1>1, InstantRequest, StepKeepsTypes DEF CorrectTag, IndType, TypeOK

LEMMA CheckPreBillingTypes ==
    ASSUME IndType, NEW c \in Clients, NEW i \in Invoices, NEW s \in Serials,
           CheckPreBilling(c, i, s)
    PROVE  IndType'
<1>1. PICK line \in Lines : Begin(c, [Idle EXCEPT !.pc = "prebilling", !.ser = s, !.line = line])
  BY DEF CheckPreBilling, LinesOf
<1> DEFINE r == [Idle EXCEPT !.pc = "prebilling", !.ser = s, !.line = line]
<1>2. r \in Request /\ r.pc = "prebilling" /\ r.ser = s /\ r.line = line
  BY DEF Idle, Request
<1>3. req' = [req EXCEPT ![c] = r] /\ UNCHANGED rows
  BY <1>1 DEF CheckPreBilling, Begin
<1>4. req'[c] = r
  BY <1>3 DEF IndType, TypeOK
<1>5. Grounded(c)'
  BY <1>2, <1>4 DEF Grounded, Starting, Scanning, Returning
<1>6. QED
  BY <1>2, <1>3, <1>5, RequestKeepsTypes

LEMMA CommitPreBillingTypes ==
    ASSUME IndType, NEW c \in Clients, CommitPreBilling(c)
    PROVE  IndType'
<1>1. req[c].ser \in Serials /\ req[c].line \in Lines
  BY DEF IndType, Grounded, CommitPreBilling
<1>2. prebilled' \subseteq Scan
  BY <1>1 DEF CommitPreBilling, IndType, TypeOK, Scan
<1>3. req' = [req EXCEPT ![c] = Idle] /\ Idle \in Request /\ Grounded(c)'
  BY IdleIsGrounded DEF CommitPreBilling, Finish
<1>4. QED
  BY <1>2, <1>3, StepKeepsTypes DEF CommitPreBilling, IndType, TypeOK, stock

LEMMA CheckWarehouseEmptyTypes ==
    ASSUME IndType, NEW c \in Clients, NEW w \in Warehouses, CheckWarehouseEmpty(c, w)
    PROVE  IndType'
<1> DEFINE r == [Idle EXCEPT !.pc = "deactivating", !.wh = w]
<1>1. r \in Request /\ r.pc = "deactivating" /\ r.wh = w
  BY DEF Idle, Request
<1>2. req' = [req EXCEPT ![c] = r] /\ UNCHANGED rows
  BY DEF CheckWarehouseEmpty, Begin
<1>3. req'[c] = r
  BY <1>2 DEF IndType, TypeOK
<1>4. Grounded(c)'
  BY <1>1, <1>3 DEF Grounded, Starting, Scanning, Returning
<1>5. QED
  BY <1>1, <1>2, <1>4, RequestKeepsTypes

LEMMA DeactivateWarehouseTypes ==
    ASSUME IndType, NEW c \in Clients, DeactivateWarehouse(c)
    PROVE  IndType'
<1>1. req' = [req EXCEPT ![c] = Idle] /\ Idle \in Request /\ Grounded(c)'
  BY IdleIsGrounded DEF DeactivateWarehouse, Finish
<1>2. activeWh' \subseteq Warehouses
  BY DEF DeactivateWarehouse, IndType, TypeOK
<1>3. QED
  BY <1>1, <1>2, StepKeepsTypes DEF DeactivateWarehouse, IndType, TypeOK, stock

LEMMA ReactivateWarehouseTypes ==
    ASSUME IndType, NEW c \in Clients, NEW w \in Warehouses, ReactivateWarehouse(c, w)
    PROVE  IndType'
<1>1. activeWh' \subseteq Warehouses
  BY DEF ReactivateWarehouse, IndType, TypeOK
<1>2. QED
  BY <1>1, InstantRequest, StepKeepsTypes DEF ReactivateWarehouse, IndType, TypeOK, stock

LEMMA TypeStep == IndType /\ [Next]_vars => IndType'
<1> SUFFICES ASSUME IndType, [Next]_vars PROVE IndType'
  OBVIOUS
<1>1. CASE UNCHANGED vars
  BY <1>1 DEF vars, IndType, TypeOK, Grounded, LinesOf
<1>2. ASSUME NEW c \in Clients, Arrive(c) PROVE IndType'
  <2>1. Closable \subseteq Warehouses
    BY InputAssumption
  <2>2. QED
    BY <1>2, <2>1, StartDispatchTypes, ValidateScanTypes, CheckPreBillingTypes,
       LockForCompleteTypes, CreateSrnTypes, LockForReturnTypes, CorrectTagTypes,
       CheckWarehouseEmptyTypes, ReactivateWarehouseTypes DEF Arrive
<1>3. ASSUME NEW c \in Clients, Proceed(c) PROVE IndType'
  BY <1>3, FindDispatchTypes, CountForStartTypes, CountStockTypes, CreateDispatchTypes, RepointDispatchTypes, SetTargetTypes, ResumeDispatchTypes,
     SeekShortTypes, RaiseShortTypes, LockForScanTypes, PickLineTypes, CommitScanTypes,
     CompleteDispatchTypes, InsertReturnTypes, CommitReturnTypes, CommitPreBillingTypes,
     DeactivateWarehouseTypes DEF Proceed
<1>4. ASSUME NEW c \in Clients, Crash(c) PROVE IndType'
  BY <1>4, FinishTypes DEF Crash
<1>5. QED
  BY <1>1, <1>2, <1>3, <1>4 DEF Next

\* Rows and requests keep the shapes the schema and the handlers give them, whatever
\* requests run at once and wherever they die.
THEOREM TypesHold == Spec => []TypeOK
<1>1. IndType => TypeOK
  BY DEF IndType
<1>2. QED
  BY <1>1, TypeInit, TypeStep, PTL DEF Spec

-----------------------------------------------------------------------------
(* Where the units are.  A unit is out on one scan because the            *)
(* compare-and-set lets one dispatch win it and because a return puts the  *)
(* unit in stock in the commit that soft-returns that very scan: the scan  *)
(* was read before the insert, and it is still the one (ReturnsGrounded).  *)

IndStock ==
    /\ IndType
    /\ SoldOnce
    /\ ReturnsMatched
    /\ ReturnsGrounded

LEMMA StockInit == Init => IndStock
<1>1. Init => SoldOnce
  BY StockAssumption DEF Init, SoldOnce, Statuses
<1>2. Init => ReturnsMatched
  BY DEF Init, ReturnsMatched
<1>3. Init => ReturnsGrounded
  BY DEF Init, ReturnsGrounded, Idle, Returning
<1>4. QED
  BY <1>1, <1>2, <1>3, TypeInit DEF IndStock

\* Steps that neither sell nor take back, and start no return.
LEMMA OtherStepKeepsStock ==
    ASSUME IndStock, IndType', NEW c \in Clients,
           \A s \in Serials : serial'[s].status = serial[s].status,
           UNCHANGED <<scans, returned, srnScans>>,
           \A k \in Srns : srn[k] # None => srn'[k] = srn[k],
           \A e \in Clients \ {c} : req'[e] = req[e],
           req'[c].pc \notin Returning
    PROVE  IndStock'
<1>1. ReturnedSerials' = ReturnedSerials /\ Adopted' = Adopted
  BY DEF ReturnedSerials, Adopted
<1>2. SoldOnce'
  BY <1>1 DEF IndStock, SoldOnce
<1>3. ASSUME NEW e \in Clients, req'[e].pc \in Returning PROVE ReturnGrounded(e)'
  <2>1. e # c /\ req'[e] = req[e] /\ req[e].pc \in Returning
    BY <1>3
  <2>2. ReturnGrounded(e) /\ srn'[req[e].srn] = srn[req[e].srn]
    BY <2>1, ReturnInProgress, NoneAssumption DEF IndStock, ReturnsGrounded, SrnRow
  <2>3. \A f \in Clients : req'[f].pc = "returnInserted" => req'[f] = req[f]
    BY DEF Returning
  <2>4. QED
    BY <1>1, <2>1, <2>2, <2>3 DEF ReturnGrounded
<1>4. ReturnsMatched'
  <2>1. \A x \in srnScans : x.orig # None => srn'[x.srn] = srn[x.srn]
    BY DEF IndStock, IndType, TypeOK, SrnScan, ReturnsMatched
  <2>2. QED
    BY <2>1 DEF IndStock, ReturnsMatched
<1>5. QED
  BY <1>2, <1>3, <1>4 DEF IndStock, ReturnsGrounded

LEMMA CommitScanStock ==
    ASSUME IndStock, IndType', NEW c \in Clients, CommitScan(c)
    PROVE  IndStock'
<1> DEFINE i == req[c].inv
           s == req[c].ser
           scan == [ser |-> s, line |-> req[c].line]
<1>1. /\ UNCHANGED <<returned, srn, srnScans>>
      /\ \A e \in Clients \ {c} : req'[e] = req[e]
      /\ req'[c].pc \notin Returning
  BY DEF CommitScan, Finish, IndStock, IndType, TypeOK, Idle, Returning
<1>2. CASE UNCHANGED <<serial, scans>>
  BY <1>1, <1>2, OtherStepKeepsStock
<1>3. CASE /\ StillInStock(s)
           /\ serial' = [serial EXCEPT ![s].status = "DISPATCHED"]
           /\ scans' = scans \cup {scan}
  <2>1. ReturnedSerials' = ReturnedSerials /\ Adopted' = Adopted
    BY <1>1 DEF ReturnedSerials, Adopted
  <2>2. SoldOnce'
    <3>1. SUFFICES ASSUME NEW u \in Serials \ Adopted
          PROVE  /\ serial'[u].status = "DISPATCHED" <=> \E d \in scans' : d.ser = u
                 /\ \A d, e \in scans' : d.ser = u /\ e.ser = u => d = e
      BY <2>1 DEF SoldOnce
    <3>2. CASE u = s
      <4>1. serial[s].status # "DISPATCHED" /\ ~\E d \in scans : d.ser = s
        BY <1>3, <3>2 DEF StillInStock, IndStock, SoldOnce
      <4>2. serial'[u].status = "DISPATCHED" /\ scan \in scans' /\ scan.ser = u
        BY <1>3, <3>2 DEF IndStock, IndType, TypeOK
      <4>3. \A d \in scans' : d.ser = u => d = scan
        BY <1>3, <3>2, <4>1
      <4>4. QED
        BY <4>2, <4>3
    <3>3. CASE u # s
      <4>1. serial'[u].status = serial[u].status
        BY <1>3, <3>3 DEF IndStock, IndType, TypeOK
      <4>2. \A d : d.ser = u => (d \in scans' <=> d \in scans)
        BY <1>3, <3>3
      <4>3. QED
        BY <4>1, <4>2 DEF IndStock, SoldOnce
    <3>4. QED
      BY <3>2, <3>3
  <2>3. ReturnsMatched'
    BY <1>1 DEF IndStock, ReturnsMatched
  <2>4. ASSUME NEW e \in Clients, req'[e].pc \in Returning PROVE ReturnGrounded(e)'
    <3>1. e # c /\ req'[e] = req[e] /\ ReturnGrounded(e)
      BY <1>1, <2>4 DEF IndStock, ReturnsGrounded
    <3>2. \A f \in Clients : req'[f].pc = "returnInserted" => req'[f] = req[f]
      BY <1>1 DEF Returning
    <3>3. QED
      BY <1>1, <1>3, <2>1, <3>1, <3>2 DEF ReturnGrounded
  <2>5. QED
    BY <2>2, <2>3, <2>4 DEF IndStock, ReturnsGrounded
<1>4. QED
  BY <1>2, <1>3 DEF CommitScan

LEMMA LockForReturnStock ==
    ASSUME IndStock, IndType', NEW c \in Clients, NEW k \in Srns, NEW s \in Serials,
           NEW t \in Tags, LockForReturn(c, k, s, t)
    PROVE  IndStock'
<1>1. PICK orig \in Lines \cup {None} :
        /\ \/ \E d \in OriginalScans(s) : Reconciles(k, d) /\ orig = d.line
           \/ /\ \A d \in OriginalScans(s) : ~Reconciles(k, d)
              /\ srn[k].foreign
              /\ orig = None
        /\ Begin(c, [Idle EXCEPT !.pc = "returnLocked", !.srn = k, !.ser = s, !.tag = t,
                                 !.line = orig])
  BY DEF LockForReturn
<1> DEFINE r == [Idle EXCEPT !.pc = "returnLocked", !.srn = k, !.ser = s, !.tag = t,
                             !.line = orig]
<1>2. r.pc = "returnLocked" /\ r.srn = k /\ r.ser = s /\ r.line = orig
  BY DEF Idle
<1>3. /\ req'[c] = r /\ UNCHANGED rows
      /\ \A e \in Clients \ {c} : req'[e] = req[e]
  BY <1>1 DEF LockForReturn, Begin, IndStock, IndType, TypeOK
<1> HIDE DEF r
<1>4. UNCHANGED <<serial, scans, returned, srn, srnScans>>
  BY <1>3 DEF rows
<1>5. SoldOnce' /\ ReturnsMatched' /\ ReturnedSerials' = ReturnedSerials
  BY <1>4 DEF IndStock, SoldOnce, ReturnsMatched, Adopted, ReturnedSerials
<1>6. ASSUME NEW e \in Clients, req'[e].pc \in Returning PROVE ReturnGrounded(e)'
  <2>1. CASE e = c
    <3>1. orig # None => srn[k].inv \in {None, orig.inv} /\ [ser |-> s, line |-> orig] \in scans
      <4>1. SUFFICES ASSUME orig # None
                     PROVE  srn[k].inv \in {None, orig.inv} /\ [ser |-> s, line |-> orig] \in scans
        OBVIOUS
      <4>2. PICK d \in OriginalScans(s) : Reconciles(k, d) /\ orig = d.line
        BY <1>1, <4>1
      <4>3. d \in scans
        <5>1. s \notin ReturnedSerials
          BY DEF LockForReturn
        <5>2. \A b \in returned : b.ser \in ReturnedSerials
          BY DEF IndStock, ReturnsMatched, ReturnedSerials
        <5>3. d \in scans \cup returned /\ d.ser = s
          BY <4>2 DEF OriginalScans
        <5>4. QED
          BY <5>1, <5>2, <5>3
      <4>4. d = [ser |-> s, line |-> orig]
        BY <4>2, <4>3 DEF OriginalScans, IndStock, IndType, TypeOK, Scan
      <4>5. QED
        BY <4>2, <4>3, <4>4 DEF Reconciles
    <3>2. QED
      BY <1>2, <1>3, <1>4, <2>1, <3>1 DEF ReturnGrounded
  <2>2. CASE e # c
    <3>1. req'[e] = req[e] /\ ReturnGrounded(e)
      BY <1>3, <1>6, <2>2 DEF IndStock, ReturnsGrounded
    <3>2. \A f \in Clients : req'[f].pc = "returnInserted" => req'[f] = req[f]
      BY <1>2, <1>3
    <3>3. QED
      BY <1>4, <1>5, <3>1, <3>2 DEF ReturnGrounded
  <2>3. QED
    BY <2>1, <2>2
<1>7. QED
  BY <1>5, <1>6 DEF IndStock, ReturnsGrounded

LEMMA InsertReturnStock ==
    ASSUME IndStock, IndType', NEW c \in Clients, InsertReturn(c)
    PROVE  IndStock'
<1>1. UNCHANGED <<serial, scans, returned, srn, srnScans>>
  BY DEF InsertReturn, rows
<1>2. CASE EndTransaction(c)
  <2>1. req'[c].pc \notin Returning /\ \A e \in Clients \ {c} : req'[e] = req[e]
    BY <1>2 DEF EndTransaction, Finish, Idle, Returning, IndStock, IndType, TypeOK
  <2>2. QED
    BY <1>1, <2>1, OtherStepKeepsStock
<1>3. CASE ~Duplicate(req[c].ser) /\ ~EndTransaction(c)
  <2>1. /\ req[c].pc = "returnLocked"
        /\ req'[c].pc = "returnInserted" /\ req'[c].ser = req[c].ser
        /\ req'[c].line = req[c].line /\ req'[c].srn = req[c].srn
        /\ \A e \in Clients \ {c} : req'[e] = req[e]
    BY <1>3 DEF InsertReturn, IndStock, IndType, TypeOK, Request
  <2>2. req[c].ser \notin ReturnedSerials
    BY <1>3 DEF Duplicate
  <2>3. \A e \in Clients : req[e].pc = "returnInserted" => req[e].ser # req[c].ser
    BY DEF InsertReturn, SerialLocked
  <2>4. SoldOnce' /\ ReturnsMatched' /\ ReturnedSerials' = ReturnedSerials
    BY <1>1 DEF IndStock, SoldOnce, ReturnsMatched, Adopted, ReturnedSerials
  <2>5. ASSUME NEW e \in Clients, req'[e].pc \in Returning PROVE ReturnGrounded(e)'
    <3>1. ReturnGrounded(e)
      BY <2>1, <2>5 DEF IndStock, ReturnsGrounded, Returning
    <3>2. CASE e = c
      BY <1>1, <2>1, <2>2, <2>3, <2>4, <3>1, <3>2 DEF ReturnGrounded
    <3>3. CASE e # c
      BY <1>1, <2>1, <2>3, <2>4, <3>1, <3>3 DEF ReturnGrounded
    <3>4. QED
      BY <3>2, <3>3
  <2>6. QED
    BY <2>4, <2>5 DEF IndStock, ReturnsGrounded
<1>4. QED
  BY <1>2, <1>3 DEF InsertReturn

\* Past its insert a return takes back the unit's one scan, or adopts a foreign unit.
LEMMA CommitReturnStock ==
    ASSUME IndStock, IndType', NEW c \in Clients, CommitReturn(c)
    PROVE  IndStock'
<1> DEFINE k == req[c].srn
           s == req[c].ser
           line == req[c].line
           scan == [ser |-> s, line |-> line]
           entry == [srn |-> k, ser |-> s, orig |-> line]
<1>1. /\ req[c].pc = "returnInserted" /\ req[c].pc \in Returning
      /\ \A e \in Clients \ {c} : req'[e] = req[e]
      /\ req'[c].pc \notin Returning
      /\ UNCHANGED srn
  BY DEF CommitReturn, Finish, Idle, Returning, IndStock, IndType, TypeOK
<1>2. s \in Serials /\ srn[k] # None /\ s \notin ReturnedSerials
  BY <1>1, ReturnInProgress, NoneAssumption DEF IndStock, ReturnsGrounded, ReturnGrounded, SrnRow
<1>3. line # None => scan \in scans /\ srn[k].inv \in {None, line.inv}
  BY <1>1, <1>2 DEF IndStock, ReturnsGrounded, ReturnGrounded
<1>4. /\ srnScans' = srnScans \cup {entry}
      /\ scans' = scans \ ScanMarked(s, line)
      /\ returned' = returned \cup ScanMarked(s, line)
  BY DEF CommitReturn
<1>5. entry.srn = k /\ entry.ser = s /\ entry.orig = line
  OBVIOUS
<1> HIDE DEF entry
<1>6. ReturnedSerials' = ReturnedSerials \cup {s} /\ Adopted \subseteq Adopted'
  <2>1. ReturnedSerials' = {x.ser : x \in srnScans \cup {entry}}
    BY <1>4 DEF ReturnedSerials
  <2>2. {x.ser : x \in srnScans \cup {entry}} = {x.ser : x \in srnScans} \cup {s}
    BY <1>5
  <2>3. Adopted' = {x.ser : x \in {y \in srnScans \cup {entry} : y.orig = None}}
    BY <1>4 DEF Adopted
  <2>4. Adopted \subseteq Adopted'
    BY <2>3 DEF Adopted
  <2>5. QED
    BY <2>1, <2>2, <2>4 DEF ReturnedSerials
<1>7. line = None => s \in Adopted'
  <2>1. SUFFICES ASSUME line = None PROVE s \in Adopted'
    OBVIOUS
  <2>2. entry \in {y \in srnScans' : y.orig = None}
    BY <1>4, <1>5, <2>1
  <2>3. QED
    BY <1>5, <2>2 DEF Adopted
<1>8. SoldOnce'
  <2>1. SUFFICES ASSUME NEW u \in Serials, u \notin Adopted'
        PROVE  /\ serial'[u].status = "DISPATCHED" <=> \E d \in scans' : d.ser = u
               /\ \A d, e \in scans' : d.ser = u /\ e.ser = u => d = e
    BY DEF SoldOnce
  <2>2. u \in Serials \ Adopted
    BY <1>6, <2>1
  <2>3. CASE u = s
    <3>1. line # None /\ scan \in scans
      BY <1>3, <1>7, <2>1, <2>3
    <3>2. \A d \in scans : d.ser = s => d = scan
      BY <2>2, <2>3, <3>1 DEF IndStock, SoldOnce
    <3>3. ~\E d \in scans' : d.ser = s
      BY <1>4, <3>2 DEF ScanMarked
    <3>4. serial'[s].status = "IN_STOCK"
      BY <1>2 DEF CommitReturn, IndStock, IndType, TypeOK
    <3>5. QED
      BY <2>3, <3>3, <3>4
  <2>4. CASE u # s
    <3>1. serial'[u].status = serial[u].status
      BY <2>4 DEF CommitReturn, IndStock, IndType, TypeOK
    <3>2. \A d : d.ser = u => (d \in scans' <=> d \in scans)
      BY <1>4, <2>4 DEF ScanMarked
    <3>3. QED
      BY <2>2, <3>1, <3>2 DEF IndStock, SoldOnce
  <2>5. QED
    BY <2>3, <2>4
<1>9. ReturnsMatched'
  <2>1. line # None => scan \in returned'
    BY <1>3, <1>4 DEF ScanMarked
  <2>2. \A x \in srnScans' : x.orig # None =>
          /\ [ser |-> x.ser, line |-> x.orig] \in returned'
          /\ srn'[x.srn] # None
          /\ srn'[x.srn].inv \in {None, x.orig.inv}
    <3>1. SUFFICES ASSUME NEW x \in srnScans', x.orig # None
          PROVE  /\ [ser |-> x.ser, line |-> x.orig] \in returned'
                 /\ srn'[x.srn] # None
                 /\ srn'[x.srn].inv \in {None, x.orig.inv}
      OBVIOUS
    <3>2. CASE x = entry
      BY <1>1, <1>2, <1>3, <1>5, <2>1, <3>1, <3>2
    <3>3. CASE x \in srnScans
      BY <1>1, <1>4, <3>1, <3>3 DEF IndStock, ReturnsMatched
    <3>4. QED
      BY <1>4, <3>1, <3>2, <3>3
  <2>3. \A d \in returned' : \E x \in srnScans' : x.ser = d.ser /\ x.orig = d.line
    <3>1. ASSUME NEW d \in ScanMarked(s, line)
          PROVE  entry \in srnScans' /\ entry.ser = d.ser /\ entry.orig = d.line
      BY <1>4, <1>5 DEF ScanMarked
    <3>2. ASSUME NEW d \in returned PROVE \E x \in srnScans' : x.ser = d.ser /\ x.orig = d.line
      BY <1>4 DEF IndStock, ReturnsMatched
    <3>3. QED
      BY <1>4, <3>1, <3>2
  <2>4. QED
    BY <2>2, <2>3 DEF ReturnsMatched
<1>10. ASSUME NEW e \in Clients, req'[e].pc \in Returning PROVE ReturnGrounded(e)'
  <2>1. e # c /\ req'[e] = req[e] /\ ReturnGrounded(e)
    BY <1>1, <1>10 DEF IndStock, ReturnsGrounded
  <2>2. \A f \in Clients : req'[f].pc = "returnInserted" => req'[f] = req[f]
    BY <1>1 DEF Returning
  <2>3. req[e].pc = "returnInserted" => req[e].ser # s
    BY <1>1, <2>1 DEF IndStock, ReturnsGrounded, ReturnGrounded
  <2>4. req[e].line # None /\ req[e].ser \notin ReturnedSerials'
        => [ser |-> req[e].ser, line |-> req[e].line] \in scans'
    BY <1>4, <1>6, <2>1 DEF ReturnGrounded, ScanMarked
  <2>5. QED
    BY <1>1, <1>6, <2>1, <2>2, <2>3, <2>4 DEF ReturnGrounded
<1>11. QED
  BY <1>8, <1>9, <1>10 DEF IndStock, ReturnsGrounded

\* The remaining steps of a request write no scan, no return and no status of a serial.
LEMMA ProceedKeepsStock ==
    ASSUME IndStock, IndType', NEW c \in Clients, Proceed(c),
           ~CommitScan(c), ~InsertReturn(c), ~CommitReturn(c)
    PROVE  IndStock'
<1>1. UNCHANGED <<serial, scans, returned, srn, srnScans>>
  BY DEF Proceed, FindDispatch, CountForStart, CountStock, CreateDispatch, RepointDispatch, SetTarget, ResumeDispatch, SeekShort,
     RaiseShort, LockForScan, PickLine, CompleteDispatch, CommitPreBilling,
     DeactivateWarehouse, stock, rows
<1>2. \E r : r.pc \notin Returning /\ req' = [req EXCEPT ![c] = r]
  <2>1. CASE Finish(c)
    BY <2>1 DEF Finish, Idle, Returning
  <2>2. ASSUME NEW pc \in {"targeting", "resuming", "seekingShort", "raisingShort"}, Goto(c, pc)
        PROVE  \E r : r.pc \notin Returning /\ req' = [req EXCEPT ![c] = r]
    <3>1. req' = [req EXCEPT ![c] = [req[c] EXCEPT !.pc = pc]]
      BY <2>2 DEF Goto
    <3>2. [req[c] EXCEPT !.pc = pc].pc \notin Returning
      BY DEF Returning, IndStock, IndType, TypeOK, Request
    <3>3. QED
      BY <3>1, <3>2
  <2>3. CASE LockForScan(c) /\ ~Finish(c)
    <3>1. req' = [req EXCEPT ![c] = [req[c] EXCEPT !.pc = "scanLocked",
                     !.count = CountScans(req[c].inv), !.target = dispatch[req[c].inv].target]]
      BY <2>3 DEF LockForScan, EndTransaction
    <3>2. [req[c] EXCEPT !.pc = "scanLocked", !.count = CountScans(req[c].inv),
                         !.target = dispatch[req[c].inv].target].pc \notin Returning
      BY DEF Returning, IndStock, IndType, TypeOK, Request
    <3>3. QED
      BY <3>1, <3>2
  <2>4. CASE PickLine(c) /\ ~Finish(c)
    <3>1. PICK line : req' = [req EXCEPT ![c] = [req[c] EXCEPT !.pc = "scanLined", !.line = line]]
      BY <2>4 DEF PickLine, EndTransaction
    <3>2. [req[c] EXCEPT !.pc = "scanLined", !.line = line].pc \notin Returning
      BY DEF Returning, IndStock, IndType, TypeOK, Request
    <3>3. QED
      BY <3>1, <3>2
  <2>5. CASE FindDispatch(c)
    <3> DEFINE i == req[c].inv
               r == [req[c] EXCEPT !.pc = "counting",
                       !.found = IF dispatch[i] = None THEN None ELSE dispatch[i].wh]
    <3>1. req' = [req EXCEPT ![c] = r]
      BY <2>5 DEF FindDispatch
    <3>2. r.pc \notin Returning
      BY DEF Returning, IndStock, IndType, TypeOK, Request
    <3>3. QED
      BY <3>1, <3>2
  <2>6. CASE CountForStart(c) /\ ~Finish(c)
    <3> DEFINE n == IF req[c].found = None THEN 0 ELSE CountScans(req[c].inv)
               r == [req[c] EXCEPT !.pc = "stocking", !.count = n]
    <3>1. req' = [req EXCEPT ![c] = r]
      BY <2>6 DEF CountForStart
    <3>2. r.pc \notin Returning
      BY DEF Returning, IndStock, IndType, TypeOK, Request
    <3>3. QED
      BY <3>1, <3>2
  <2>7. CASE CountStock(c) /\ ~Finish(c)
    <3> DEFINE pc == IF req[c].found = None THEN "creating"
                     ELSE IF SwitchesWarehouse(c) THEN "repointing" ELSE "targeting"
    <3>1. PICK n : req' = [req EXCEPT ![c] = [req[c] EXCEPT !.pc = pc, !.target = n]]
      BY <2>7 DEF CountStock
    <3>2. [req[c] EXCEPT !.pc = pc, !.target = n].pc \notin Returning
      BY DEF Returning, IndStock, IndType, TypeOK, Request
    <3>3. QED
      BY <3>1, <3>2
  <2>8. QED
    BY <2>1, <2>2, <2>3, <2>4, <2>5, <2>6, <2>7
    DEF Proceed, CreateDispatch, RepointDispatch, SetTarget, ResumeDispatch, AfterTarget,
        SeekShort, RaiseShort, CompleteDispatch, CommitPreBilling, DeactivateWarehouse
<1>3. req'[c].pc \notin Returning /\ \A e \in Clients \ {c} : req'[e] = req[e]
  BY <1>2 DEF IndStock, IndType, TypeOK
<1>4. QED
  BY <1>1, <1>3, OtherStepKeepsStock

LEMMA ArriveKeepsStock ==
    ASSUME IndStock, IndType', NEW c \in Clients, Arrive(c)
    PROVE  IndStock'
<1>1. ASSUME NEW r, Begin(c, r), r.pc \notin Returning, UNCHANGED rows PROVE IndStock'
  BY <1>1, OtherStepKeepsStock DEF Begin, rows, IndStock, IndType, TypeOK
<1>2. ASSUME NEW i \in Invoices, NEW w \in Warehouses, StartDispatch(c, i, w) PROVE IndStock'
  BY <1>1, <1>2 DEF StartDispatch, Idle, Returning
<1>3. ASSUME NEW i \in Invoices, NEW s \in Serials, ValidateScan(c, i, s) PROVE IndStock'
  BY <1>1, <1>3 DEF ValidateScan, Idle, Returning
<1>4. ASSUME NEW i \in Invoices, NEW s \in Serials, CheckPreBilling(c, i, s) PROVE IndStock'
  <2> DEFINE r(line) == [Idle EXCEPT !.pc = "prebilling", !.ser = s, !.line = line]
  <2>1. PICK line \in Lines : Begin(c, r(line))
    BY <1>4 DEF CheckPreBilling, LinesOf
  <2>2. r(line).pc \notin Returning
    BY DEF Idle, Returning
  <2>3. QED
    BY <1>1, <1>4, <2>1, <2>2 DEF CheckPreBilling
<1>5. ASSUME NEW i \in Invoices, LockForComplete(c, i) PROVE IndStock'
  BY <1>1, <1>5 DEF LockForComplete, Idle, Returning
<1>6. ASSUME NEW w \in Closable, CheckWarehouseEmpty(c, w) PROVE IndStock'
  BY <1>1, <1>6 DEF CheckWarehouseEmpty, Idle, Returning
<1>7. ASSUME NEW k \in Srns, UNCHANGED <<serial, scans, returned, srnScans, req>>,
             \A j \in Srns : srn[j] # None => srn'[j] = srn[j], ~InFlight(c)
      PROVE  IndStock'
  BY <1>7, OtherStepKeepsStock DEF InFlight, Returning
<1>8. ASSUME NEW k \in Srns, NEW w \in Warehouses, NEW i \in Invoices \cup {None},
             NEW q \in Quantities \cup {None}, NEW f \in ForeignAnswers,
             CreateSrn(c, k, w, i, q, f)
      PROVE  IndStock'
  <2>1. \A j \in Srns : srn[j] # None => srn'[j] = srn[j]
    BY <1>8 DEF CreateSrn, IndStock, IndType, TypeOK
  <2>2. QED
    BY <1>7, <1>8, <2>1 DEF CreateSrn, stock
<1>9. ASSUME NEW s \in Serials, NEW t \in Corrections, CorrectTag(c, s, t) PROVE IndStock'
  <2>1. \A u \in Serials : serial'[u].status = serial[u].status
    BY <1>9 DEF CorrectTag, IndStock, IndType, TypeOK
  <2>2. QED
    BY <1>9, <2>1, OtherStepKeepsStock DEF CorrectTag, InFlight, Returning
<1>10. ASSUME NEW w \in Closable, ReactivateWarehouse(c, w) PROVE IndStock'
  BY <1>10, OtherStepKeepsStock DEF ReactivateWarehouse, InFlight, Returning, stock
<1>11. QED
  BY <1>2, <1>3, <1>4, <1>5, <1>6, <1>8, <1>9, <1>10, LockForReturnStock DEF Arrive

LEMMA StockStep == IndStock /\ [Next]_vars => IndStock'
<1> SUFFICES ASSUME IndStock, [Next]_vars PROVE IndStock'
  OBVIOUS
<1>1. IndType'
  BY TypeStep DEF IndStock
<1>2. CASE UNCHANGED vars
  BY <1>1, <1>2 DEF vars, IndStock, SoldOnce, ReturnsMatched, ReturnsGrounded,
     ReturnGrounded, Adopted, ReturnedSerials
<1>3. ASSUME NEW c \in Clients, Crash(c) PROVE IndStock'
  <2>1. UNCHANGED <<serial, scans, returned, srn, srnScans>>
    BY <1>3 DEF Crash, rows
  <2>2. req'[c].pc \notin Returning /\ \A e \in Clients \ {c} : req'[e] = req[e]
    BY <1>3 DEF Crash, Finish, Idle, Returning, IndStock, IndType, TypeOK
  <2>3. QED
    BY <1>1, <2>1, <2>2, OtherStepKeepsStock
<1>4. ASSUME NEW c \in Clients, Proceed(c) PROVE IndStock'
  BY <1>1, <1>4, ProceedKeepsStock, CommitScanStock, InsertReturnStock, CommitReturnStock
<1>5. QED
  BY <1>1, <1>2, <1>3, <1>4, ArriveKeepsStock DEF Next

\* However dispatches and returns interleave, a unit that no return adopted is out on one
\* invoice exactly while its status says so.
THEOREM UnitsAreSoldOnce == Spec => []SoldOnce
<1>1. IndStock => SoldOnce
  BY DEF IndStock
<1>2. QED
  BY <1>1, StockInit, StockStep, PTL DEF Spec

\* Every return of original stock took back exactly the scan it was reconciled with, and what
\* a return has read before its insert still holds when it writes.
THEOREM ReturnsAreReconciled == Spec => []ReturnsReconcile
<1>1. IndStock => ReturnsReconcile
  BY DEF IndStock, ReturnsReconcile
<1>2. QED
  BY <1>1, StockInit, StockStep, PTL DEF Spec

\* A unit stops being out only by a return, and by one return in its life.
THEOREM UnitsComeBackOnce == Spec => BackOnlyByReturn
<1> DEFINE Back == \A s \in Serials :
                     serial[s].status = "DISPATCHED" /\ serial'[s].status # "DISPATCHED"
                       => s \in {x.ser : x \in srnScans'} \ ReturnedSerials
<1>1. IndStock /\ [Next]_vars => [Back]_vars
  <2> SUFFICES ASSUME IndStock, Next, NEW s \in Serials,
                      serial[s].status = "DISPATCHED", serial'[s].status # "DISPATCHED"
               PROVE  s \in {x.ser : x \in srnScans'} \ ReturnedSerials
    OBVIOUS
  <2>1. serial' # serial
    OBVIOUS
  <2>2. ASSUME NEW c \in Clients, CommitReturn(c)
        PROVE  s \in {x.ser : x \in srnScans'} \ ReturnedSerials
    <3>1. req[c].ser = s
      BY <2>2 DEF CommitReturn, IndStock, IndType, TypeOK
    <3>2. s \notin ReturnedSerials
      BY <2>2, <3>1 DEF CommitReturn, IndStock, ReturnsGrounded, ReturnGrounded, Returning
    <3>3. [srn |-> req[c].srn, ser |-> s, orig |-> req[c].line] \in srnScans'
      BY <2>2, <3>1 DEF CommitReturn
    <3>4. QED
      BY <3>2, <3>3
  <2>3. ASSUME NEW c \in Clients, CommitScan(c) PROVE FALSE
    BY <2>1, <2>3 DEF CommitScan, IndStock, IndType, TypeOK
  <2>4. ASSUME NEW c \in Clients, NEW u \in Serials, NEW t \in Corrections, CorrectTag(c, u, t)
        PROVE  FALSE
    BY <2>4 DEF CorrectTag, IndStock, IndType, TypeOK
  <2>5. ASSUME NEW c \in Clients, Arrive(c) \/ Proceed(c) \/ Crash(c), ~CommitReturn(c), ~CommitScan(c),
               ~\E u \in Serials, t \in Corrections : CorrectTag(c, u, t)
        PROVE  serial' = serial
    BY <2>5 DEF Arrive, Proceed, Crash, StartDispatch, ValidateScan, CheckPreBilling,
       LockForComplete, CreateSrn, LockForReturn, CheckWarehouseEmpty, ReactivateWarehouse,
       FindDispatch, CountForStart, CountStock,
       CreateDispatch, RepointDispatch, SetTarget, ResumeDispatch, SeekShort, RaiseShort,
       LockForScan, PickLine, CompleteDispatch, InsertReturn, CommitPreBilling,
       DeactivateWarehouse, stock, rows
  <2>6. QED
    BY <2>1, <2>2, <2>3, <2>4, <2>5 DEF Next
<1>2. QED
  BY <1>1, StockInit, StockStep, PTL DEF Spec, BackOnlyByReturn, Back
=============================================================================
