----------------------------- MODULE LedgerProofs -----------------------------
(***************************************************************************)
(* Proofs about the counts of Fulfilment: no line is shipped beyond what   *)
(* it orders, no return exceeds its quantity, no battery leaves without    *)
(* its pre-billing; that Fulfilment implements Ledger; and what it keeps   *)
(* besides while requests do not overlap.                                  *)
(***************************************************************************)
EXTENDS FulfilmentProofs, FunctionTheorems

-----------------------------------------------------------------------------
(* Counts hold because a count is read and used under one row lock.  The   *)
(* locks are those of the requests in these states, and each excludes      *)
(* every rival (OneDispatchHolder, OneSrnHolder); what the holder has      *)
(* counted therefore still fits when it writes (ScanFits, QuotaLeft).      *)

Holding == {"scanLocked", "scanLined", "completing"}
ScansFor(l) == {d \in scans : d.line = l}
ReturnsOn(k) == {x \in srnScans : x.srn = k}

OneDispatchHolder ==
    \A c, e \in Clients :
        req[c].pc \in Holding /\ req[e].pc \in Holding /\ req[c].inv = req[e].inv => c = e
OneSrnHolder ==
    \A c, e \in Clients :
        req[c].pc \in Returning /\ req[e].pc \in Returning /\ req[c].srn = req[e].srn => c = e

ScanFits(c) ==
    req[c].pc = "scanLined" =>
        /\ Cardinality(ScansFor(req[c].line)) < req[c].line.qty
        /\ req[c].line.product \in Batteries => PreBilled(req[c].ser, req[c].inv)
QuotaLeft(c) ==
    req[c].pc \in Returning /\ srn[req[c].srn].qty # None =>
        Cardinality(ReturnsOn(req[c].srn)) < srn[req[c].srn].qty

ReturnsRecorded ==
    /\ IsFiniteSet(srnScans)
    /\ \A x \in srnScans : srn[x.srn] # None

Locks ==
    /\ OneDispatchHolder
    /\ OneSrnHolder
    /\ \A c \in Clients : ScanFits(c) /\ QuotaLeft(c)

IndCount ==
    /\ IndStock
    /\ ReturnsRecorded
    /\ Locks
    /\ NeverOverShipped
    /\ ReturnQuota
    /\ BatteryGate

LEMMA CountInit == Init => IndCount
<1> SUFFICES ASSUME Init PROVE IndCount
  OBVIOUS
<1>1. \A c \in Clients : req[c].pc = "idle"
  BY DEF Init, Idle
<1>2. scans = {} /\ srnScans = {} /\ \A k \in Srns : srn[k] = None
  BY DEF Init
<1>3. ReturnsRecorded
  BY <1>2, FS_EmptySet DEF ReturnsRecorded
<1>4. Locks
  BY <1>1 DEF Locks, OneDispatchHolder, OneSrnHolder, ScanFits, QuotaLeft, Holding, Returning
<1>5. NeverOverShipped
  <2>1. ASSUME NEW l \in Lines PROVE {d \in scans : d.line = l} = {} /\ l.qty \in Nat
    BY <1>2, LinesAssumption
  <2>2. QED
    BY <2>1, FS_EmptySet DEF NeverOverShipped, CountScansForLine
<1>6. ReturnQuota /\ BatteryGate
  BY <1>2 DEF ReturnQuota, BatteryGate
<1>7. QED
  BY <1>3, <1>4, <1>5, <1>6, StockInit DEF IndCount

\* One more row than a count that was below its limit is within the limit.
LEMMA OneMoreFits ==
    ASSUME NEW S, IsFiniteSet(S), NEW x, NEW n \in Nat, Cardinality(S) < n
    PROVE  Cardinality(S \cup {x}) <= n
<1>1. Cardinality(S) \in Nat
  BY FS_CardinalityType
<1>2. Cardinality(S \cup {x}) = IF x \in S THEN Cardinality(S) ELSE Cardinality(S) + 1
  BY FS_AddElement
<1>3. QED
  BY <1>1, <1>2

LEMMA LineCount ==
    ASSUME NEW l
    PROVE  CountScansForLine(l) = Cardinality(ScansFor(l))
BY DEF CountScansForLine, ScansFor

\* What a request that holds a dispatch row knows of its line.
LEMMA ScanLined ==
    ASSUME IndType, NEW c \in Clients, req[c].pc = "scanLined"
    PROVE  /\ req[c].line \in Lines /\ req[c].line.inv = req[c].inv
           /\ req[c].ser \in Serials /\ req[c].inv \in Invoices
BY DEF IndType, Grounded, LinesOf, Scanning

\* A step after which the request of c holds no row, and which adds no scan, no return and
\* no declared quantity.
LEMMA FreeStepKeepsCounts ==
    ASSUME IndCount, IndStock', NEW c \in Clients,
           scans' \subseteq scans, UNCHANGED srnScans, prebilled \subseteq prebilled',
           \A k \in Srns : srn[k] # None => srn'[k] = srn[k],
           \A e \in Clients \ {c} : req'[e] = req[e],
           req'[c].pc \notin Holding \cup Returning
    PROVE  IndCount'
<1>1. ReturnsRecorded'
  BY DEF IndCount, ReturnsRecorded, IndStock, IndType, TypeOK, SrnScan
<1>2. \A l : ScansFor(l)' \subseteq ScansFor(l) /\ IsFiniteSet(ScansFor(l))
  BY FS_Subset DEF ScansFor, IndCount, IndStock, IndType
<1>3. \A l : Cardinality(ScansFor(l)') <= Cardinality(ScansFor(l))
  BY <1>2, FS_Subset
<1>4. \A l : /\ Cardinality(ScansFor(l)) \in Nat
             /\ Cardinality(ScansFor(l)') \in Nat
  BY <1>2, FS_Subset, FS_CardinalityType
<1>5. \A l \in Lines : l.qty \in Nat
  BY LinesAssumption
<1>6. OneDispatchHolder' /\ OneSrnHolder'
  BY DEF IndCount, Locks, OneDispatchHolder, OneSrnHolder
<1>7. ASSUME NEW e \in Clients PROVE ScanFits(e)'
  <2>1. SUFFICES ASSUME req'[e].pc = "scanLined" PROVE ScanFits(e)'
    BY DEF ScanFits
  <2>2. e # c /\ req'[e] = req[e]
    BY <2>1 DEF Holding
  <2>3. ScanFits(e) /\ req[e].line \in Lines
    BY <2>1, <2>2, ScanLined DEF IndCount, Locks, IndStock
  <2>4. PreBilled(req[e].ser, req[e].inv) => PreBilled(req[e].ser, req[e].inv)'
    BY <2>2 DEF PreBilled
  <2>5. ASSUME NEW l \in Lines, l = req[e].line, Cardinality(ScansFor(l)) < l.qty
        PROVE  Cardinality(ScansFor(l)') < l.qty
    BY <1>3, <1>4, <1>5, <2>5
  <2>6. ASSUME NEW l \in Lines, l = req[e].line
        PROVE  ScansFor(req[e].line) = ScansFor(l) /\ ScansFor(req[e].line)' = ScansFor(l)'
    BY <2>2, <2>6 DEF ScansFor
  <2>7. QED
    BY <2>1, <2>2, <2>3, <2>4, <2>5, <2>6 DEF ScanFits
<1>8. ASSUME NEW e \in Clients PROVE QuotaLeft(e)'
  <2>1. SUFFICES ASSUME req'[e].pc \in Returning PROVE QuotaLeft(e)'
    BY DEF QuotaLeft
  <2>2. e # c /\ req'[e] = req[e]
    BY <2>1
  <2>3. srn'[req[e].srn] = srn[req[e].srn]
    BY <2>1, <2>2, ReturnInProgress, NoneAssumption DEF IndCount, IndStock, SrnRow
  <2>4. QuotaLeft(e)
    BY DEF IndCount, Locks
  <2>5. QED
    BY <2>1, <2>2, <2>3, <2>4 DEF QuotaLeft, ReturnsOn
<1>9. NeverOverShipped'
  <2>1. ASSUME NEW l \in Lines PROVE CountScansForLine(l)' <= l.qty
    <3>1. CountScansForLine(l) = Cardinality(ScansFor(l)) /\ CountScansForLine(l)' = Cardinality(ScansFor(l)')
      BY DEF CountScansForLine, ScansFor
    <3>2. CountScansForLine(l) <= l.qty
      BY DEF IndCount, NeverOverShipped
    <3>3. QED
      BY <3>1, <3>2, <1>3, <1>4, <1>5
  <2>2. QED
    BY <2>1 DEF NeverOverShipped
<1>10. ReturnQuota'
  <2>1. SUFFICES ASSUME NEW k \in Srns, srn'[k] # None, srn'[k].qty # None
                 PROVE  Cardinality(ReturnsOn(k)) <= srn'[k].qty
    BY DEF ReturnQuota, ReturnsOn
  <2>2. CASE srn[k] # None
    BY <2>1, <2>2 DEF IndCount, ReturnQuota, ReturnsOn
  <2>3. CASE srn[k] = None
    <3>1. ReturnsOn(k) = {}
      BY <2>3 DEF ReturnsOn, IndCount, ReturnsRecorded
    <3>2. srn'[k].qty \in Nat
      BY <2>1 DEF IndStock, IndType, TypeOK, SrnRow
    <3>3. QED
      BY <3>1, <3>2, FS_EmptySet
  <2>4. QED
    BY <2>2, <2>3
<1>11. BatteryGate'
  BY DEF IndCount, BatteryGate
<1>12. QED
  BY <1>1, <1>6, <1>7, <1>8, <1>9, <1>10, <1>11 DEF IndCount, Locks

\* A step that moves the request of c to another statement under a lock.
LEMMA LockStepKeepsCounts ==
    ASSUME IndCount, IndStock', NEW c \in Clients, UNCHANGED rows,
           \A e \in Clients \ {c} : req'[e] = req[e],
           OneDispatchHolder', OneSrnHolder', ScanFits(c)', QuotaLeft(c)'
    PROVE  IndCount'
<1>1. ASSUME NEW e \in Clients PROVE ScanFits(e)' /\ QuotaLeft(e)'
  <2>1. CASE e = c
    BY <2>1
  <2>2. CASE e # c
    <3>1. req'[e] = req[e] /\ ScanFits(e) /\ QuotaLeft(e)
      BY <2>2 DEF IndCount, Locks
    <3>2. QED
      BY <3>1 DEF rows, ScanFits, QuotaLeft, ScansFor, ReturnsOn, PreBilled
  <2>3. QED
    BY <2>1, <2>2
<1>2. ReturnsRecorded' /\ NeverOverShipped' /\ ReturnQuota' /\ BatteryGate'
  BY DEF rows, IndCount, ReturnsRecorded, NeverOverShipped, CountScansForLine, ReturnQuota, BatteryGate
<1>3. QED
  BY <1>1, <1>2 DEF IndCount, Locks

\* A request that is refused or ends gives its locks back.
LEMMA FinishCounts ==
    ASSUME IndCount, IndStock', NEW c \in Clients, Finish(c), UNCHANGED rows
    PROVE  IndCount'
<1>1. req'[c].pc \notin Holding \cup Returning /\ \A e \in Clients \ {c} : req'[e] = req[e]
  BY DEF Finish, Idle, Holding, Returning, IndCount, IndStock, IndType, TypeOK
<1>2. QED
  BY <1>1, FreeStepKeepsCounts DEF rows

LEMMA LockForScanCounts ==
    ASSUME IndCount, IndStock', NEW c \in Clients, LockForScan(c)
    PROVE  IndCount'
<1>1. UNCHANGED rows
  BY DEF LockForScan
<1>2. CASE EndTransaction(c)
  BY <1>1, <1>2, FinishCounts DEF EndTransaction
<1>3. CASE ~EndTransaction(c)
  <2>1. /\ req'[c].pc = "scanLocked" /\ req'[c].inv = req[c].inv
        /\ \A e \in Clients \ {c} : req'[e] = req[e]
    BY <1>3 DEF LockForScan, IndCount, IndStock, IndType, TypeOK, Request
  <2>2. \A e \in Clients : req[e].pc \in Holding => req[e].inv # req[c].inv
    BY DEF LockForScan, DispatchLocked, Holding
  <2>3. OneDispatchHolder'
    BY <2>1, <2>2 DEF OneDispatchHolder, IndCount, Locks
  <2>4. OneSrnHolder' /\ ScanFits(c)' /\ QuotaLeft(c)'
    BY <2>1 DEF OneSrnHolder, ScanFits, QuotaLeft, Returning, IndCount, Locks
  <2>5. QED
    BY <1>1, <2>1, <2>3, <2>4, LockStepKeepsCounts
<1>4. QED
  BY <1>2, <1>3

\* findAvailableLine finds a line with room, and a battery with its pre-billing.
LEMMA PickLineCounts ==
    ASSUME IndCount, IndStock', NEW c \in Clients, PickLine(c)
    PROVE  IndCount'
<1>1. UNCHANGED rows /\ req[c].pc = "scanLocked"
  BY DEF PickLine
<1>2. CASE EndTransaction(c)
  BY <1>1, <1>2, FinishCounts DEF EndTransaction
<1>3. CASE ~EndTransaction(c)
  <2>1. PICK line \in OpenLines(req[c].inv, req[c].ser) :
          /\ line.product \in Batteries => PreBilled(req[c].ser, req[c].inv)
          /\ req' = [req EXCEPT ![c].pc = "scanLined", ![c].line = line]
    BY <1>3 DEF PickLine
  <2>2. /\ req'[c].pc = "scanLined" /\ req'[c].inv = req[c].inv /\ req'[c].ser = req[c].ser
        /\ req'[c].line = line
        /\ \A e \in Clients \ {c} : req'[e] = req[e]
    BY <2>1 DEF IndCount, IndStock, IndType, TypeOK, Request
  <2>3. Cardinality(ScansFor(line)) < line.qty
    BY LineCount DEF OpenLines
  <2>4. OneDispatchHolder'
    BY <1>1, <2>2 DEF OneDispatchHolder, IndCount, Locks, Holding
  <2>5. OneSrnHolder' /\ QuotaLeft(c)'
    BY <2>2 DEF OneSrnHolder, QuotaLeft, Returning, IndCount, Locks
  <2>6. ScanFits(c)'
    BY <1>1, <2>1, <2>2, <2>3 DEF ScanFits, ScansFor, PreBilled, rows
  <2>7. QED
    BY <1>1, <2>2, <2>4, <2>5, <2>6, LockStepKeepsCounts
<1>4. QED
  BY <1>2, <1>3

LEMMA LockForCompleteCounts ==
    ASSUME IndCount, IndStock', NEW c \in Clients, NEW i \in Invoices, LockForComplete(c, i)
    PROVE  IndCount'
<1>1. /\ UNCHANGED rows /\ req'[c].pc = "completing" /\ req'[c].inv = i
      /\ \A e \in Clients \ {c} : req'[e] = req[e]
  BY DEF LockForComplete, Begin, Idle, IndCount, IndStock, IndType, TypeOK
<1>2. \A e \in Clients : req[e].pc \in Holding => req[e].inv # i
  BY DEF LockForComplete, DispatchLocked, Holding
<1>3. OneDispatchHolder'
  BY <1>1, <1>2 DEF OneDispatchHolder, IndCount, Locks
<1>4. OneSrnHolder' /\ ScanFits(c)' /\ QuotaLeft(c)'
  BY <1>1 DEF OneSrnHolder, ScanFits, QuotaLeft, Returning, IndCount, Locks
<1>5. QED
  BY <1>1, <1>3, <1>4, LockStepKeepsCounts

\* The quota is compared under the lock on the SRN row.
LEMMA LockForReturnCounts ==
    ASSUME IndCount, IndStock', NEW c \in Clients, NEW k \in Srns, NEW s \in Serials,
           NEW t \in Tags, LockForReturn(c, k, s, t)
    PROVE  IndCount'
<1>1. PICK orig \in Lines \cup {None} :
        Begin(c, [Idle EXCEPT !.pc = "returnLocked", !.srn = k, !.ser = s, !.tag = t,
                              !.line = orig])
  BY DEF LockForReturn
<1>2. /\ UNCHANGED rows /\ req'[c].pc = "returnLocked" /\ req'[c].srn = k
      /\ \A e \in Clients \ {c} : req'[e] = req[e]
  BY <1>1 DEF LockForReturn, Begin, Idle, IndCount, IndStock, IndType, TypeOK
<1>3. \A e \in Clients : req[e].pc \in Returning => req[e].srn # k
  BY DEF LockForReturn, SrnLocked, Returning
<1>4. OneSrnHolder'
  BY <1>2, <1>3 DEF OneSrnHolder, IndCount, Locks
<1>5. OneDispatchHolder' /\ ScanFits(c)'
  BY <1>2 DEF OneDispatchHolder, ScanFits, Holding, IndCount, Locks
<1>6. QuotaLeft(c)'
  BY <1>2 DEF QuotaLeft, ReturnsOn, LockForReturn, rows
<1>7. QED
  BY <1>2, <1>4, <1>5, <1>6, LockStepKeepsCounts

LEMMA InsertReturnCounts ==
    ASSUME IndCount, IndStock', NEW c \in Clients, InsertReturn(c)
    PROVE  IndCount'
<1>1. UNCHANGED rows /\ req[c].pc = "returnLocked"
  BY DEF InsertReturn
<1>2. CASE EndTransaction(c)
  BY <1>1, <1>2, FinishCounts DEF EndTransaction
<1>3. CASE ~EndTransaction(c)
  <2>1. /\ req'[c].pc = "returnInserted" /\ req'[c].srn = req[c].srn
        /\ \A e \in Clients \ {c} : req'[e] = req[e]
    BY <1>3 DEF InsertReturn, IndCount, IndStock, IndType, TypeOK, Request
  <2>2. OneSrnHolder'
    BY <1>1, <2>1 DEF OneSrnHolder, Returning, IndCount, Locks
  <2>3. OneDispatchHolder' /\ ScanFits(c)'
    BY <2>1 DEF OneDispatchHolder, ScanFits, Holding, IndCount, Locks
  <2>4. QuotaLeft(c)'
    <3>1. QuotaLeft(c)
      BY DEF IndCount, Locks
    <3>2. QED
      BY <1>1, <2>1, <3>1 DEF QuotaLeft, ReturnsOn, Returning, rows
  <2>5. QED
    BY <1>1, <2>1, <2>2, <2>3, <2>4, LockStepKeepsCounts
<1>4. QED
  BY <1>2, <1>3

\* The scan committed is the only one that may fill its line, and the line had room.
LEMMA CommitScanCounts ==
    ASSUME IndCount, IndStock', NEW c \in Clients, CommitScan(c)
    PROVE  IndCount'
<1> DEFINE s == req[c].ser
           line == req[c].line
           scan == [ser |-> s, line |-> line]
<1>1. /\ req[c].pc = "scanLined" /\ UNCHANGED <<srn, srnScans, prebilled>>
      /\ req'[c].pc \notin Holding \cup Returning
      /\ \A e \in Clients \ {c} : req'[e] = req[e]
  BY DEF CommitScan, Finish, Idle, Holding, Returning, IndCount, IndStock, IndType, TypeOK
<1>2. line \in Lines /\ line.inv = req[c].inv /\ line.qty \in Nat
  BY <1>1, ScanLined, LinesAssumption DEF IndCount, IndStock
<1>3. CASE UNCHANGED scans
  BY <1>1, <1>3, FreeStepKeepsCounts
<1>4. CASE scans' = scans \cup {scan}
  <2>1. \A l : l # line => ScansFor(l)' = ScansFor(l)
    BY <1>4 DEF ScansFor
  <2>2. ScansFor(line) \cup {scan} = {d \in scans' : d.line = line}
    BY <1>4 DEF ScansFor
  <2>3. Cardinality({d \in scans' : d.line = line}) <= line.qty
    <3>1. IsFiniteSet(ScansFor(line))
      BY FS_Subset DEF ScansFor, IndCount, IndStock, IndType
    <3>2. Cardinality(ScansFor(line)) < line.qty
      BY <1>1 DEF IndCount, Locks, ScanFits
    <3>3. QED
      BY <1>2, <2>2, <3>1, <3>2, OneMoreFits
  <2>4. NeverOverShipped'
    <3>1. SUFFICES ASSUME NEW l \in Lines PROVE Cardinality({d \in scans' : d.line = l}) <= l.qty
      BY DEF NeverOverShipped, CountScansForLine
    <3>2. CASE l = line
      BY <2>3, <3>2
    <3>3. CASE l # line
      BY <2>1, <3>3 DEF IndCount, NeverOverShipped, CountScansForLine, ScansFor
    <3>4. QED
      BY <3>2, <3>3
  <2>5. ReturnsRecorded' /\ ReturnQuota'
    BY <1>1 DEF IndCount, ReturnsRecorded, ReturnQuota
  <2>6. BatteryGate'
    <3>1. line.product \in Batteries => \E b \in prebilled : b.ser = s /\ b.line.inv = line.inv
      BY <1>1, <1>2 DEF IndCount, Locks, ScanFits, PreBilled
    <3>2. scan.ser = s /\ scan.line = line
      OBVIOUS
    <3> HIDE DEF scan
    <3>3. QED
      BY <1>1, <1>4, <3>1, <3>2 DEF IndCount, BatteryGate
  <2>7. OneDispatchHolder' /\ OneSrnHolder'
    BY <1>1 DEF IndCount, Locks, OneDispatchHolder, OneSrnHolder
  <2>8. ASSUME NEW e \in Clients PROVE ScanFits(e)' /\ QuotaLeft(e)'
    <3>1. CASE e = c
      BY <1>1, <3>1 DEF ScanFits, QuotaLeft, Holding
    <3>2. CASE e # c
      <4>1. req'[e] = req[e] /\ ScanFits(e) /\ QuotaLeft(e)
        BY <1>1, <3>2 DEF IndCount, Locks
      <4>2. req[e].pc = "scanLined" => req[e].line # line
        <5>1. SUFFICES ASSUME req[e].pc = "scanLined", req[e].line = line PROVE FALSE
          OBVIOUS
        <5>2. req[e].inv = req[c].inv
          BY <1>2, <5>1, ScanLined DEF IndCount, IndStock
        <5>3. QED
          BY <1>1, <3>2, <5>1, <5>2 DEF IndCount, Locks, OneDispatchHolder, Holding
      <4>3. req[e].pc = "scanLined" => ScansFor(req[e].line)' = ScansFor(req[e].line)
        BY <1>4, <4>1, <4>2 DEF ScansFor
      <4>4. QED
        BY <1>1, <4>1, <4>3 DEF ScanFits, QuotaLeft, ReturnsOn, PreBilled
    <3>3. QED
      BY <3>1, <3>2
  <2>9. QED
    BY <2>4, <2>5, <2>6, <2>7, <2>8 DEF IndCount, Locks
<1>5. QED
  BY <1>3, <1>4 DEF CommitScan

\* The return committed is the only one that may use the quota of its SRN.
LEMMA CommitReturnCounts ==
    ASSUME IndCount, IndStock', NEW c \in Clients, CommitReturn(c)
    PROVE  IndCount'
<1> DEFINE k == req[c].srn
           entry == [srn |-> k, ser |-> req[c].ser, orig |-> req[c].line]
<1>1. /\ req[c].pc = "returnInserted" /\ UNCHANGED <<srn, prebilled>>
      /\ scans' \subseteq scans /\ srnScans' = srnScans \cup {entry}
      /\ req'[c].pc \notin Holding \cup Returning
      /\ \A e \in Clients \ {c} : req'[e] = req[e]
  BY DEF CommitReturn, Finish, Idle, Holding, Returning, IndCount, IndStock, IndType, TypeOK
<1>2. k \in Srns /\ srn[k] \in SrnRow /\ srn[k] # None
  BY <1>1, ReturnInProgress, NoneAssumption DEF IndCount, IndStock, Returning, SrnRow
<1>3. entry.srn = k
  OBVIOUS
<1> HIDE DEF entry
<1>4. ReturnsRecorded'
  BY <1>1, <1>2, <1>3, FS_AddElement DEF IndCount, ReturnsRecorded
<1>5. \A j : j # k => ReturnsOn(j)' = ReturnsOn(j)
  BY <1>1, <1>3 DEF ReturnsOn
<1>6. {x \in srnScans' : x.srn = k} = ReturnsOn(k) \cup {entry}
  BY <1>1, <1>3 DEF ReturnsOn
<1>7. ReturnQuota'
  <2>1. SUFFICES ASSUME NEW j \in Srns, srn[j] # None, srn[j].qty # None
                 PROVE  Cardinality({x \in srnScans' : x.srn = j}) <= srn[j].qty
    BY <1>1 DEF ReturnQuota
  <2>2. CASE j = k
    <3>1. IsFiniteSet(ReturnsOn(k))
      BY FS_Subset DEF ReturnsOn, IndCount, ReturnsRecorded
    <3>2. Cardinality(ReturnsOn(k)) < srn[k].qty
      BY <1>1, <2>1, <2>2 DEF IndCount, Locks, QuotaLeft, Returning
    <3>3. srn[k].qty \in Nat
      BY <1>2, <2>1, <2>2 DEF SrnRow
    <3>4. QED
      BY <1>6, <2>2, <3>1, <3>2, <3>3, OneMoreFits
  <2>3. CASE j # k
    BY <1>5, <2>1, <2>3 DEF IndCount, ReturnQuota, ReturnsOn
  <2>4. QED
    BY <2>2, <2>3
<1>8. \A l : ScansFor(l)' \subseteq ScansFor(l) /\ IsFiniteSet(ScansFor(l))
  BY <1>1, FS_Subset DEF ScansFor, IndCount, IndStock, IndType
<1>9. ASSUME NEW l \in Lines
      PROVE  /\ Cardinality(ScansFor(l)') <= Cardinality(ScansFor(l))
             /\ Cardinality(ScansFor(l)) \in Nat /\ Cardinality(ScansFor(l)') \in Nat
             /\ l.qty \in Nat
  BY <1>8, FS_Subset, FS_CardinalityType, LinesAssumption
<1>10. NeverOverShipped'
  <2>1. SUFFICES ASSUME NEW l \in Lines PROVE Cardinality(ScansFor(l)') <= l.qty
    BY DEF NeverOverShipped, CountScansForLine, ScansFor
  <2>2. Cardinality(ScansFor(l)) <= l.qty
    BY LineCount DEF IndCount, NeverOverShipped
  <2>3. QED
    BY <1>9, <2>2
<1>11. BatteryGate'
  BY <1>1 DEF IndCount, BatteryGate
<1>12. OneDispatchHolder' /\ OneSrnHolder'
  BY <1>1 DEF IndCount, Locks, OneDispatchHolder, OneSrnHolder
<1>13. ASSUME NEW e \in Clients PROVE ScanFits(e)' /\ QuotaLeft(e)'
  <2>1. CASE e = c
    BY <1>1, <2>1 DEF ScanFits, QuotaLeft, Holding
  <2>2. CASE e # c
    <3>1. req'[e] = req[e] /\ ScanFits(e) /\ QuotaLeft(e)
      BY <1>1, <2>2 DEF IndCount, Locks
    <3>2. ScanFits(e)'
      <4>1. SUFFICES ASSUME req[e].pc = "scanLined" PROVE ScanFits(e)'
        BY <3>1 DEF ScanFits
      <4>2. PICK l \in Lines : l = req[e].line
        BY <4>1, ScanLined DEF IndCount, IndStock
      <4>3. Cardinality(ScansFor(l)) < l.qty
        BY <3>1, <4>1, <4>2 DEF ScanFits
      <4>4. Cardinality(ScansFor(l)') < l.qty
        BY <1>9, <4>3
      <4>5. ScansFor(req[e].line)' = ScansFor(l)'
        BY <3>1, <4>2 DEF ScansFor
      <4>6. QED
        BY <1>1, <3>1, <4>1, <4>2, <4>4, <4>5 DEF ScanFits, PreBilled
    <3>3. QuotaLeft(e)'
      <4>1. req[e].pc \in Returning => req[e].srn # k
        BY <1>1, <2>2 DEF IndCount, Locks, OneSrnHolder, Returning
      <4>2. req[e].pc \in Returning => ReturnsOn(req[e].srn)' = ReturnsOn(req[e].srn)
        BY <1>1, <1>3, <3>1, <4>1 DEF ReturnsOn
      <4>3. QED
        BY <1>1, <3>1, <4>2 DEF QuotaLeft
    <3>4. QED
      BY <3>2, <3>3
  <2>3. QED
    BY <2>1, <2>2
<1>14. QED
  BY <1>4, <1>7, <1>10, <1>11, <1>12, <1>13 DEF IndCount, Locks

\* Requests that do not stand at a lock leave the rows that are counted alone, and take none.
LEMMA ProceedLeavesLocks ==
    ASSUME IndType, NEW c \in Clients, Proceed(c),
           ~LockForScan(c), ~PickLine(c), ~CommitScan(c), ~InsertReturn(c), ~CommitReturn(c)
    PROVE  /\ UNCHANGED <<scans, srn, srnScans>> /\ prebilled \subseteq prebilled'
           /\ req'[c].pc \notin Holding \cup Returning
           /\ \A e \in Clients \ {c} : req'[e] = req[e]
<1>1. UNCHANGED <<scans, srn, srnScans>> /\ prebilled \subseteq prebilled'
  BY DEF Proceed, FindDispatch, CountForStart, CountStock, CreateDispatch, RepointDispatch,
     SetTarget, ResumeDispatch, SeekShort, RaiseShort, CompleteDispatch, CommitPreBilling,
     DeactivateWarehouse, stock, rows
<1>2. \E r : r.pc \notin Holding \cup Returning /\ req' = [req EXCEPT ![c] = r]
  <2>1. CASE Finish(c)
    BY <2>1 DEF Finish, Idle, Holding, Returning
  <2>2. ASSUME NEW pc \in {"targeting", "resuming", "seekingShort", "raisingShort"}, Goto(c, pc)
        PROVE  \E r : r.pc \notin Holding \cup Returning /\ req' = [req EXCEPT ![c] = r]
    <3>1. req' = [req EXCEPT ![c] = [req[c] EXCEPT !.pc = pc]]
      BY <2>2 DEF Goto
    <3>2. [req[c] EXCEPT !.pc = pc].pc \notin Holding \cup Returning
      BY DEF Holding, Returning, IndType, TypeOK, Request
    <3>3. QED
      BY <3>1, <3>2
  <2>3. CASE FindDispatch(c)
    <3>1. PICK w : req' = [req EXCEPT ![c] = [req[c] EXCEPT !.pc = "counting", !.found = w]]
      BY <2>3 DEF FindDispatch
    <3>2. [req[c] EXCEPT !.pc = "counting", !.found = w].pc \notin Holding \cup Returning
      BY DEF Holding, Returning, IndType, TypeOK, Request
    <3>3. QED
      BY <3>1, <3>2
  <2>4. CASE CountForStart(c) /\ ~Finish(c)
    <3>1. PICK n : req' = [req EXCEPT ![c] = [req[c] EXCEPT !.pc = "stocking", !.count = n]]
      BY <2>4 DEF CountForStart
    <3>2. [req[c] EXCEPT !.pc = "stocking", !.count = n].pc \notin Holding \cup Returning
      BY DEF Holding, Returning, IndType, TypeOK, Request
    <3>3. QED
      BY <3>1, <3>2
  <2>5. CASE CountStock(c) /\ ~Finish(c)
    <3> DEFINE pc == IF req[c].found = None THEN "creating"
                     ELSE IF SwitchesWarehouse(c) THEN "repointing" ELSE "targeting"
    <3>1. PICK n : req' = [req EXCEPT ![c] = [req[c] EXCEPT !.pc = pc, !.target = n]]
      BY <2>5 DEF CountStock
    <3>2. [req[c] EXCEPT !.pc = pc, !.target = n].pc \notin Holding \cup Returning
      BY DEF Holding, Returning, IndType, TypeOK, Request
    <3>3. QED
      BY <3>1, <3>2
  <2>6. QED
    BY <2>1, <2>2, <2>3, <2>4, <2>5
    DEF Proceed, CreateDispatch, RepointDispatch, SetTarget, ResumeDispatch, AfterTarget,
        SeekShort, RaiseShort, CompleteDispatch, CommitPreBilling, DeactivateWarehouse
<1>3. req'[c].pc \notin Holding \cup Returning /\ \A e \in Clients \ {c} : req'[e] = req[e]
  BY <1>2 DEF IndType, TypeOK
<1>4. QED
  BY <1>1, <1>3

LEMMA ProceedKeepsCounts ==
    ASSUME IndCount, IndStock', NEW c \in Clients, Proceed(c),
           ~LockForScan(c), ~PickLine(c), ~CommitScan(c), ~InsertReturn(c), ~CommitReturn(c)
    PROVE  IndCount'
BY ProceedLeavesLocks, FreeStepKeepsCounts DEF IndCount, IndStock

LEMMA ArriveKeepsCounts ==
    ASSUME IndCount, IndStock', NEW c \in Clients, Arrive(c)
    PROVE  IndCount'
<1>1. ASSUME NEW r, Begin(c, r), r.pc \notin Holding \cup Returning, UNCHANGED rows PROVE IndCount'
  BY <1>1, FreeStepKeepsCounts DEF Begin, rows, IndCount, IndStock, IndType, TypeOK
<1>2. ASSUME NEW i \in Invoices, NEW w \in Warehouses, StartDispatch(c, i, w) PROVE IndCount'
  BY <1>1, <1>2 DEF StartDispatch, Idle, Holding, Returning
<1>3. ASSUME NEW i \in Invoices, NEW s \in Serials, ValidateScan(c, i, s) PROVE IndCount'
  BY <1>1, <1>3 DEF ValidateScan, Idle, Holding, Returning
<1>4. ASSUME NEW i \in Invoices, NEW s \in Serials, CheckPreBilling(c, i, s) PROVE IndCount'
  <2> DEFINE r(line) == [Idle EXCEPT !.pc = "prebilling", !.ser = s, !.line = line]
  <2>1. PICK line \in Lines : Begin(c, r(line))
    BY <1>4 DEF CheckPreBilling, LinesOf
  <2>2. r(line).pc \notin Holding \cup Returning
    BY DEF Idle, Holding, Returning
  <2>3. QED
    BY <1>1, <1>4, <2>1, <2>2 DEF CheckPreBilling
<1>5. ASSUME NEW w \in Closable, CheckWarehouseEmpty(c, w) PROVE IndCount'
  BY <1>1, <1>5 DEF CheckWarehouseEmpty, Idle, Holding, Returning
<1>6. ASSUME UNCHANGED <<scans, srnScans, prebilled, req>>,
             \A k \in Srns : srn[k] # None => srn'[k] = srn[k], ~InFlight(c)
      PROVE  IndCount'
  BY <1>6, FreeStepKeepsCounts DEF InFlight, Holding, Returning
<1>7. ASSUME NEW k \in Srns, NEW w \in Warehouses, NEW i \in Invoices \cup {None},
             NEW q \in Quantities \cup {None}, NEW f \in ForeignAnswers,
             CreateSrn(c, k, w, i, q, f)
      PROVE  IndCount'
  <2>1. \A j \in Srns : srn[j] # None => srn'[j] = srn[j]
    BY <1>7 DEF CreateSrn, IndCount, IndStock, IndType, TypeOK
  <2>2. QED
    BY <1>6, <1>7, <2>1 DEF CreateSrn, stock
<1>8. ASSUME NEW s \in Serials, NEW t \in Corrections, CorrectTag(c, s, t) PROVE IndCount'
  BY <1>6, <1>8 DEF CorrectTag
<1>9. ASSUME NEW w \in Closable, ReactivateWarehouse(c, w) PROVE IndCount'
  BY <1>6, <1>9 DEF ReactivateWarehouse, stock
<1>10. QED
  BY <1>2, <1>3, <1>4, <1>5, <1>7, <1>8, <1>9, LockForCompleteCounts, LockForReturnCounts
  DEF Arrive

LEMMA CountStep == IndCount /\ [Next]_vars => IndCount'
<1> SUFFICES ASSUME IndCount, [Next]_vars PROVE IndCount'
  OBVIOUS
<1>1. IndStock'
  BY StockStep DEF IndCount
<1>2. CASE UNCHANGED vars
  BY <1>1, <1>2 DEF vars, IndCount, ReturnsRecorded, Locks, OneDispatchHolder, OneSrnHolder,
     ScanFits, QuotaLeft, ScansFor, ReturnsOn, PreBilled, NeverOverShipped, CountScansForLine,
     ReturnQuota, BatteryGate
<1>3. ASSUME NEW c \in Clients, Crash(c) PROVE IndCount'
  BY <1>1, <1>3, FinishCounts DEF Crash
<1>4. ASSUME NEW c \in Clients, Proceed(c) PROVE IndCount'
  BY <1>1, <1>4, ProceedKeepsCounts, LockForScanCounts, PickLineCounts, CommitScanCounts,
     InsertReturnCounts, CommitReturnCounts
<1>5. QED
  BY <1>1, <1>2, <1>3, <1>4, ArriveKeepsCounts DEF Next

\* However many operators scan an invoice at once, no line is shipped beyond its quantity.
THEOREM LinesAreNotOverShipped == Spec => []NeverOverShipped
<1>1. IndCount => NeverOverShipped
  BY DEF IndCount
<1>2. QED
  BY <1>1, CountInit, CountStep, PTL DEF Spec

\* However many operators scan a return at once, it takes in no more than it declares.
THEOREM ReturnsKeepTheirQuota == Spec => []ReturnQuota
<1>1. IndCount => ReturnQuota
  BY DEF IndCount
<1>2. QED
  BY <1>1, CountInit, CountStep, PTL DEF Spec

\* A battery is out only on an invoice it was pre-billed for.
THEOREM BatteriesArePreBilled == Spec => []BatteryGate
<1>1. IndCount => BatteryGate
  BY DEF IndCount
<1>2. QED
  BY <1>1, CountInit, CountStep, PTL DEF Spec

\* Scans that keep within their lines keep within the invoice.
LEMMA LinesBoundInvoice ==
    ASSUME NEW S \in SUBSET Scan, IsFiniteSet(S), NEW i \in Invoices,
           \A l \in Lines : Cardinality({d \in S : d.line = l}) <= l.qty
    PROVE  Cardinality({d \in S : d.line.inv = i}) <= Required(i)
<1> DEFINE on(l) == {d \in S : d.line = l}
           of == {d \in S : d.line.inv = i}
           rank(l) == CHOOSE f : f \in Bijection(on(l), 1 .. Cardinality(on(l)))
           place == [d \in of |-> <<d.line, rank(d.line)[d]>>]
<1>1. ASSUME NEW l \in Lines
      PROVE  /\ rank(l) \in Bijection(on(l), 1 .. Cardinality(on(l)))
             /\ 1 .. Cardinality(on(l)) \subseteq 1 .. l.qty
  <2>1. IsFiniteSet(on(l))
    BY FS_Subset
  <2>2. Cardinality(on(l)) \in Nat /\ ExistsBijection(1 .. Cardinality(on(l)), on(l))
    BY <2>1, FS_CardinalityType
  <2>3. ExistsBijection(on(l), 1 .. Cardinality(on(l)))
    BY <2>2, Fun_ExistsBijSymmetric
  <2>4. rank(l) \in Bijection(on(l), 1 .. Cardinality(on(l)))
    BY <2>3 DEF ExistsBijection
  <2>5. l.qty \in Nat
    BY LinesAssumption
  <2>6. Cardinality(on(l)) <= l.qty
    OBVIOUS
  <2> HIDE DEF on
  <2>7. QED
    BY <2>2, <2>4, <2>5, <2>6
<1>2. ASSUME NEW d \in of
      PROVE  /\ d.line \in LinesOf(i) /\ d \in on(d.line)
             /\ rank(d.line)[d] \in 1 .. d.line.qty
  <2>1. d.line \in LinesOf(i) /\ d.line \in Lines /\ d \in on(d.line)
    BY DEF LinesOf, Scan
  <2> HIDE DEF on, rank
  <2>2. rank(d.line)[d] \in 1 .. Cardinality(on(d.line))
    BY <1>1, <2>1 DEF Bijection, Injection
  <2>3. QED
    BY <1>1, <2>1, <2>2
<1>3. place \in [of -> Ordered(i)]
  <2>1. ASSUME NEW d \in of PROVE place[d] \in {d.line} \X (1 .. d.line.qty)
    <3> HIDE DEF rank, of
    <3>1. QED
      BY <1>2
  <2>2. QED
    BY <1>2, <2>1 DEF Ordered
<1>4. ASSUME NEW d \in of, NEW e \in of, place[d] = place[e] PROVE d = e
  <2> HIDE DEF rank, of, on
  <2>1. d.line = e.line /\ rank(d.line)[d] = rank(d.line)[e]
    BY <1>4
  <2>2. d \in on(d.line) /\ e \in on(d.line) /\ d.line \in Lines
    BY <1>2, <2>1 DEF LinesOf
  <2>3. rank(d.line) \in Injection(on(d.line), 1 .. Cardinality(on(d.line)))
    BY <1>1, <2>2 DEF Bijection
  <2>4. QED
    BY <2>1, <2>2, <2>3, Fun_InjectionProperties
<1>5. place \in Injection(of, Ordered(i))
  <2> HIDE DEF place, of
  <2>1. QED
    BY <1>3, <1>4, Fun_IsInj
<1>6. QED
  BY <1>5, OrderedIsFinite, FS_Injection DEF Required

-----------------------------------------------------------------------------
(* The ledger.  When no return may hold foreign stock, every unit has one  *)
(* holder, a committed scan is a sale and a committed return takes a unit  *)
(* back; every other step of every request leaves the ledger alone.        *)

NoForeign ==
    /\ \A k \in Srns : srn[k] # None => ~srn[k].foreign
    /\ \A x \in srnScans : x.orig # None
    /\ \A c \in Clients : req[c].pc \in Returning => req[c].line # None

IndLedger == IndCount /\ NoForeign

\* Only a committed scan or return changes who holds a unit.
LEMMA OthersMoveNoUnit ==
    ASSUME NEW c \in Clients, Arrive(c) \/ Proceed(c) \/ Crash(c),
           ~CommitScan(c), ~CommitReturn(c)
    PROVE  UNCHANGED <<scans, srnScans>>
<1>1. CASE Arrive(c)
  BY <1>1 DEF Arrive, StartDispatch, ValidateScan, CheckPreBilling, LockForComplete, CreateSrn,
     LockForReturn, CorrectTag, CheckWarehouseEmpty, ReactivateWarehouse, stock, rows
<1>2. CASE Proceed(c)
  BY <1>2 DEF Proceed, FindDispatch, CountForStart, CountStock, CreateDispatch,
     RepointDispatch, SetTarget, ResumeDispatch, SeekShort, RaiseShort, LockForScan, PickLine,
     CompleteDispatch, InsertReturn, CommitPreBilling, DeactivateWarehouse, stock, rows
<1>3. CASE Crash(c)
  BY <1>3 DEF Crash, rows
<1>4. QED
  BY <1>1, <1>2, <1>3

LEMMA NoForeignInit == Init => NoForeign
BY DEF Init, NoForeign, Idle, Returning

\* The request of c is the only one that changes, and no SRN does.
LEMMA SrnsKeepNoForeign ==
    ASSUME NoForeign, IndType, NEW c \in Clients, UNCHANGED <<srn, srnScans>>,
           \A e \in Clients \ {c} : req'[e] = req[e],
           req'[c].pc \in Returning => req'[c].line # None
    PROVE  NoForeign'
BY DEF NoForeign

LEMMA NoForeignStep ==
    ASSUME TRUE \notin ForeignAnswers, IndLedger, Next
    PROVE  NoForeign'
<1> USE DEF IndLedger, IndCount, IndStock
<1>1. ASSUME NEW c \in Clients, Proceed(c), ~CommitReturn(c) PROVE NoForeign'
  <2>1. UNCHANGED <<srn, srnScans>>
    BY <1>1 DEF Proceed, FindDispatch, CountForStart, CountStock, CreateDispatch, RepointDispatch,
       SetTarget, ResumeDispatch, SeekShort, RaiseShort, LockForScan, PickLine, CommitScan,
       CompleteDispatch, InsertReturn, CommitPreBilling, DeactivateWarehouse, stock, rows
  <2>2. CASE InsertReturn(c)
    <3>1. /\ \A e \in Clients \ {c} : req'[e] = req[e]
          /\ req'[c].pc \in Returning => req'[c].line = req[c].line /\ req[c].pc \in Returning
      BY <2>2 DEF InsertReturn, EndTransaction, Finish, Idle, Returning, IndType, TypeOK, Request
    <3>2. QED
      BY <2>1, <3>1, SrnsKeepNoForeign DEF NoForeign
  <2>3. CASE LockForScan(c) \/ PickLine(c) \/ CommitScan(c)
    <3>1. /\ \A e \in Clients \ {c} : req'[e] = req[e]
          /\ req'[c].pc \notin Returning
      BY <2>3 DEF LockForScan, PickLine, CommitScan, EndTransaction, Finish, Idle, Returning,
         IndType, TypeOK, Request
    <3>2. QED
      BY <2>1, <3>1, SrnsKeepNoForeign
  <2>4. CASE ~InsertReturn(c) /\ ~LockForScan(c) /\ ~PickLine(c) /\ ~CommitScan(c)
    BY <1>1, <2>1, <2>4, ProceedLeavesLocks, SrnsKeepNoForeign
  <2>5. QED
    BY <2>2, <2>3, <2>4
<1>2. ASSUME NEW c \in Clients, CommitReturn(c) PROVE NoForeign'
  <2> DEFINE entry == [srn |-> req[c].srn, ser |-> req[c].ser, orig |-> req[c].line]
  <2>1. /\ UNCHANGED srn /\ srnScans' = srnScans \cup {entry}
        /\ \A e \in Clients \ {c} : req'[e] = req[e]
        /\ req'[c].pc \notin Returning
    BY <1>2 DEF CommitReturn, Finish, Idle, Returning, IndType, TypeOK
  <2>2. entry.orig # None
    BY <1>2 DEF CommitReturn, Returning, NoForeign
  <2> HIDE DEF entry
  <2>3. QED
    BY <2>1, <2>2 DEF NoForeign
<1>3. ASSUME NEW c \in Clients, Crash(c) PROVE NoForeign'
  <2>1. (\A e \in Clients \ {c} : req'[e] = req[e]) /\ req'[c].pc \notin Returning
    BY <1>3 DEF Crash, Finish, Idle, Returning, IndType, TypeOK
  <2>2. QED
    BY <1>3, <2>1, SrnsKeepNoForeign DEF Crash, rows
<1>4. ASSUME NEW c \in Clients, Arrive(c) PROVE NoForeign'
  <2>1. ASSUME NEW r, Begin(c, r), r.pc \in Returning => r.line # None, UNCHANGED rows
        PROVE  NoForeign'
    BY <2>1, SrnsKeepNoForeign DEF Begin, rows, IndType, TypeOK
  <2>2. ASSUME NEW k \in Srns, NEW w \in Warehouses, NEW i \in Invoices \cup {None},
               NEW q \in Quantities \cup {None}, NEW f \in ForeignAnswers,
               CreateSrn(c, k, w, i, q, f)
        PROVE  NoForeign'
    <3>1. f = FALSE
      BY InputAssumption
    <3>2. QED
      BY <2>2, <3>1 DEF CreateSrn, NoForeign, IndType, TypeOK
  <2>3. ASSUME NEW k \in Srns, NEW s \in Serials, NEW t \in Tags, LockForReturn(c, k, s, t)
        PROVE  NoForeign'
    <3>1. ~srn[k].foreign
      BY <2>3 DEF LockForReturn, NoForeign
    <3>2. PICK d \in OriginalScans(s) :
            Begin(c, [Idle EXCEPT !.pc = "returnLocked", !.srn = k, !.ser = s, !.tag = t,
                                  !.line = d.line])
      BY <2>3, <3>1 DEF LockForReturn
    <3>3. d.line # None
      BY NoneAssumption DEF OriginalScans, IndType, TypeOK, Scan
    <3>4. [Idle EXCEPT !.pc = "returnLocked", !.srn = k, !.ser = s, !.tag = t,
                       !.line = d.line].line = d.line
      BY DEF Idle
    <3>5. QED
      BY <2>1, <2>3, <3>2, <3>3, <3>4 DEF LockForReturn
  <2>4. ASSUME UNCHANGED <<srn, srnScans, req>> PROVE NoForeign'
    BY <2>4 DEF NoForeign
  <2>5. ASSUME NEW i \in Invoices, NEW s \in Serials, CheckPreBilling(c, i, s) PROVE NoForeign'
    <3>1. PICK line \in Lines : Begin(c, [Idle EXCEPT !.pc = "prebilling", !.ser = s, !.line = line])
      BY <2>5 DEF CheckPreBilling, LinesOf
    <3>2. [Idle EXCEPT !.pc = "prebilling", !.ser = s, !.line = line].pc \notin Returning
      BY DEF Idle, Returning
    <3>3. QED
      BY <2>1, <2>5, <3>1, <3>2 DEF CheckPreBilling
  <2>6. QED
    BY <1>4, <2>1, <2>2, <2>3, <2>4, <2>5
    DEF Arrive, StartDispatch, ValidateScan, LockForComplete, CorrectTag,
        CheckWarehouseEmpty, ReactivateWarehouse, Idle, Returning, stock
<1>5. QED
  BY <1>1, <1>2, <1>3, <1>4 DEF Next

\* Every unit has one holder.
LEMMA HolderIs ==
    ASSUME IndLedger, NEW s \in Serials
    PROVE  /\ \A d \in scans : d.ser = s => HolderOf(s) = d.line.inv
           /\ (\A d \in scans : d.ser # s) => HolderOf(s) = None
<1>1. s \notin Adopted
  BY DEF Adopted, IndLedger, NoForeign
<1>2. \A d, e \in scans : d.ser = s /\ e.ser = s => d = e
  BY <1>1 DEF IndLedger, IndCount, IndStock, SoldOnce
<1>3. QED
  BY <1>2 DEF HolderOf

\* ... and has one after the step.
LEMMA HolderIsNext ==
    ASSUME IndLedger', NEW s \in Serials
    PROVE  /\ \A d \in scans' : d.ser = s => HolderOf(s)' = d.line.inv
           /\ (\A d \in scans' : d.ser # s) => HolderOf(s)' = None
<1>1. s \notin Adopted'
  BY DEF Adopted, IndLedger, NoForeign
<1>2. \A d, e \in scans' : d.ser = s /\ e.ser = s => d = e
  BY <1>1 DEF IndLedger, IndCount, IndStock, SoldOnce
<1>3. QED
  BY <1>2 DEF HolderOf

LEMMA HolderInvoice ==
    ASSUME IndLedger, NEW d \in scans
    PROVE  d.line.inv \in Invoices /\ d.ser \in Serials
BY LinesAssumption DEF IndLedger, IndCount, IndStock, IndType, TypeOK, Scan

\* A unit keeps its holder in a step that leaves its scans as they are.
LEMMA HolderStays ==
    ASSUME IndLedger, IndLedger', NEW s \in Serials,
           \A d : d.ser = s => (d \in scans <=> d \in scans')
    PROVE  HolderOf(s)' = HolderOf(s)
<1>1. CASE \E d \in scans : d.ser = s
  BY <1>1, HolderIs, HolderIsNext
<1>2. CASE ~\E d \in scans : d.ser = s
  BY <1>2, HolderIs, HolderIsNext
<1>3. QED
  BY <1>1, <1>2

LEMMA LedgerInit == IndLedger /\ Init => Units!Init
<1> SUFFICES ASSUME IndLedger, Init PROVE Units!Init
  OBVIOUS
<1>1. \A s \in Serials : HolderOf(s) = None
  BY HolderIs DEF Init
<1>2. ReturnedSerials = {}
  BY DEF Init, ReturnedSerials
<1>3. QED
  BY <1>1, <1>2 DEF Units!Init

\* A committed scan sells a unit in the house to an invoice that has room for it.
LEMMA CommitScanSells ==
    ASSUME IndLedger, IndLedger', NEW c \in Clients, CommitScan(c), scans' # scans,
           NEW s \in Serials, s = req[c].ser, NEW i \in Invoices, i = req[c].inv
    PROVE  Units!Sell(s, i)
<1> DEFINE scan == [ser |-> s, line |-> req[c].line]
           held == {t \in Serials : HolderOf(t) = i}
           out == {d \in scans' : d.line.inv = i}
<1>1. /\ req[c].line.inv = i
      /\ scans' = scans \cup {scan} /\ serial[s].status = "IN_STOCK" /\ UNCHANGED srnScans
  BY ScanLined DEF CommitScan, StillInStock, IndLedger, IndCount, IndStock
<1>2. scan.ser = s /\ scan.line.inv = i
  BY <1>1
<1> HIDE DEF scan
<1>3. \A d \in scans : d.ser # s
  <2>1. s \notin Adopted
    BY DEF Adopted, IndLedger, NoForeign
  <2>2. QED
    BY <1>1, <2>1 DEF IndLedger, IndCount, IndStock, SoldOnce
<1>4. HolderOf(s) = None /\ HolderOf(s)' = i
  <2>1. HolderOf(s) = None
    BY <1>1, <1>3, HolderIs
  <2>2. HolderOf(s)' = scan.line.inv
    BY <1>1, <1>2, HolderIsNext
  <2>3. QED
    BY <1>2, <2>1, <2>2
<1>5. ASSUME NEW t \in Serials, t # s PROVE HolderOf(t)' = HolderOf(t)
  BY <1>1, <1>2, <1>5, HolderStays
<1>6. Cardinality(held) < Required(i)
  <2>1. \A l \in Lines : Cardinality({d \in scans' : d.line = l}) <= l.qty
    BY DEF IndLedger, IndCount, NeverOverShipped, CountScansForLine
  <2>2. IsFiniteSet(scans') /\ scans' \subseteq Scan
    BY DEF IndLedger, IndCount, IndStock, IndType, TypeOK
  <2>3. Cardinality(out) <= Required(i) /\ IsFiniteSet(out)
    <3>1. Cardinality(out) <= Required(i)
      BY <1>1, <2>1, <2>2, LinesBoundInvoice
    <3>2. QED
      BY <2>2, <3>1, FS_Subset
  <2> DEFINE unit == [d \in out |-> d.ser]
  <2>4. unit \in [out -> held \cup {s}]
    <3>1. ASSUME NEW d \in out PROVE d.ser \in held \cup {s}
      <4>1. CASE d = scan
        BY <1>2, <4>1
      <4>2. CASE d # scan
        <5>1. d \in scans /\ d.ser \in Serials /\ d.line.inv = i
          BY <1>1, <4>2, HolderInvoice
        <5>2. QED
          BY <5>1, HolderIs
      <4>3. QED
        BY <4>1, <4>2
    <3>2. QED
      BY <3>1
  <2>5. \A t \in held \cup {s} : \E d \in out : unit[d] = t
    <3>1. scan \in out /\ unit[scan] = s
      BY <1>1, <1>2
    <3>2. ASSUME NEW t \in held PROVE \E d \in out : unit[d] = t
      <4>1. PICK d \in scans : d.ser = t
        BY <1>1, NoneAssumption, HolderIs
      <4>2. d \in out
        BY <1>1, <4>1, HolderIs
      <4>3. QED
        BY <4>1, <4>2
    <3>3. QED
      BY <3>1, <3>2
  <2>6. unit \in Surjection(out, held \cup {s})
    <3> HIDE DEF unit, out, held
    <3>1. QED
      BY <2>4, <2>5, Fun_IsSurj
  <2>7. IsFiniteSet(held \cup {s}) /\ Cardinality(held \cup {s}) <= Cardinality(out)
    BY <2>3, <2>6, FS_Surjection
  <2>8. s \notin held
    BY <1>1, <1>4, NoneAssumption
  <2>9. IsFiniteSet(held)
    BY <2>7, FS_Subset
  <2>10. Cardinality(held \cup {s}) = Cardinality(held) + 1 /\ Cardinality(held) \in Nat
    BY <2>8, <2>9, FS_AddElement, FS_CardinalityType
  <2>11. Cardinality(out) \in Nat
    BY <2>3, FS_CardinalityType
  <2>12. Required(i) \in Nat
    BY <1>1, RequiredIsNat
  <2>13. QED
    BY <2>3, <2>7, <2>10, <2>11, <2>12
<1>7. {t \in Serials : [u \in Serials |-> HolderOf(u)][t] = i} = held
  OBVIOUS
<1>8. [t \in Serials |-> HolderOf(t)]' = [[t \in Serials |-> HolderOf(t)] EXCEPT ![s] = i]
  BY <1>4, <1>5
<1>9. UNCHANGED ReturnedSerials
  BY <1>1 DEF ReturnedSerials
<1>10. [j \in Invoices |-> Required(j)][i] = Required(i)
  BY <1>1
<1>11. [t \in Serials |-> HolderOf(t)][s] = None
  BY <1>4
<1>12. Cardinality(Units!HeldBy(i)) < [j \in Invoices |-> Required(j)][i]
  <2> HIDE DEF held
  <2>1. QED
    BY <1>6, <1>7, <1>10 DEF Units!HeldBy
<1>13. Units!Cardinality(Units!HeldBy(i)) = Cardinality(Units!HeldBy(i))
  BY DEF Units!Cardinality, Cardinality
<1>14. QED
  BY <1>8, <1>9, <1>11, <1>12, <1>13 DEF Units!Sell

\* A committed return takes back a unit that is out, for the only time in its life.
LEMMA CommitReturnTakesBack ==
    ASSUME IndLedger, IndLedger', NEW c \in Clients, CommitReturn(c),
           NEW s \in Serials, s = req[c].ser
    PROVE  Units!TakeBack(s)
<1> DEFINE line == req[c].line
           scan == [ser |-> s, line |-> line]
           entry == [srn |-> req[c].srn, ser |-> s, orig |-> line]
<1>1. req[c].pc = "returnInserted" /\ req[c].pc \in Returning
  BY DEF CommitReturn, Returning
<1>2. /\ s \notin ReturnedSerials /\ line # None
      /\ scan \in scans
  BY <1>1, ReturnInProgress
  DEF IndLedger, NoForeign, IndCount, IndStock, ReturnsGrounded, ReturnGrounded
<1>3. /\ srnScans' = srnScans \cup {entry}
      /\ scans' = scans \ {d \in scans : d.ser = s /\ d.line = line}
  BY DEF CommitReturn, ScanMarked
<1>4. scan.ser = s /\ scan.line = line /\ entry.ser = s
  OBVIOUS
<1> HIDE DEF scan, entry
<1>5. \A d \in scans' : d.ser # s
  <2>1. s \notin Adopted
    BY DEF Adopted, IndLedger, NoForeign
  <2>2. \A d \in scans : d.ser = s => d = scan
    BY <1>2, <1>4, <2>1 DEF IndLedger, IndCount, IndStock, SoldOnce
  <2>3. QED
    BY <1>3, <1>4, <2>2
<1>6. HolderOf(s) # None /\ HolderOf(s)' = None
  BY <1>2, <1>4, <1>5, HolderIs, HolderIsNext, HolderInvoice, NoneAssumption
<1>7. ASSUME NEW t \in Serials, t # s PROVE HolderOf(t)' = HolderOf(t)
  BY <1>3, <1>7, HolderStays
<1>8. ReturnedSerials' = ReturnedSerials \cup {s}
  BY <1>3, <1>4 DEF ReturnedSerials
<1>9. [t \in Serials |-> HolderOf(t)]' = [[t \in Serials |-> HolderOf(t)] EXCEPT ![s] = None]
  BY <1>6, <1>7
<1>10. QED
  BY <1>2, <1>6, <1>8, <1>9 DEF Units!TakeBack

LEMMA LedgerStep ==
    ASSUME IndLedger, IndLedger', [Next]_vars
    PROVE  [Units!Next]_<<[s \in Serials |-> HolderOf(s)], ReturnedSerials>>
<1>1. ASSUME UNCHANGED <<scans, srnScans>>
      PROVE  UNCHANGED <<[s \in Serials |-> HolderOf(s)], ReturnedSerials>>
  BY <1>1 DEF HolderOf, ReturnedSerials
<1>2. ASSUME NEW c \in Clients, CommitScan(c), scans' # scans PROVE Units!Next
  <2>1. req[c].ser \in Serials /\ req[c].inv \in Invoices
    BY <1>2, ScanLined DEF CommitScan, IndLedger, IndCount, IndStock
  <2>2. QED
    BY <1>2, <2>1, CommitScanSells DEF Units!Next
<1>3. ASSUME NEW c \in Clients, CommitReturn(c) PROVE Units!Next
  <2>1. req[c].ser \in Serials
    BY <1>3, ReturnInProgress DEF CommitReturn, Returning, IndLedger, IndCount, IndStock
  <2>2. QED
    BY <1>3, <2>1, CommitReturnTakesBack DEF Units!Next
<1>4. ASSUME NEW c \in Clients, CommitScan(c), scans' = scans PROVE UNCHANGED <<scans, srnScans>>
  BY <1>4 DEF CommitScan
<1>5. CASE UNCHANGED vars
  BY <1>1, <1>5 DEF vars
<1>6. CASE Next
  <2>1. PICK c \in Clients : Arrive(c) \/ Proceed(c) \/ Crash(c)
    BY <1>6 DEF Next
  <2>2. CASE CommitScan(c) \/ CommitReturn(c)
    BY <1>1, <1>2, <1>3, <1>4, <2>2
  <2>3. CASE ~CommitScan(c) /\ ~CommitReturn(c)
    BY <1>1, <2>1, <2>3, OthersMoveNoUnit
  <2>4. QED
    BY <2>2, <2>3
<1>7. QED
  BY <1>5, <1>6

\* Where no return may hold foreign stock, concurrent dispatches and returns are a ledger:
\* each unit has one holder, no invoice holds more than it orders, and a unit is taken
\* back once in its life.
THEOREM RequestsKeepTheLedger ==
    ASSUME TRUE \notin ForeignAnswers
    PROVE  Spec => ImplementsLedger
<1>1. Init => IndLedger
  BY CountInit, NoForeignInit DEF IndLedger
<1>2. IndLedger /\ [Next]_vars => IndLedger'
  <2>1. IndLedger /\ UNCHANGED vars => NoForeign'
    BY DEF vars, IndLedger, NoForeign
  <2>2. QED
    BY <2>1, CountStep, NoForeignStep DEF IndLedger
<1>3. QED
  BY <1>1, <1>2, LedgerInit, LedgerStep, PTL DEF Spec, ImplementsLedger, Units!Spec

-----------------------------------------------------------------------------
(* Statuses while requests overlap.  A request that holds a dispatch row   *)
(* has counted the scans under the lock, and only a return, which does not *)
(* take that lock, makes its count stale: until a unit of the invoice has  *)
(* come back, every status written is the one the scans call for.          *)

NothingBack(i) == \A d \in returned : d.line.inv # i
Counted(i) ==
    NothingBack(i) =>
        /\ invoiceStatus[i] = InvoiceStatusFor(i, CountScans(i))
        /\ \A c \in Clients : req[c].pc \in Holding /\ req[c].inv = i => req[c].count = CountScans(i)
AllCounted == \A i \in Invoices : Counted(i)

\* An invoice orders at least one unit, and no more than it orders is out.
LEMMA SomeAreRequired ==
    ASSUME NEW i \in Invoices
    PROVE  Required(i) \in Nat /\ Required(i) > 0
<1>1. PICK l \in Lines : l.inv = i
  BY LinesAssumption
<1>2. l.qty \in Nat /\ l.qty > 0 /\ 1 \in 1 .. l.qty
  BY <1>1, LinesAssumption
<1>3. <<l, 1>> \in Ordered(i)
  BY <1>1, <1>2 DEF Ordered, LinesOf
<1>4. Cardinality(Ordered(i)) # 0
  BY <1>3, OrderedIsFinite, FS_EmptySet
<1>5. QED
  BY <1>4, RequiredIsNat DEF Required

LEMMA CountsFit ==
    ASSUME IndCount, NEW i \in Invoices
    PROVE  /\ CountScans(i) \in Nat /\ CountScans(i) <= Required(i)
           /\ CountScans(i) = 0 <=> ScansOf(i) = {}
<1>1. IsFiniteSet(scans) /\ scans \subseteq Scan
  BY DEF IndCount, IndStock, IndType, TypeOK
<1>2. CountScans(i) <= Required(i)
  BY <1>1, LinesBoundInvoice DEF IndCount, NeverOverShipped, CountScansForLine, CountScans, ScansOf
<1>3. IsFiniteSet(ScansOf(i))
  BY <1>1, FS_Subset DEF ScansOf
<1>4. QED
  BY <1>1, <1>2, <1>3, CountsAreNat, FS_EmptySet DEF CountScans

LEMMA CountsStand ==
    ASSUME UNCHANGED scans
    PROVE  \A i : ScansOf(i)' = ScansOf(i) /\ CountScans(i)' = CountScans(i)
BY DEF ScansOf, CountScans

LEMMA FollowingIsExact ==
    ASSUME IndCount, NEW i \in Invoices
    PROVE  InvoiceStatusFor(i, CountScans(i)) = ExactStatus(i)
BY CountsFit, SomeAreRequired DEF InvoiceStatusFor, ExactStatus

\* What a committed scan does to the counts and the statuses, if it is not refused.
LEMMA CommitScanCounted ==
    ASSUME IndCount, NEW c \in Clients, CommitScan(c)
    PROVE  \/ UNCHANGED <<serial, scans, invoiceStatus>>
           \/ /\ serial' = [serial EXCEPT ![req[c].ser].status = "DISPATCHED"]
              /\ invoiceStatus' = [invoiceStatus EXCEPT
                     ![req[c].inv] = InvoiceStatusFor(req[c].inv, req[c].count + 1)]
              /\ \A j \in Invoices :
                     CountScans(j)' = IF j = req[c].inv THEN CountScans(j) + 1 ELSE CountScans(j)
<1> DEFINE i == req[c].inv
           s == req[c].ser
           scan == [ser |-> s, line |-> req[c].line]
<1>1. i \in Invoices /\ scan.line.inv = i
  BY ScanLined DEF CommitScan, IndCount, IndStock
<1>2. CASE /\ serial' = [serial EXCEPT ![s].status = "DISPATCHED"]
           /\ scans' = scans \cup {scan} /\ ~\E d \in ScansOf(i) : d.ser = s
           /\ invoiceStatus' = [invoiceStatus EXCEPT ![i] = InvoiceStatusFor(i, req[c].count + 1)]
  <2>1. scan.ser = s /\ scan \notin ScansOf(i)
    BY <1>2
  <2>2. IsFiniteSet(ScansOf(i))
    BY FS_Subset DEF IndCount, IndStock, IndType, ScansOf
  <2> HIDE DEF scan
  <2>3. Cardinality(ScansOf(i) \cup {scan}) = CountScans(i) + 1
    BY <2>1, <2>2, FS_AddElement DEF CountScans
  <2>4. \A j \in Invoices : {d \in scans' : d.line.inv = j} = IF j = i THEN ScansOf(i) \cup {scan} ELSE ScansOf(j)
    BY <1>1, <1>2 DEF ScansOf
  <2>5. \A j \in Invoices : CountScans(j)' = IF j = i THEN CountScans(j) + 1 ELSE CountScans(j)
    BY <2>3, <2>4 DEF CountScans, ScansOf
  <2>6. QED
    BY <1>2, <2>5
<1>3. QED
  BY <1>2 DEF CommitScan

LEMMA CountedInit == Init => AllCounted
<1> SUFFICES ASSUME Init, NEW i \in Invoices PROVE Counted(i)
  BY DEF AllCounted
<1>1. CountScans(i) = 0
  BY FS_EmptySet DEF Init, CountScans, ScansOf
<1>2. \A c \in Clients : req[c].pc = "idle"
  BY DEF Init, Idle
<1>3. QED
  BY <1>1, <1>2, SomeAreRequired DEF Init, Counted, InvoiceStatusFor, Holding

\* A step that moves no unit and no status, and counts what it goes on holding.
LEMMA QuietStepKeepsCounted ==
    ASSUME AllCounted, NEW c \in Clients, UNCHANGED <<scans, returned, invoiceStatus>>,
           \A e \in Clients \ {c} : req'[e] = req[e],
           req'[c].pc \in Holding =>
               \/ req'[c].count = CountScans(req'[c].inv)
               \/ req[c].pc \in Holding /\ req'[c].inv = req[c].inv /\ req'[c].count = req[c].count
    PROVE  AllCounted'
<1> SUFFICES ASSUME NEW i \in Invoices, NothingBack(i)' PROVE Counted(i)'
  BY DEF AllCounted, Counted
<1>1. NothingBack(i) /\ Counted(i)
  BY DEF NothingBack, AllCounted
<1>2. CountScans(i)' = CountScans(i)
  BY CountsStand
<1>3. invoiceStatus'[i] = InvoiceStatusFor(i, CountScans(i)')
  BY <1>1, <1>2 DEF Counted
<1>4. ASSUME NEW e \in Clients, req'[e].pc \in Holding, req'[e].inv = i PROVE req'[e].count = CountScans(i)
  BY <1>1, <1>4 DEF Counted
<1>5. InvoiceStatusFor(i, CountScans(i))' = InvoiceStatusFor(i, CountScans(i)')
  BY DEF InvoiceStatusFor
<1>6. QED
  BY <1>2, <1>3, <1>4, <1>5 DEF Counted

\* The scan is counted by the one request that holds the row.
LEMMA CommitScanKeepsCounted ==
    ASSUME IndCount, AllCounted, NEW c \in Clients, CommitScan(c)
    PROVE  AllCounted'
<1> DEFINE i == req[c].inv
<1>1. /\ req[c].pc \in Holding /\ req'[c].pc \notin Holding /\ \A e \in Clients \ {c} : req'[e] = req[e]
      /\ i \in Invoices /\ UNCHANGED returned
  BY ScanLined DEF CommitScan, Finish, Idle, Holding, IndCount, IndStock, IndType, TypeOK
<1>2. CASE UNCHANGED <<scans, invoiceStatus>>
  BY <1>1, <1>2, QuietStepKeepsCounted
<1>3. CASE /\ invoiceStatus' = [invoiceStatus EXCEPT ![i] = InvoiceStatusFor(i, req[c].count + 1)]
           /\ \A j \in Invoices : CountScans(j)' = IF j = i THEN CountScans(j) + 1 ELSE CountScans(j)
  <2> SUFFICES ASSUME NEW j \in Invoices, NothingBack(j)' PROVE Counted(j)'
    BY DEF AllCounted, Counted
  <2>1. NothingBack(j) /\ Counted(j)
    BY <1>1 DEF NothingBack, AllCounted
  <2>2. \A e \in Clients : e # c /\ req[e].pc \in Holding => req[e].inv # i
    BY <1>1 DEF IndCount, Locks, OneDispatchHolder
  <2>3. j = i => req[c].count = CountScans(i)
    BY <1>1, <2>1 DEF Counted
  <2>4. invoiceStatus'[j] = InvoiceStatusFor(j, CountScans(j)')
    BY <1>1, <1>3, <2>1, <2>3 DEF Counted, IndCount, IndStock, IndType, TypeOK
  <2>5. \A e \in Clients : req'[e].pc \in Holding /\ req'[e].inv = j => req'[e].count = CountScans(j)'
    BY <1>1, <1>3, <2>1, <2>2 DEF Counted
  <2>6. InvoiceStatusFor(j, CountScans(j))' = InvoiceStatusFor(j, CountScans(j)')
    BY DEF InvoiceStatusFor
  <2>7. QED
    BY <2>4, <2>5, <2>6 DEF Counted
<1>4. QED
  BY <1>2, <1>3, CommitScanCounted

LEMMA CompleteKeepsCounted ==
    ASSUME IndCount, AllCounted, NEW c \in Clients, CompleteDispatch(c)
    PROVE  AllCounted'
<1> DEFINE i == req[c].inv
<1>1. /\ req[c].pc \in Holding /\ req'[c].pc \notin Holding /\ \A e \in Clients \ {c} : req'[e] = req[e]
      /\ i \in Invoices /\ UNCHANGED <<scans, returned>>
  BY DEF CompleteDispatch, Finish, Idle, Holding, stock, IndCount, IndStock, IndType, TypeOK, Grounded
<1> SUFFICES ASSUME NEW j \in Invoices, NothingBack(j)' PROVE Counted(j)'
  BY DEF AllCounted, Counted
<1>2. NothingBack(j) /\ Counted(j) /\ CountScans(j)' = CountScans(j)
  BY <1>1, CountsStand DEF NothingBack, AllCounted
<1>3. invoiceStatus'[j] = InvoiceStatusFor(j, CountScans(j))
  BY <1>1, <1>2 DEF CompleteDispatch, Counted, IndCount, IndStock, IndType, TypeOK
<1>4. InvoiceStatusFor(j, CountScans(j))' = InvoiceStatusFor(j, CountScans(j)')
  BY DEF InvoiceStatusFor
<1>5. QED
  BY <1>1, <1>2, <1>3, <1>4 DEF Counted

\* A return of original stock leaves a scan that came back on its invoice, and nothing is
\* said of that invoice from then on.
LEMMA CommitReturnKeepsCounted ==
    ASSUME IndCount, AllCounted, NEW c \in Clients, CommitReturn(c)
    PROVE  AllCounted'
<1> DEFINE s == req[c].ser
           line == req[c].line
           scan == [ser |-> s, line |-> line]
<1>1. /\ req[c].pc = "returnInserted" /\ req'[c].pc \notin Holding
      /\ \A e \in Clients \ {c} : req'[e] = req[e]
      /\ line \in Lines \cup {None}
      /\ scans' = scans \ ScanMarked(s, line) /\ returned' = returned \cup ScanMarked(s, line)
      /\ invoiceStatus' = Reopened(line, req[c].count)
  BY DEF CommitReturn, Finish, Idle, Holding, IndCount, IndStock, IndType, TypeOK, Request
<1>2. CASE line = None
  <2>1. ScanMarked(s, line) = {}
    BY <1>2, NoneAssumption DEF ScanMarked, IndCount, IndStock, IndType, TypeOK, Scan
  <2>2. UNCHANGED <<scans, returned, invoiceStatus>>
    BY <1>1, <1>2, <2>1 DEF Reopened
  <2>3. QED
    BY <1>1, <2>2, QuietStepKeepsCounted
<1>3. CASE line # None
  <2>1. scan \in scans
    BY <1>1, <1>3 DEF Returning, IndCount, IndStock, ReturnsGrounded, ReturnGrounded
  <2>2. scan.ser = s /\ scan.line = line
    OBVIOUS
  <2>3. scan \in returned'
    BY <1>1, <2>1, <2>2 DEF ScanMarked
  <2> HIDE DEF scan
  <2> SUFFICES ASSUME NEW j \in Invoices, NothingBack(j)' PROVE Counted(j)'
    BY DEF AllCounted, Counted
  <2>4. j # line.inv /\ NothingBack(j) /\ Counted(j)
    BY <1>1, <2>2, <2>3 DEF NothingBack, AllCounted
  <2>5. {d \in scans' : d.line.inv = j} = ScansOf(j)
    BY <1>1, <2>4 DEF ScanMarked, ScansOf
  <2>6. CountScans(j)' = CountScans(j)
    BY <2>5 DEF CountScans, ScansOf
  <2>7. invoiceStatus'[j] = InvoiceStatusFor(j, CountScans(j))
    BY <1>1, <1>3, <2>4 DEF Reopened, Counted, IndCount, IndStock, IndType, TypeOK
  <2>8. InvoiceStatusFor(j, CountScans(j))' = InvoiceStatusFor(j, CountScans(j)')
    BY DEF InvoiceStatusFor
  <2>9. QED
    BY <1>1, <2>4, <2>6, <2>7, <2>8 DEF Counted
<1>4. QED
  BY <1>2, <1>3

LEMMA ProceedKeepsCounted ==
    ASSUME IndCount, AllCounted, NEW c \in Clients, Proceed(c),
           ~CommitScan(c), ~CompleteDispatch(c), ~CommitReturn(c)
    PROVE  AllCounted'
<1>0. req[c] \in Request /\ req \in [Clients -> Request]
  BY DEF IndCount, IndStock, IndType, TypeOK
<1>1. UNCHANGED <<scans, returned, invoiceStatus>>
  BY DEF Proceed, FindDispatch, CountForStart, CountStock, CreateDispatch, RepointDispatch, SetTarget,
     ResumeDispatch, SeekShort, RaiseShort, LockForScan, PickLine, InsertReturn, CommitPreBilling,
     DeactivateWarehouse, stock, rows
<1>2. CASE Finish(c)
  BY <1>0, <1>1, <1>2, QuietStepKeepsCounted DEF Finish, Idle, Holding
<1>3. CASE LockForScan(c) /\ ~Finish(c)
  <2>1. /\ \A e \in Clients \ {c} : req'[e] = req[e]
        /\ req'[c].inv = req[c].inv /\ req'[c].count = CountScans(req[c].inv)
    BY <1>0, <1>3 DEF LockForScan, EndTransaction, Request
  <2>2. QED
    BY <1>1, <2>1, QuietStepKeepsCounted
<1>4. CASE PickLine(c) /\ ~Finish(c)
  <2>1. /\ \A e \in Clients \ {c} : req'[e] = req[e]
        /\ req[c].pc \in Holding /\ req'[c].inv = req[c].inv /\ req'[c].count = req[c].count
    BY <1>0, <1>4 DEF PickLine, EndTransaction, Request, Holding
  <2>2. QED
    BY <1>1, <2>1, QuietStepKeepsCounted
<1>5. CASE InsertReturn(c) /\ ~Finish(c)
  <2>1. (\A e \in Clients \ {c} : req'[e] = req[e]) /\ req'[c].pc = "returnInserted"
    BY <1>0, <1>5 DEF InsertReturn, EndTransaction, Request
  <2>2. QED
    BY <1>1, <2>1, QuietStepKeepsCounted DEF Holding
<1>6. CASE ~LockForScan(c) /\ ~PickLine(c) /\ ~InsertReturn(c)
  BY <1>1, <1>6, ProceedLeavesLocks, QuietStepKeepsCounted DEF IndCount, IndStock
<1>7. QED
  BY <1>2, <1>3, <1>4, <1>5, <1>6

LEMMA ArriveKeepsCounted ==
    ASSUME IndCount, AllCounted, NEW c \in Clients, Arrive(c)
    PROVE  AllCounted'
<1>1. UNCHANGED <<scans, returned, invoiceStatus>>
  BY DEF Arrive, StartDispatch, ValidateScan, CheckPreBilling, LockForComplete, CreateSrn, LockForReturn,
     CorrectTag, CheckWarehouseEmpty, ReactivateWarehouse, stock, rows
<1>2. ASSUME NEW r, Begin(c, r), r.pc \in Holding => r.count = CountScans(r.inv) PROVE AllCounted'
  BY <1>1, <1>2, QuietStepKeepsCounted DEF Begin, IndCount, IndStock, IndType, TypeOK
<1>3. ASSUME UNCHANGED req, ~InFlight(c) PROVE AllCounted'
  BY <1>1, <1>3, QuietStepKeepsCounted DEF InFlight, Holding
<1>4. ASSUME NEW i \in Invoices, LockForComplete(c, i) PROVE AllCounted'
  <2> DEFINE r == [Idle EXCEPT !.pc = "completing", !.inv = i, !.count = CountScans(i),
                               !.target = dispatch[i].target]
  <2>1. Begin(c, r) /\ r.inv = i /\ r.count = CountScans(i)
    BY <1>4 DEF LockForComplete, Idle
  <2>2. QED
    BY <1>2, <2>1
<1>5. ASSUME NEW i \in Invoices, NEW s \in Serials, CheckPreBilling(c, i, s) PROVE AllCounted'
  <2> DEFINE r(line) == [Idle EXCEPT !.pc = "prebilling", !.ser = s, !.line = line]
  <2>1. PICK line : Begin(c, r(line))
    BY <1>5 DEF CheckPreBilling
  <2>2. r(line).pc \notin Holding
    BY DEF Idle, Holding
  <2>3. QED
    BY <1>2, <2>1, <2>2
<1>6. ASSUME NEW k \in Srns, NEW s \in Serials, NEW t \in Tags, LockForReturn(c, k, s, t) PROVE AllCounted'
  <2> DEFINE r(line) == [Idle EXCEPT !.pc = "returnLocked", !.srn = k, !.ser = s, !.tag = t, !.line = line]
  <2>1. PICK line : Begin(c, r(line))
    BY <1>6 DEF LockForReturn
  <2>2. r(line).pc \notin Holding
    BY DEF Idle, Holding
  <2>3. QED
    BY <1>2, <2>1, <2>2
<1>7. QED
  BY <1>2, <1>3, <1>4, <1>5, <1>6
  DEF Arrive, StartDispatch, ValidateScan, CreateSrn, CorrectTag, CheckWarehouseEmpty,
      ReactivateWarehouse, Idle, Holding

LEMMA CountedStep == IndCount /\ AllCounted /\ [Next]_vars => AllCounted'
<1> SUFFICES ASSUME IndCount, AllCounted, [Next]_vars PROVE AllCounted'
  OBVIOUS
<1>1. CASE UNCHANGED vars
  <2>1. ASSUME NEW i \in Invoices PROVE Counted(i)'
    <3>1. CountScans(i)' = CountScans(i) /\ NothingBack(i)' = NothingBack(i) /\ Counted(i)
      BY <1>1, CountsStand DEF vars, NothingBack, AllCounted
    <3>2. InvoiceStatusFor(i, CountScans(i))' = InvoiceStatusFor(i, CountScans(i))
      BY <3>1 DEF InvoiceStatusFor
    <3>3. QED
      BY <1>1, <3>1, <3>2 DEF vars, Counted
  <2>2. QED
    BY <2>1 DEF AllCounted
<1>2. ASSUME NEW c \in Clients, Proceed(c) PROVE AllCounted'
  BY <1>2, CommitScanKeepsCounted, CompleteKeepsCounted, CommitReturnKeepsCounted, ProceedKeepsCounted
<1>3. ASSUME NEW c \in Clients, Crash(c) PROVE AllCounted'
  BY <1>3, QuietStepKeepsCounted DEF Crash, Finish, Idle, Holding, rows, IndCount, IndStock, IndType, TypeOK
<1>4. QED
  BY <1>1, <1>2, <1>3, ArriveKeepsCounted DEF Next

\* However scans and completions of an invoice overlap, its status is the one its scans call
\* for, until a unit of it comes back.
THEOREM StatusesFollowUntilReturn == Spec => []StatusUntilReturn
<1>1. IndCount /\ AllCounted => StatusUntilReturn
  BY FollowingIsExact DEF AllCounted, Counted, NothingBack, StatusUntilReturn
<1>2. IndCount /\ AllCounted /\ [Next]_vars => (IndCount /\ AllCounted)'
  BY CountStep, CountedStep
<1>3. QED
  BY <1>1, <1>2, CountInit, CountedInit, PTL DEF Spec

-----------------------------------------------------------------------------
(* Checks that overlap.  An open SHORT is looked for, and the commits of a *)
(* line are counted, before the row is written: the requests that have     *)
(* passed the check and not written yet may each add one to what it        *)
(* compared, and no more of them are under way than there are clients.     *)

Raising(i) == {c \in Clients : req[c].pc = "raisingShort" /\ req[c].inv = i}
Committing(l) == {c \in Clients : req[c].pc = "prebilling" /\ req[c].line = l}
Overlap == Cardinality(Clients)

ShortsFit == \A i \in Invoices : short[i] + Cardinality(Raising(i)) <= Overlap
PreBillingsFit ==
    /\ IsFiniteSet(prebilled)
    /\ \A l \in Lines : Cardinality(PreBilledOn(l)) + Cardinality(Committing(l)) < l.qty + Overlap
ChecksFit == ShortsFit /\ PreBillingsFit

\* Sets of requests are finite, and no larger than the clients.
LEMMA RequestsAreFew ==
    ASSUME NEW S \in SUBSET Clients
    PROVE  IsFiniteSet(S) /\ Cardinality(S) \in Nat /\ Overlap \in Nat /\ Cardinality(S) <= Overlap
BY ClientsAssumption, FS_Subset, FS_CardinalityType DEF Overlap

LEMMA PreBilledIsFinite ==
    ASSUME PreBillingsFit, NEW l
    PROVE  IsFiniteSet(PreBilledOn(l)) /\ Cardinality(PreBilledOn(l)) \in Nat
BY FS_Subset, FS_CardinalityType DEF PreBillingsFit, PreBilledOn

LEMMA ChecksInit == Init => ChecksFit
<1> SUFFICES ASSUME Init PROVE ChecksFit
  OBVIOUS
<1>1. \A c \in Clients : req[c].pc = "idle"
  BY DEF Init, Idle
<1>2. Overlap \in Nat
  BY RequestsAreFew
<1>3. ShortsFit
  <2>1. \A i \in Invoices : Raising(i) = {} /\ short[i] = 0
    BY <1>1 DEF Init, Raising
  <2>2. QED
    BY <1>2, <2>1, FS_EmptySet DEF ShortsFit
<1>4. PreBillingsFit
  <2>1. ASSUME NEW l \in Lines
        PROVE  PreBilledOn(l) = {} /\ Committing(l) = {} /\ l.qty \in Nat /\ l.qty > 0
    BY <1>1, LinesAssumption DEF Init, PreBilledOn, Committing
  <2>2. ASSUME NEW l \in Lines PROVE Cardinality(PreBilledOn(l)) + Cardinality(Committing(l)) < l.qty + Overlap
    <3>1. Cardinality(PreBilledOn(l)) = 0 /\ Cardinality(Committing(l)) = 0
      BY <2>1, FS_EmptySet
    <3>2. QED
      BY <1>2, <2>1, <3>1
  <2>3. QED
    BY <2>2, FS_EmptySet DEF Init, PreBillingsFit
<1>5. QED
  BY <1>3, <1>4 DEF ChecksFit

\* A step of c that writes neither and passes neither check.
LEMMA UncheckedStepFits ==
    ASSUME IndType, ChecksFit, NEW c \in Clients, UNCHANGED <<short, prebilled>>,
           \A e \in Clients \ {c} : req'[e] = req[e],
           req'[c].pc \in {"raisingShort", "prebilling"} => req'[c] = req[c]
    PROVE  ChecksFit'
<1>1. \A i : Raising(i)' \subseteq Raising(i)
  BY DEF Raising
<1>2. \A l : Committing(l)' \subseteq Committing(l) /\ PreBilledOn(l)' = PreBilledOn(l)
  BY DEF Committing, PreBilledOn
<1>3. \A i : Raising(i) \subseteq Clients /\ Committing(i) \subseteq Clients
  BY DEF Raising, Committing
<1>4. \A i : Cardinality(Raising(i)') <= Cardinality(Raising(i)) /\ Cardinality(Raising(i)') \in Nat
                /\ Cardinality(Raising(i)) \in Nat
  BY <1>1, <1>3, RequestsAreFew, FS_Subset, FS_CardinalityType
<1>5. \A l : Cardinality(Committing(l)') <= Cardinality(Committing(l)) /\ Cardinality(Committing(l)') \in Nat
                /\ Cardinality(Committing(l)) \in Nat
  BY <1>2, <1>3, RequestsAreFew, FS_Subset, FS_CardinalityType
<1>6. Overlap' = Overlap /\ Overlap \in Nat
  BY RequestsAreFew DEF Overlap
<1>7. ShortsFit'
  BY <1>4, <1>6 DEF ChecksFit, ShortsFit, IndType, TypeOK
<1>8. PreBillingsFit'
  <2>1. ASSUME NEW l \in Lines PROVE Cardinality(PreBilledOn(l)') + Cardinality(Committing(l)') < l.qty + Overlap
    <3>1. Cardinality(PreBilledOn(l)) \in Nat /\ l.qty \in Nat
      BY PreBilledIsFinite, LinesAssumption DEF ChecksFit
    <3>2. Cardinality(PreBilledOn(l)) + Cardinality(Committing(l)) < l.qty + Overlap
      BY DEF ChecksFit, PreBillingsFit
    <3>3. QED
      BY <1>2, <1>5, <1>6, <3>1, <3>2
  <2>2. QED
    BY <1>6, <2>1 DEF ChecksFit, PreBillingsFit
<1>9. QED
  BY <1>7, <1>8 DEF ChecksFit

\* No SHORT is open when a request sets out to raise one.
LEMMA SeekShortFits ==
    ASSUME IndType, ChecksFit, NEW c \in Clients, SeekShort(c)
    PROVE  ChecksFit'
<1>0. PICK j \in Invoices : j = req[c].inv
  BY DEF SeekShort, IndType, Grounded, Starting
<1>1. UNCHANGED rows /\ req[c].pc = "seekingShort"
      /\ req \in [Clients -> Request] /\ short \in [Invoices -> Nat]
  BY DEF SeekShort, IndType, TypeOK
<1>2. CASE Finish(c)
  BY <1>1, <1>2, UncheckedStepFits DEF Finish, Idle, rows
<1>3. CASE ~Finish(c)
  <2>1. /\ short[j] = 0
        /\ req'[c].pc = "raisingShort" /\ req'[c].inv = j
        /\ \A e \in Clients \ {c} : req'[e] = req[e]
    BY <1>0, <1>1, <1>3 DEF SeekShort, OpenShort, Goto, Request
  <2>2. \A i : i # j => Raising(i)' = Raising(i)
    BY <1>1, <2>1 DEF Raising
  <2>3. Raising(j)' \subseteq Clients
    BY DEF Raising
  <2>4. /\ Cardinality(Raising(j)') <= Overlap /\ Cardinality(Raising(j)') \in Nat
        /\ Overlap \in Nat /\ Overlap' = Overlap
    BY <2>3, RequestsAreFew DEF Overlap
  <2>5. ShortsFit'
    <3> SUFFICES ASSUME NEW i \in Invoices PROVE short[i] + Cardinality(Raising(i)') <= Overlap
      BY <1>1, <2>4 DEF ShortsFit, rows
    <3>1. CASE i = j
      BY <2>1, <2>4, <3>1
    <3>2. CASE i # j
      BY <2>2, <3>2 DEF ChecksFit, ShortsFit
    <3>3. QED
      BY <3>1, <3>2
  <2>6. \A l : Committing(l)' = Committing(l) /\ PreBilledOn(l)' = PreBilledOn(l)
    BY <1>1, <2>1 DEF Committing, PreBilledOn, rows
  <2>7. QED
    BY <1>1, <2>4, <2>5, <2>6 DEF ChecksFit, PreBillingsFit, rows
<1>4. QED
  BY <1>2, <1>3

\* The request that raises a SHORT is one fewer about to.
LEMMA RaiseShortFits ==
    ASSUME IndType, ChecksFit, NEW c \in Clients, RaiseShort(c)
    PROVE  ChecksFit'
<1>0. PICK i \in Invoices : i = req[c].inv
  BY DEF RaiseShort, IndType, Grounded, Starting
<1>1. /\ short \in [Invoices -> Nat] /\ req \in [Clients -> Request]
      /\ req[c].pc = "raisingShort" /\ req'[c].pc = "idle"
      /\ \A e \in Clients \ {c} : req'[e] = req[e]
      /\ UNCHANGED prebilled /\ short' = [short EXCEPT ![i] = @ + 1]
  BY <1>0 DEF RaiseShort, Finish, Idle, IndType, TypeOK
<1>2. c \in Raising(i) /\ Raising(i) \subseteq Clients
  BY <1>0, <1>1 DEF Raising
<1>3. Raising(i)' = Raising(i) \ {c} /\ \A j : j # i => Raising(j)' = Raising(j)
  BY <1>0, <1>1 DEF Raising
<1>4. /\ Cardinality(Raising(i)) \in Nat /\ IsFiniteSet(Raising(i))
      /\ Overlap \in Nat /\ Overlap' = Overlap
  BY <1>2, RequestsAreFew DEF Overlap
<1>5. Cardinality(Raising(i) \ {c}) = Cardinality(Raising(i)) - 1
  BY <1>2, <1>4, FS_RemoveElement
<1>6. ShortsFit'
  <2>1. SUFFICES ASSUME NEW j \in Invoices PROVE short'[j] + Cardinality(Raising(j)') <= Overlap
    BY <1>4 DEF ShortsFit
  <2>2. short[j] + Cardinality(Raising(j)) <= Overlap /\ short[j] \in Nat
    BY <1>1 DEF ChecksFit, ShortsFit
  <2>3. CASE j = i
    <3>1. short'[i] = short[i] + 1 /\ Cardinality(Raising(i)') = Cardinality(Raising(i)) - 1
      BY <1>1, <1>3, <1>5
    <3>2. short'[i] + Cardinality(Raising(i)') <= Overlap
      BY <1>4, <2>2, <2>3, <3>1
    <3>3. QED
      BY <2>3, <3>2
  <2>4. CASE j # i
    BY <1>1, <1>3, <2>2, <2>4
  <2>5. QED
    BY <2>3, <2>4
<1>7. \A l : Committing(l)' = Committing(l) /\ PreBilledOn(l)' = PreBilledOn(l)
  BY <1>1 DEF Committing, PreBilledOn
<1>8. QED
  BY <1>1, <1>4, <1>6, <1>7 DEF ChecksFit, PreBillingsFit

\* The line is below its cap when a request sets out to commit a battery to it.
LEMMA CheckPreBillingFits ==
    ASSUME IndType, ChecksFit, NEW c \in Clients, NEW j \in Invoices, NEW s \in Serials,
           CheckPreBilling(c, j, s)
    PROVE  ChecksFit'
<1> DEFINE r(line) == [Idle EXCEPT !.pc = "prebilling", !.ser = s, !.line = line]
<1>1. PICK line \in Lines : Begin(c, r(line)) /\ ~CapReached(line)
  BY DEF CheckPreBilling, LinesOf
<1>2. r(line).pc = "prebilling" /\ r(line).line = line
  BY DEF Idle
<1> HIDE DEF r
<1>3. /\ UNCHANGED rows /\ req[c].pc = "idle" /\ req'[c] = r(line)
      /\ \A e \in Clients \ {c} : req'[e] = req[e]
  BY <1>1 DEF CheckPreBilling, Begin, InFlight, IndType, TypeOK
<1>4. /\ \A i : Raising(i)' = Raising(i)
      /\ \A l : l # line => Committing(l)' = Committing(l)
      /\ \A l : PreBilledOn(l)' = PreBilledOn(l)
  BY <1>2, <1>3 DEF Raising, Committing, PreBilledOn, rows
<1>5. Overlap' = Overlap
  BY DEF Overlap
<1>6. ShortsFit'
  BY <1>3, <1>4, <1>5 DEF ChecksFit, ShortsFit, rows
<1>7. Cardinality(PreBilledOn(line)) + Cardinality(Committing(line)') < line.qty + Overlap
  <2>1. Cardinality(PreBilledOn(line)) \in Nat /\ line.qty \in Nat
    BY PreBilledIsFinite, LinesAssumption DEF ChecksFit
  <2>2. Cardinality(PreBilledOn(line)) < line.qty
    BY <1>1, <2>1 DEF CapReached
  <2>3. Committing(line)' \subseteq Clients
    BY DEF Committing
  <2>4. Cardinality(Committing(line)') \in Nat /\ Overlap \in Nat /\ Cardinality(Committing(line)') <= Overlap
    BY <2>3, RequestsAreFew
  <2>5. QED
    BY <2>1, <2>2, <2>4
<1>8. PreBillingsFit'
  <2>1. ASSUME NEW l \in Lines PROVE Cardinality(PreBilledOn(l)') + Cardinality(Committing(l)') < l.qty + Overlap
    <3>1. CASE l = line
      <4>1. Committing(l)' = Committing(line)'
        BY <3>1
      <4>2. QED
        BY <1>4, <1>7, <3>1, <4>1
    <3>2. CASE l # line
      BY <1>4, <3>2 DEF ChecksFit, PreBillingsFit
    <3>3. QED
      BY <3>1, <3>2
  <2>2. QED
    BY <1>3, <1>5, <2>1 DEF ChecksFit, PreBillingsFit, rows
<1>9. QED
  BY <1>6, <1>8 DEF ChecksFit

\* The request that commits a battery is one fewer about to.
LEMMA CommitPreBillingFits ==
    ASSUME IndType, ChecksFit, NEW c \in Clients, CommitPreBilling(c)
    PROVE  ChecksFit'
<1>0. PICK line \in Lines : line = req[c].line
  BY DEF CommitPreBilling, IndType, Grounded
<1> DEFINE entry == [ser |-> req[c].ser, line |-> line]
<1>1. /\ req[c].pc = "prebilling" /\ req'[c].pc = "idle"
      /\ \A e \in Clients \ {c} : req'[e] = req[e]
      /\ UNCHANGED short
      /\ prebilled' = prebilled \/ prebilled' = prebilled \cup {entry}
  BY <1>0 DEF CommitPreBilling, Finish, Idle, IndType, TypeOK
<1>2. entry.line = line
  OBVIOUS
<1> HIDE DEF entry
<1>3. \A i : Raising(i)' = Raising(i)
  BY <1>1 DEF Raising
<1>4. Overlap' = Overlap /\ Overlap \in Nat
  BY RequestsAreFew DEF Overlap
<1>5. ShortsFit'
  BY <1>1, <1>3, <1>4 DEF ChecksFit, ShortsFit
<1>6. /\ Committing(line)' = Committing(line) \ {c} /\ c \in Committing(line) /\ Committing(line) \subseteq Clients
      /\ \A l : l # line => Committing(l)' = Committing(l)
  BY <1>0, <1>1 DEF Committing
<1>7. /\ PreBilledOn(line)' = PreBilledOn(line) \/ PreBilledOn(line)' = PreBilledOn(line) \cup {entry}
      /\ \A l : l # line => PreBilledOn(l)' = PreBilledOn(l)
  BY <1>1, <1>2 DEF PreBilledOn
<1>8. /\ Cardinality(Committing(line)) \in Nat
      /\ Cardinality(Committing(line)') = Cardinality(Committing(line)) - 1
  BY <1>6, RequestsAreFew, FS_RemoveElement
<1>9. /\ Cardinality(PreBilledOn(line)) \in Nat
      /\ Cardinality(PreBilledOn(line)') \in {Cardinality(PreBilledOn(line)), Cardinality(PreBilledOn(line)) + 1}
  BY <1>7, PreBilledIsFinite, FS_AddElement DEF ChecksFit
<1>10. PreBillingsFit'
  <2>1. IsFiniteSet(prebilled')
    BY <1>1, FS_AddElement DEF ChecksFit, PreBillingsFit
  <2>2. ASSUME NEW l \in Lines PROVE Cardinality(PreBilledOn(l)') + Cardinality(Committing(l)') < l.qty + Overlap
    <3>1. Cardinality(PreBilledOn(l)) + Cardinality(Committing(l)) < l.qty + Overlap /\ l.qty \in Nat
      BY LinesAssumption DEF ChecksFit, PreBillingsFit
    <3>2. CASE l = line
      <4>1. Cardinality(PreBilledOn(line)') + Cardinality(Committing(line)') < line.qty + Overlap
        BY <1>4, <1>8, <1>9, <3>1, <3>2
      <4>2. QED
        BY <3>2, <4>1
    <3>3. CASE l # line
      BY <1>6, <1>7, <3>1, <3>3
    <3>4. QED
      BY <3>2, <3>3
  <2>3. QED
    BY <1>4, <2>1, <2>2 DEF PreBillingsFit
<1>11. QED
  BY <1>5, <1>10 DEF ChecksFit

\* Every other statement of a request leads to none of the two writes.
LEMMA ProceedUnchecked ==
    ASSUME IndType, NEW c \in Clients, Proceed(c), ~SeekShort(c), ~RaiseShort(c), ~CommitPreBilling(c)
    PROVE  /\ UNCHANGED <<short, prebilled>> /\ \A e \in Clients \ {c} : req'[e] = req[e]
           /\ req'[c].pc \notin {"raisingShort", "prebilling"}
<1>0. req[c] \in Request /\ req \in [Clients -> Request]
  BY DEF IndType, TypeOK
<1>1. UNCHANGED <<short, prebilled>>
  BY DEF Proceed, FindDispatch, CountForStart, CountStock, CreateDispatch, RepointDispatch, SetTarget,
     ResumeDispatch, LockForScan, PickLine, CommitScan, CompleteDispatch, InsertReturn, CommitReturn,
     DeactivateWarehouse, rows
<1>2. \A e \in Clients \ {c} : req'[e] = req[e]
  BY <1>0 DEF Proceed, FindDispatch, CountForStart, CountStock, CreateDispatch, RepointDispatch, SetTarget,
     ResumeDispatch, LockForScan, PickLine, CommitScan, CompleteDispatch, InsertReturn, CommitReturn,
     DeactivateWarehouse, AfterTarget, Goto, Finish, EndTransaction
<1>3. CASE Finish(c)
  BY <1>0, <1>1, <1>2, <1>3 DEF Finish, Idle
<1>4. CASE (FindDispatch(c) \/ CountForStart(c) \/ CountStock(c)) /\ ~Finish(c)
  <2>1. req'[c].pc \in {"counting", "stocking", "creating", "repointing", "targeting"}
    BY <1>0, <1>4 DEF FindDispatch, CountForStart, CountStock, Request
  <2>2. QED
    BY <1>1, <1>2, <2>1
<1>5. CASE (CreateDispatch(c) \/ RepointDispatch(c) \/ SetTarget(c) \/ ResumeDispatch(c)) /\ ~Finish(c)
  <2>1. req'[c].pc \in {"targeting", "resuming", "seekingShort"}
    BY <1>0, <1>5 DEF CreateDispatch, RepointDispatch, SetTarget, ResumeDispatch, AfterTarget, Goto, Request
  <2>2. QED
    BY <1>1, <1>2, <2>1
<1>6. CASE (LockForScan(c) \/ PickLine(c) \/ InsertReturn(c)) /\ ~Finish(c)
  <2>1. req'[c].pc \in {"scanLocked", "scanLined", "returnInserted"}
    BY <1>0, <1>6 DEF LockForScan, PickLine, InsertReturn, EndTransaction, Request
  <2>2. QED
    BY <1>1, <1>2, <2>1
<1>7. QED
  BY <1>3, <1>4, <1>5, <1>6
  DEF Proceed, CommitScan, CompleteDispatch, CommitReturn, DeactivateWarehouse

LEMMA ArriveFits ==
    ASSUME IndType, ChecksFit, NEW c \in Clients, Arrive(c)
    PROVE  ChecksFit'
<1>1. ASSUME NEW r, Begin(c, r), r.pc \notin {"raisingShort", "prebilling"}, UNCHANGED <<short, prebilled>>
      PROVE  ChecksFit'
  BY <1>1, UncheckedStepFits DEF Begin, IndType, TypeOK
<1>2. ASSUME UNCHANGED <<short, prebilled, req>> PROVE ChecksFit'
  BY <1>2, UncheckedStepFits
<1>3. ASSUME NEW k \in Srns, NEW s \in Serials, NEW t \in Tags, LockForReturn(c, k, s, t) PROVE ChecksFit'
  <2> DEFINE r(line) == [Idle EXCEPT !.pc = "returnLocked", !.srn = k, !.ser = s, !.tag = t, !.line = line]
  <2>1. PICK line : Begin(c, r(line))
    BY <1>3 DEF LockForReturn
  <2>2. r(line).pc = "returnLocked"
    BY DEF Idle
  <2>3. QED
    BY <1>1, <1>3, <2>1, <2>2 DEF LockForReturn, rows
<1>4. QED
  BY <1>1, <1>2, <1>3, CheckPreBillingFits
  DEF Arrive, StartDispatch, ValidateScan, LockForComplete, CreateSrn, CorrectTag, CheckWarehouseEmpty,
      ReactivateWarehouse, Idle, rows

LEMMA ChecksStep == IndType /\ ChecksFit /\ [Next]_vars => ChecksFit'
<1> SUFFICES ASSUME IndType, ChecksFit, [Next]_vars PROVE ChecksFit'
  OBVIOUS
<1>1. CASE UNCHANGED vars
  BY <1>1 DEF vars, ChecksFit, ShortsFit, PreBillingsFit, Raising, Committing, PreBilledOn, Overlap
<1>2. ASSUME NEW c \in Clients, Proceed(c) PROVE ChecksFit'
  BY <1>2, SeekShortFits, RaiseShortFits, CommitPreBillingFits, ProceedUnchecked, UncheckedStepFits
<1>3. ASSUME NEW c \in Clients, Crash(c) PROVE ChecksFit'
  BY <1>3, UncheckedStepFits DEF Crash, Finish, Idle, rows, IndType, TypeOK
<1>4. QED
  BY <1>1, <1>2, <1>3, ArriveFits DEF Next

\* However many requests overlap, each pushes a limit that is checked before it is used by at
\* most one: one SHORT per dispatch and the quantity of a line when none do.
THEOREM OverlapsPushLimitsByOne == Spec => []OvershootBounded
<1>1. ASSUME IndType, ChecksFit PROVE OvershootBounded
  <2>1. ASSUME NEW i \in Invoices PROVE short[i] <= Cardinality(Clients)
    <3>1. Raising(i) \subseteq Clients /\ short[i] \in Nat /\ short[i] + Cardinality(Raising(i)) <= Overlap
      BY <1>1 DEF Raising, ChecksFit, ShortsFit, IndType, TypeOK
    <3>2. QED
      BY <3>1, RequestsAreFew DEF Overlap
  <2>2. ASSUME NEW l \in Lines PROVE Cardinality(PreBilledOn(l)) < l.qty + Cardinality(Clients)
    <3>1. /\ Committing(l) \subseteq Clients /\ Cardinality(PreBilledOn(l)) \in Nat /\ l.qty \in Nat
          /\ Cardinality(PreBilledOn(l)) + Cardinality(Committing(l)) < l.qty + Overlap
      BY <1>1, PreBilledIsFinite, LinesAssumption DEF Committing, ChecksFit, PreBillingsFit
    <3>2. QED
      BY <3>1, RequestsAreFew DEF Overlap
  <2>3. QED
    BY <2>1, <2>2 DEF OvershootBounded
<1>2. IndType /\ ChecksFit /\ [Next]_vars => (IndType /\ ChecksFit)'
  BY TypeStep, ChecksStep
<1>3. QED
  BY <1>1, <1>2, TypeInit, ChecksInit, PTL DEF Spec

-----------------------------------------------------------------------------
(* One request at a time.  With one client nothing comes between what a    *)
(* request has read and what it writes from it (Fresh); so the statuses    *)
(* and the warehouses agree with the units.                                *)

StatusesFollow == \A i \in Invoices : invoiceStatus[i] = InvoiceStatusFor(i, CountScans(i))
Fresh(c) ==
    /\ req[c].pc = "stocking" /\ req[c].found # None => req[c].count = CountScans(req[c].inv)
    /\ req[c].pc = "repointing" => ScansOf(req[c].inv) = {}
    /\ req[c].pc \in Holding => req[c].count = CountScans(req[c].inv)
    /\ req[c].pc \in Scanning => req[c].tag = serial[req[c].ser].tag
    /\ req[c].pc = "scanLined" => req[c].tag \notin Held
    /\ req[c].pc \in Returning => srn[req[c].srn].wh \in activeWh
    /\ req[c].pc = "returnInserted" /\ req[c].line # None => req[c].count = Recount(req[c].ser, req[c].line)
    /\ req[c].pc = "deactivating" => WarehouseEmpty(req[c].wh)
IndAlone == StatusesFollow /\ ClosedIsEmpty /\ \A c \in Clients : Fresh(c)

LEMMA AloneInit == Init => IndAlone
<1> SUFFICES ASSUME Init PROVE IndAlone
  OBVIOUS
<1>1. \A i \in Invoices : CountScans(i) = 0
  BY FS_EmptySet DEF Init, CountScans, ScansOf
<1>2. StatusesFollow
  BY <1>1, SomeAreRequired DEF Init, StatusesFollow, InvoiceStatusFor
<1>3. ClosedIsEmpty
  BY DEF Init, ClosedIsEmpty
<1>4. \A c \in Clients : req[c].pc = "idle"
  BY DEF Init, Idle
<1>5. QED
  BY <1>2, <1>3, <1>4 DEF IndAlone, Fresh, Holding, Scanning, Returning

\* A request that has read nothing it relies on later.
LEMMA NothingRead ==
    ASSUME NEW c \in Clients,
           req'[c].pc \in {"idle", "finding", "counting", "creating", "targeting", "resuming",
                           "seekingShort", "raisingShort", "prebilling"}
    PROVE  Fresh(c)'
BY DEF Fresh, Holding, Scanning, Returning

\* A step that leaves the units, the statuses and the warehouses alone.
LEMMA OnlyFreshMatters ==
    ASSUME IndAlone, \A a, b \in Clients : a = b, NEW c \in Clients, Fresh(c)',
           UNCHANGED <<serial, scans, invoiceStatus, activeWh>>
    PROVE  IndAlone'
<1>1. StatusesFollow'
  BY CountsStand DEF IndAlone, StatusesFollow, InvoiceStatusFor
<1>2. QED
  BY <1>1 DEF IndAlone, ClosedIsEmpty

LEMMA StartAlone ==
    ASSUME IndCount, IndAlone, \A a, b \in Clients : a = b, NEW c \in Clients,
           \/ \E i \in Invoices, w \in Warehouses : StartDispatch(c, i, w)
           \/ FindDispatch(c) \/ CountForStart(c) \/ CountStock(c)
           \/ CreateDispatch(c) \/ RepointDispatch(c) \/ SetTarget(c) \/ ResumeDispatch(c)
           \/ SeekShort(c) \/ RaiseShort(c)
    PROVE  IndAlone'
<1>0. req[c] \in Request /\ req \in [Clients -> Request]
  BY DEF IndCount, IndStock, IndType, TypeOK
<1>1. CASE (\E i \in Invoices, w \in Warehouses : StartDispatch(c, i, w)) \/ FindDispatch(c)
  <2>1. ASSUME NEW i, NEW w, StartDispatch(c, i, w) PROVE req'[c].pc = "finding"
    BY <1>0, <2>1 DEF StartDispatch, Begin, Idle
  <2>2. FindDispatch(c) => req'[c].pc = "counting"
    BY <1>0 DEF FindDispatch, Request
  <2>3. UNCHANGED rows
    BY <1>1 DEF StartDispatch, FindDispatch
  <2>4. QED
    BY <1>1, <2>1, <2>2, <2>3, NothingRead, OnlyFreshMatters DEF rows
<1>2. CASE CountForStart(c)
  <2>1. UNCHANGED rows
    BY <1>2 DEF CountForStart
  <2>2. CASE Finish(c)
    BY <1>0, <2>1, <2>2, NothingRead, OnlyFreshMatters DEF Finish, Idle, rows
  <2>3. CASE ~Finish(c)
    <3>1. /\ req'[c].pc = "stocking" /\ req'[c].inv = req[c].inv /\ req'[c].found = req[c].found
          /\ req[c].found # None => req'[c].count = CountScans(req[c].inv)
      BY <1>0, <1>2, <2>3 DEF CountForStart, Request
    <3>2. Fresh(c)'
      BY <2>1, <3>1, CountsStand DEF rows, Fresh, Holding, Scanning, Returning
    <3>3. QED
      BY <2>1, <3>2, OnlyFreshMatters DEF rows
  <2>4. QED
    BY <2>2, <2>3
<1>3. CASE CountStock(c)
  <2>1. UNCHANGED rows
    BY <1>3 DEF CountStock
  <2>2. CASE Finish(c)
    BY <1>0, <2>1, <2>2, NothingRead, OnlyFreshMatters DEF Finish, Idle, rows
  <2>3. CASE ~Finish(c)
    <3>1. /\ req'[c].pc \in {"creating", "repointing", "targeting"} /\ req'[c].inv = req[c].inv
          /\ req'[c].pc = "repointing" => SwitchesWarehouse(c) /\ ~PinnedElsewhere(c)
      BY <1>0, <1>3, <2>3 DEF CountStock, Request
    <3>2. req'[c].pc = "repointing" => ScansOf(req[c].inv) = {}
      <4>1. SUFFICES ASSUME SwitchesWarehouse(c), ~PinnedElsewhere(c) PROVE ScansOf(req[c].inv) = {}
        BY <3>1
      <4>2. req[c].found # None /\ ~(req[c].count > 0) /\ req[c].count \in Nat /\ req[c].pc = "stocking"
        BY <1>0, <1>3, <4>1 DEF SwitchesWarehouse, PinnedElsewhere, Request, CountStock
      <4>3. req[c].count = CountScans(req[c].inv) /\ req[c].inv \in Invoices
        BY <4>2 DEF IndAlone, Fresh, IndCount, IndStock, IndType, Grounded, Starting
      <4>4. QED
        BY <4>2, <4>3, CountsFit
    <3>3. Fresh(c)'
      BY <2>1, <3>1, <3>2, CountsStand DEF rows, Fresh, Holding, Scanning, Returning
    <3>4. QED
      BY <2>1, <3>3, OnlyFreshMatters DEF rows
  <2>4. QED
    BY <2>2, <2>3
<1>4. CASE CreateDispatch(c) \/ RepointDispatch(c) \/ SetTarget(c) \/ ResumeDispatch(c) \/ SeekShort(c)
           \/ RaiseShort(c)
  <2>1. req'[c].pc \in {"idle", "targeting", "resuming", "seekingShort", "raisingShort"}
    BY <1>0, <1>4 DEF CreateDispatch, RepointDispatch, SetTarget, ResumeDispatch, SeekShort, RaiseShort,
       AfterTarget, Goto, Finish, Idle, Request
  <2>2. UNCHANGED <<serial, scans, invoiceStatus, activeWh>>
    BY <1>4 DEF CreateDispatch, RepointDispatch, SetTarget, ResumeDispatch, SeekShort, RaiseShort, stock, rows
  <2>3. QED
    BY <2>1, <2>2, NothingRead, OnlyFreshMatters
<1>5. QED
  BY <1>1, <1>2, <1>3, <1>4

LEMMA ScanAlone ==
    ASSUME IndCount, IndAlone, \A a, b \in Clients : a = b, NEW c \in Clients,
           \/ \E i \in Invoices, s \in Serials : ValidateScan(c, i, s)
           \/ LockForScan(c) \/ PickLine(c)
           \/ \E i \in Invoices : LockForComplete(c, i)
    PROVE  IndAlone'
<1>0. req[c] \in Request /\ req \in [Clients -> Request]
  BY DEF IndCount, IndStock, IndType, TypeOK
<1>1. UNCHANGED rows
  BY DEF ValidateScan, LockForScan, PickLine, LockForComplete
<1>2. Fresh(c)' => IndAlone'
  BY <1>1, OnlyFreshMatters DEF rows
<1>3. CASE Finish(c)
  BY <1>0, <1>1, <1>3, NothingRead, OnlyFreshMatters DEF Finish, Idle, rows
<1>4. ASSUME NEW i \in Invoices, NEW s \in Serials, ValidateScan(c, i, s) PROVE Fresh(c)'
  <2>1. req'[c].pc = "scanWaiting" /\ req'[c].ser = s /\ req'[c].tag = serial[s].tag
    BY <1>0, <1>4 DEF ValidateScan, Begin, Idle
  <2>2. QED
    BY <1>1, <2>1 DEF Fresh, Holding, Scanning, Returning, rows
<1>5. CASE LockForScan(c) /\ ~Finish(c)
  <2>1. /\ req'[c].pc = "scanLocked" /\ req'[c].ser = req[c].ser /\ req'[c].tag = req[c].tag
        /\ req'[c].count = CountScans(req[c].inv) /\ req'[c].inv = req[c].inv /\ req[c].pc = "scanWaiting"
    BY <1>0, <1>5 DEF LockForScan, EndTransaction, Request
  <2>2. CountScans(req[c].inv)' = CountScans(req[c].inv) /\ serial' = serial
    BY <1>1, <2>1 DEF CountScans, ScansOf, rows
  <2>3. req[c].tag = serial[req[c].ser].tag /\ (req[c].pc = "scanLocked" => req[c].count = CountScans(req[c].inv))
    BY <2>1 DEF IndAlone, Fresh, Scanning, Holding
  <2>4. QED
    BY <1>2, <2>1, <2>2, <2>3 DEF Fresh, Holding, Scanning, Returning
<1>6. CASE PickLine(c) /\ ~Finish(c)
  <2>1. /\ req'[c].pc = "scanLined" /\ req'[c].ser = req[c].ser /\ req'[c].tag = req[c].tag
        /\ req'[c].count = req[c].count /\ req'[c].inv = req[c].inv /\ req[c].pc = "scanLocked" /\ ~OnHold(c)
    BY <1>0, <1>6 DEF PickLine, EndTransaction, Request
  <2>2. CountScans(req[c].inv)' = CountScans(req[c].inv) /\ serial' = serial
    BY <1>1, <2>1 DEF CountScans, ScansOf, rows
  <2>3. req[c].tag = serial[req[c].ser].tag /\ (req[c].pc = "scanLocked" => req[c].count = CountScans(req[c].inv))
    BY <2>1 DEF IndAlone, Fresh, Scanning, Holding
  <2>4. QED
    BY <1>2, <2>1, <2>2, <2>3 DEF Fresh, Holding, Scanning, Returning, OnHold
<1>7. ASSUME NEW i \in Invoices, LockForComplete(c, i) PROVE Fresh(c)'
  <2>1. req'[c].pc = "completing" /\ req'[c].inv = i /\ req'[c].count = CountScans(i)
    BY <1>0, <1>7 DEF LockForComplete, Begin, Idle
  <2>2. QED
    BY <1>1, <2>1, CountsStand DEF Fresh, Holding, Scanning, Returning, rows
<1>8. QED
  BY <1>2, <1>3, <1>4, <1>5, <1>6, <1>7

LEMMA CommitScanAlone ==
    ASSUME IndCount, IndAlone, \A a, b \in Clients : a = b, NEW c \in Clients, CommitScan(c)
    PROVE  /\ IndAlone'
           /\ \A s \in Serials : serial[s].status # "DISPATCHED" /\ serial'[s].status = "DISPATCHED"
                                    => serial[s].tag \notin Held
<1> DEFINE i == req[c].inv
           s == req[c].ser
<1>1. req'[c].pc = "idle" /\ req[c].pc = "scanLined"
  BY DEF CommitScan, Finish, Idle, IndCount, IndStock, IndType, TypeOK
<1>2. /\ i \in Invoices /\ s \in Serials /\ req[c].count = CountScans(i)
      /\ serial[s].tag \notin Held /\ UNCHANGED activeWh
  BY <1>1, ScanLined DEF IndCount, IndStock, IndAlone, Fresh, Holding, Scanning, CommitScan
<1>3. Fresh(c)'
  BY <1>1, NothingRead
<1>4. CASE UNCHANGED <<serial, scans, invoiceStatus>>
  BY <1>2, <1>3, <1>4, OnlyFreshMatters
<1>5. CASE /\ serial' = [serial EXCEPT ![s].status = "DISPATCHED"]
           /\ invoiceStatus' = [invoiceStatus EXCEPT ![i] = InvoiceStatusFor(i, req[c].count + 1)]
           /\ \A j \in Invoices : CountScans(j)' = IF j = i THEN CountScans(j) + 1 ELSE CountScans(j)
  <2>1. StatusesFollow'
    BY <1>2, <1>5 DEF StatusesFollow, IndAlone, InvoiceStatusFor, IndCount, IndStock, IndType, TypeOK
  <2>2. \A u \in Serials : /\ u # s => serial'[u] = serial[u]
                           /\ serial'[s].status = "DISPATCHED"
    BY <1>2, <1>5 DEF IndCount, IndStock, IndType, TypeOK
  <2>3. ClosedIsEmpty'
    BY <1>2, <2>2 DEF IndAlone, ClosedIsEmpty
  <2>4. QED
    BY <1>2, <1>3, <2>1, <2>2, <2>3 DEF IndAlone
<1>6. QED
  BY <1>4, <1>5, CommitScanCounted

LEMMA CompleteAlone ==
    ASSUME IndCount, IndAlone, \A a, b \in Clients : a = b, NEW c \in Clients, CompleteDispatch(c)
    PROVE  IndAlone'
<1>1. req'[c].pc = "idle" /\ req[c].pc = "completing" /\ UNCHANGED <<serial, scans, activeWh>>
  BY DEF CompleteDispatch, Finish, Idle, IndCount, IndStock, IndType, TypeOK, stock
<1>2. req[c].count = CountScans(req[c].inv) /\ req[c].inv \in Invoices
  BY <1>1 DEF IndAlone, Fresh, Holding, IndCount, IndStock, IndType, Grounded
<1>3. invoiceStatus' = invoiceStatus
  BY <1>2 DEF CompleteDispatch, IndAlone, StatusesFollow, IndCount, IndStock, IndType, TypeOK
<1>4. QED
  BY <1>1, <1>3, NothingRead, OnlyFreshMatters

LEMMA ReturnAlone ==
    ASSUME IndCount, IndAlone, \A a, b \in Clients : a = b, NEW c \in Clients,
           \/ \E k \in Srns, s \in Serials, t \in Tags : LockForReturn(c, k, s, t)
           \/ InsertReturn(c)
    PROVE  IndAlone'
<1>0. req[c] \in Request /\ req \in [Clients -> Request]
  BY DEF IndCount, IndStock, IndType, TypeOK
<1>1. UNCHANGED rows
  BY DEF LockForReturn, InsertReturn
<1>2. Fresh(c)' => IndAlone'
  BY <1>1, OnlyFreshMatters DEF rows
<1>3. CASE Finish(c)
  BY <1>0, <1>1, <1>3, NothingRead, OnlyFreshMatters DEF Finish, Idle, rows
<1>4. ASSUME NEW k \in Srns, NEW s \in Serials, NEW t \in Tags, LockForReturn(c, k, s, t) PROVE Fresh(c)'
  <2>0. PICK orig : Begin(c, [Idle EXCEPT !.pc = "returnLocked", !.srn = k, !.ser = s, !.tag = t, !.line = orig])
    BY <1>4 DEF LockForReturn
  <2>1. req'[c].pc = "returnLocked" /\ req'[c].srn = k /\ srn[k].wh \in activeWh
    BY <1>0, <1>4, <2>0 DEF LockForReturn, Begin, Idle
  <2>2. QED
    BY <1>1, <2>1 DEF Fresh, Holding, Scanning, Returning, rows
<1>5. CASE InsertReturn(c) /\ ~Finish(c)
  <2>1. /\ req'[c].pc = "returnInserted" /\ req[c].pc = "returnLocked" /\ req'[c].srn = req[c].srn
        /\ req'[c].ser = req[c].ser /\ req'[c].line = req[c].line
        /\ req[c].line # None => req'[c].count = Recount(req[c].ser, req[c].line)
    BY <1>0, <1>5 DEF InsertReturn, EndTransaction, Request
  <2>2. Recount(req[c].ser, req[c].line)' = Recount(req[c].ser, req[c].line)
    BY <1>1, <2>1 DEF Recount, ScansOf, rows
  <2>3. srn[req[c].srn].wh \in activeWh /\ UNCHANGED <<srn, activeWh>>
    BY <1>1, <2>1 DEF IndAlone, Fresh, Returning, rows
  <2>4. QED
    BY <1>2, <2>1, <2>2, <2>3 DEF Fresh, Holding, Scanning
<1>6. QED
  BY <1>2, <1>3, <1>4, <1>5

LEMMA CommitReturnAlone ==
    ASSUME IndCount, IndAlone, \A a, b \in Clients : a = b, NEW c \in Clients, CommitReturn(c)
    PROVE  IndAlone'
<1> DEFINE s == req[c].ser
           line == req[c].line
           scan == [ser |-> s, line |-> line]
<1>1. req'[c].pc = "idle" /\ req[c].pc = "returnInserted" /\ UNCHANGED activeWh
  BY DEF CommitReturn, Finish, Idle, IndCount, IndStock, IndType, TypeOK
<1>2. s \in Serials /\ line \in Lines \cup {None} /\ srn[req[c].srn].wh \in activeWh
  BY <1>1 DEF IndCount, IndStock, IndType, TypeOK, Request, Grounded, Returning, IndAlone, Fresh
<1>3. ClosedIsEmpty'
  BY <1>2 DEF CommitReturn, IndAlone, ClosedIsEmpty, IndCount, IndStock, IndType, TypeOK
<1>4. StatusesFollow'
  <2>1. CASE line = None
    <3>1. ScanMarked(s, line) = {}
      BY <2>1, NoneAssumption DEF ScanMarked, IndCount, IndStock, IndType, TypeOK, Scan
    <3>2. UNCHANGED <<scans, invoiceStatus>>
      BY <2>1, <3>1 DEF CommitReturn, Reopened
    <3>3. QED
      BY <3>2, CountsStand DEF IndAlone, StatusesFollow, InvoiceStatusFor
  <2>2. CASE line # None
    <3>1. line \in Lines /\ line.inv \in Invoices
      BY <1>2, <2>2, LinesAssumption
    <3>2. ScanMarked(s, line) = scans \cap {scan}
      BY DEF ScanMarked, IndCount, IndStock, IndType, TypeOK, Scan
    <3>3. scans' = scans \ {scan} /\ scan.line = line
      BY <3>2 DEF CommitReturn
    <3>4. invoiceStatus' = [invoiceStatus EXCEPT ![line.inv] = InvoiceStatusFor(line.inv, Recount(s, line))]
      BY <1>1, <2>2 DEF CommitReturn, Reopened, IndAlone, Fresh
    <3>5. Recount(s, line) = Cardinality(ScansOf(line.inv) \ {scan})
      BY DEF Recount
    <3> HIDE DEF scan
    <3>6. \A j \in Invoices : {d \in scans' : d.line.inv = j}
                                = IF j = line.inv THEN ScansOf(j) \ {scan} ELSE ScansOf(j)
      BY <3>3 DEF ScansOf
    <3>7. \A j \in Invoices : CountScans(j)' = IF j = line.inv THEN Recount(s, line) ELSE CountScans(j)
      BY <3>5, <3>6 DEF CountScans, ScansOf
    <3>8. QED
      BY <3>1, <3>4, <3>7 DEF StatusesFollow, IndAlone, InvoiceStatusFor, IndCount, IndStock, IndType, TypeOK
  <2>3. QED
    BY <2>1, <2>2
<1>5. QED
  BY <1>1, <1>3, <1>4, NothingRead DEF IndAlone

LEMMA OtherRequestsAlone ==
    ASSUME IndCount, IndAlone, \A a, b \in Clients : a = b, NEW c \in Clients,
           \/ \E k \in Srns, w \in Warehouses, i \in Invoices \cup {None}, q \in Quantities \cup {None},
                 f \in ForeignAnswers : CreateSrn(c, k, w, i, q, f)
           \/ \E i \in Invoices, s \in Serials : CheckPreBilling(c, i, s)
           \/ CommitPreBilling(c) \/ Crash(c)
    PROVE  IndAlone'
<1>0. req \in [Clients -> Request]
  BY DEF IndCount, IndStock, IndType, TypeOK
<1>1. req'[c].pc \in {"idle", "prebilling"}
  <2>1. (\E k, w, i, q, f : CreateSrn(c, k, w, i, q, f)) => req'[c].pc = "idle"
    BY DEF CreateSrn, InFlight
  <2>2. (\E i, s : CheckPreBilling(c, i, s)) => req'[c].pc = "prebilling"
    BY <1>0 DEF CheckPreBilling, Begin, Idle
  <2>3. CommitPreBilling(c) \/ Crash(c) => req'[c].pc = "idle"
    BY <1>0 DEF CommitPreBilling, Crash, Finish, Idle
  <2>4. QED
    BY <2>1, <2>2, <2>3
<1>2. UNCHANGED <<serial, scans, invoiceStatus, activeWh>>
  BY DEF CreateSrn, CheckPreBilling, CommitPreBilling, Crash, stock, rows
<1>3. QED
  BY <1>1, <1>2, NothingRead, OnlyFreshMatters

LEMMA WarehousesAlone ==
    ASSUME IndCount, IndAlone, \A a, b \in Clients : a = b, NEW c \in Clients,
           \/ \E s \in Serials, t \in Corrections : CorrectTag(c, s, t)
           \/ \E w \in Closable : CheckWarehouseEmpty(c, w) \/ ReactivateWarehouse(c, w)
           \/ DeactivateWarehouse(c)
    PROVE  IndAlone'
<1>0. req[c] \in Request /\ req \in [Clients -> Request]
  BY DEF IndCount, IndStock, IndType, TypeOK
<1>1. ASSUME NEW s \in Serials, NEW t \in Corrections, CorrectTag(c, s, t) PROVE IndAlone'
  <2>1. req'[c].pc = "idle" /\ UNCHANGED <<scans, invoiceStatus, activeWh>>
    BY <1>1 DEF CorrectTag, InFlight
  <2>2. \A u \in Serials : serial'[u].status = serial[u].status /\ serial'[u].wh = serial[u].wh
    BY <1>1 DEF CorrectTag, IndCount, IndStock, IndType, TypeOK
  <2>3. ClosedIsEmpty' /\ StatusesFollow'
    BY <2>1, <2>2, CountsStand DEF IndAlone, ClosedIsEmpty, StatusesFollow, InvoiceStatusFor
  <2>4. QED
    BY <2>1, <2>3, NothingRead DEF IndAlone
<1>2. ASSUME NEW w \in Closable, CheckWarehouseEmpty(c, w) PROVE IndAlone'
  <2>1. req'[c].pc = "deactivating" /\ req'[c].wh = w /\ UNCHANGED rows /\ WarehouseEmpty(w)
    BY <1>0, <1>2 DEF CheckWarehouseEmpty, Begin, Idle
  <2>2. Fresh(c)'
    BY <2>1 DEF Fresh, Holding, Scanning, Returning, WarehouseEmpty, rows
  <2>3. QED
    BY <2>1, <2>2, OnlyFreshMatters DEF rows
<1>3. ASSUME NEW w \in Closable, ReactivateWarehouse(c, w) PROVE IndAlone'
  <2>1. req'[c].pc = "idle" /\ UNCHANGED <<serial, scans, invoiceStatus>> /\ activeWh \subseteq activeWh'
    BY <1>3 DEF ReactivateWarehouse, InFlight, stock
  <2>2. ClosedIsEmpty' /\ StatusesFollow'
    BY <2>1, CountsStand DEF IndAlone, ClosedIsEmpty, StatusesFollow, InvoiceStatusFor
  <2>3. QED
    BY <2>1, <2>2, NothingRead DEF IndAlone
<1>4. CASE DeactivateWarehouse(c)
  <2>1. /\ req'[c].pc = "idle" /\ UNCHANGED <<serial, scans, invoiceStatus>>
        /\ activeWh' = activeWh \ {req[c].wh} /\ WarehouseEmpty(req[c].wh)
    BY <1>0, <1>4 DEF DeactivateWarehouse, Finish, Idle, stock, IndAlone, Fresh
  <2>2. ClosedIsEmpty' /\ StatusesFollow'
    BY <2>1, CountsStand DEF IndAlone, ClosedIsEmpty, StatusesFollow, InvoiceStatusFor, WarehouseEmpty
  <2>3. QED
    BY <2>1, <2>2, NothingRead DEF IndAlone
<1>5. QED
  BY <1>1, <1>2, <1>3, <1>4

LEMMA AloneStep ==
    ASSUME \A a, b \in Clients : a = b
    PROVE  IndCount /\ IndAlone /\ [Next]_vars => IndAlone'
<1> SUFFICES ASSUME IndCount, IndAlone, [Next]_vars PROVE IndAlone'
  OBVIOUS
<1>1. CASE UNCHANGED vars
  <2>1. StatusesFollow'
    BY <1>1, CountsStand DEF vars, IndAlone, StatusesFollow, InvoiceStatusFor
  <2>2. \A c \in Clients : Fresh(c)'
    <3> SUFFICES ASSUME NEW c \in Clients PROVE Fresh(c)'
      OBVIOUS
    <3>1. Fresh(c) /\ UNCHANGED vars
      BY <1>1 DEF IndAlone
    <3>2. /\ CountScans(req[c].inv)' = CountScans(req[c].inv)
          /\ ScansOf(req[c].inv)' = ScansOf(req[c].inv)
          /\ Recount(req[c].ser, req[c].line)' = Recount(req[c].ser, req[c].line)
          /\ WarehouseEmpty(req[c].wh)' = WarehouseEmpty(req[c].wh)
      BY <1>1 DEF CountScans, ScansOf, Recount, WarehouseEmpty, vars
    <3>3. QED
      BY <3>1, <3>2 DEF Fresh, vars
  <2>3. QED
    BY <1>1, <2>1, <2>2 DEF vars, IndAlone, ClosedIsEmpty
<1>2. ASSUME NEW c \in Clients, Arrive(c) \/ Proceed(c) \/ Crash(c) PROVE IndAlone'
  <2>1. CASE Arrive(c)
    BY <2>1, StartAlone, ScanAlone, ReturnAlone, OtherRequestsAlone, WarehousesAlone DEF Arrive
  <2>2. CASE Proceed(c)
    BY <2>2, StartAlone, ScanAlone, CommitScanAlone, CompleteAlone, ReturnAlone, CommitReturnAlone,
       OtherRequestsAlone, WarehousesAlone DEF Proceed
  <2>3. CASE Crash(c)
    BY <2>3, OtherRequestsAlone
  <2>4. QED
    BY <1>2, <2>1, <2>2, <2>3
<1>3. QED
  BY <1>1, <1>2 DEF Next

\* What the invariant of the sequential case says of the statuses and the warehouses, at
\* every moment.
LEMMA AloneNothingDrifts ==
    ASSUME \A a, b \in Clients : a = b
    PROVE  Spec => [](InvoiceStatusExact /\ ClosedIsEmpty)
<1>1. IndCount /\ IndAlone /\ [Next]_vars => (IndCount /\ IndAlone)'
  BY AloneStep, CountStep
<1>2. IndCount /\ IndAlone => InvoiceStatusExact /\ ClosedIsEmpty
  BY FollowingIsExact DEF IndAlone, StatusesFollow, InvoiceStatusExact
<1>3. QED
  BY <1>1, <1>2, CountInit, AloneInit, PTL DEF Spec

\* While requests do not overlap, and however they crash, the status of an invoice is the one
\* its scans call for.
THEOREM AloneStatusesAreExact ==
    ASSUME \A a, b \in Clients : a = b
    PROVE  Spec => []InvoiceStatusExact
<1> QED  BY AloneNothingDrifts, PTL

\* While requests do not overlap, a warehouse that is closed stays empty: receiving a return
\* asks whether it is open, and closing it whether it is empty.
THEOREM AloneClosedWarehousesAreEmpty ==
    ASSUME \A a, b \in Clients : a = b
    PROVE  Spec => []ClosedIsEmpty
<1> QED  BY AloneNothingDrifts, PTL

\* Only a request that found no scan moves a dispatch to another warehouse.
LEMMA AlonePins ==
    ASSUME \A a, b \in Clients : a = b, IndCount, IndAlone, Next
    PROVE  \A i \in Invoices : dispatch[i] # None /\ dispatch'[i].wh # dispatch[i].wh => ScansOf(i) = {}
<1>1. PICK c \in Clients : Arrive(c) \/ Proceed(c) \/ Crash(c)
  BY DEF Next
<1>2. \A i \in Invoices : dispatch[i] \in DispatchRow \cup {None}
  BY DEF IndCount, IndStock, IndType, TypeOK
<1>3. CASE CreateDispatch(c)
  BY <1>3 DEF CreateDispatch, IndCount, IndStock, IndType, TypeOK
<1>4. CASE RepointDispatch(c)
  <2>1. ScansOf(req[c].inv) = {}
    BY <1>4 DEF RepointDispatch, IndAlone, Fresh
  <2>2. \A i \in Invoices : i # req[c].inv => dispatch'[i] = dispatch[i]
    BY <1>4 DEF RepointDispatch, IndCount, IndStock, IndType, TypeOK
  <2>3. QED
    BY <2>1, <2>2
<1>5. CASE SetTarget(c) \/ ResumeDispatch(c) \/ CommitScan(c) \/ CompleteDispatch(c)
  <2>1. \A i \in Invoices : \A t, u : dispatch[i] # None =>
          [dispatch EXCEPT ![req[c].inv].target = t][i].wh = dispatch[i].wh
          /\ [dispatch EXCEPT ![req[c].inv].status = u][i].wh = dispatch[i].wh
    BY <1>2 DEF DispatchRow, IndCount, IndStock, IndType, TypeOK
  <2>2. dispatch' = dispatch \/ (\E t : dispatch' = [dispatch EXCEPT ![req[c].inv].target = t])
        \/ \E u : dispatch' = [dispatch EXCEPT ![req[c].inv].status = u]
    BY <1>5 DEF SetTarget, ResumeDispatch, CommitScan, CompleteDispatch
  <2>3. CASE \E t : dispatch' = [dispatch EXCEPT ![req[c].inv].target = t]
    BY <2>1, <2>3
  <2>4. CASE \E u : dispatch' = [dispatch EXCEPT ![req[c].inv].status = u]
    BY <2>1, <2>4
  <2>5. QED
    BY <2>2, <2>3, <2>4
<1>6. CASE UNCHANGED dispatch
  BY <1>6
<1>7. Arrive(c) \/ Crash(c) => UNCHANGED dispatch
  BY DEF Arrive, StartDispatch, ValidateScan, CheckPreBilling, LockForComplete, CreateSrn,
     LockForReturn, CorrectTag, CheckWarehouseEmpty, ReactivateWarehouse, Crash, stock, rows
<1>8. FindDispatch(c) \/ CountForStart(c) \/ CountStock(c) \/ SeekShort(c) \/ RaiseShort(c) \/ LockForScan(c)
      \/ PickLine(c) \/ InsertReturn(c) \/ CommitReturn(c) \/ CommitPreBilling(c) \/ DeactivateWarehouse(c)
      => UNCHANGED dispatch
  BY DEF FindDispatch, CountForStart, CountStock, SeekShort, RaiseShort, LockForScan, PickLine, InsertReturn,
     CommitReturn, CommitPreBilling, DeactivateWarehouse, stock, rows
<1>9. QED
  BY <1>1, <1>3, <1>4, <1>5, <1>6, <1>7, <1>8 DEF Proceed

\* Only a committed scan of a unit that is not on hold sells it.
LEMMA AloneHolds ==
    ASSUME \A a, b \in Clients : a = b, IndCount, IndAlone, Next
    PROVE  \A s \in Serials : serial[s].status # "DISPATCHED" /\ serial'[s].status = "DISPATCHED"
                                 => serial[s].tag \notin Held
<1>1. PICK c \in Clients : Arrive(c) \/ Proceed(c) \/ Crash(c)
  BY DEF Next
<1>2. CASE CommitScan(c)
  BY <1>2, CommitScanAlone
<1>3. CASE CommitReturn(c) \/ \E s \in Serials, t \in Corrections : CorrectTag(c, s, t)
  BY <1>3 DEF CommitReturn, CorrectTag, IndCount, IndStock, IndType, TypeOK
<1>4. CASE UNCHANGED serial
  BY <1>4
<1>5. Crash(c) => UNCHANGED serial
  BY DEF Crash, rows
<1>6. Arrive(c) => UNCHANGED serial \/ \E s \in Serials, t \in Corrections : CorrectTag(c, s, t)
  BY DEF Arrive, StartDispatch, ValidateScan, CheckPreBilling, LockForComplete, CreateSrn,
     LockForReturn, CheckWarehouseEmpty, ReactivateWarehouse, stock, rows
<1>7. Proceed(c) => UNCHANGED serial \/ CommitScan(c) \/ CommitReturn(c)
  BY DEF Proceed, FindDispatch, CountForStart, CountStock, CreateDispatch, RepointDispatch, SetTarget,
     ResumeDispatch, SeekShort, RaiseShort, LockForScan, PickLine, CompleteDispatch, InsertReturn,
     CommitPreBilling, DeactivateWarehouse, stock, rows
<1>8. QED
  BY <1>1, <1>2, <1>3, <1>4, <1>5, <1>6, <1>7

\* Both action properties, from the same invariant.
LEMMA AloneNothingSlips ==
    ASSUME \A a, b \in Clients : a = b
    PROVE  Spec => WarehousePinned /\ HeldStays
<1>1. IndCount /\ IndAlone /\ [Next]_vars => (IndCount /\ IndAlone)'
  BY AloneStep, CountStep
<1>2. ASSUME IndCount, IndAlone, [Next]_vars
      PROVE  /\ [\A i \in Invoices : dispatch[i] # None /\ dispatch'[i].wh # dispatch[i].wh
                   => ScansOf(i) = {}]_vars
             /\ [\A s \in Serials : serial[s].status # "DISPATCHED" /\ serial'[s].status = "DISPATCHED"
                   => serial[s].tag \notin Held]_vars
  BY <1>2, AlonePins, AloneHolds
<1>3. QED
  BY <1>1, <1>2, CountInit, AloneInit, PTL DEF Spec, WarehousePinned, HeldStays

\* While requests do not overlap, a dispatch with scans stays with its warehouse.
THEOREM AloneDispatchesArePinned ==
    ASSUME \A a, b \in Clients : a = b
    PROVE  Spec => WarehousePinned
<1> QED  BY AloneNothingSlips, PTL

\* While requests do not overlap, a unit on hold is not dispatched: nobody corrects its tag
\* between the validation of a scan and its transaction.
THEOREM AloneHeldUnitsStay ==
    ASSUME \A a, b \in Clients : a = b
    PROVE  Spec => HeldStays
<1> QED  BY AloneNothingSlips, PTL
=============================================================================
