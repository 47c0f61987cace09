---------------------------- MODULE OfficeProofs ----------------------------
(***************************************************************************)
(* Proofs about four of the services around fulfilment: the exception desk *)
(* and the export to SAP (FollowUp), the uploads (Catalogue), the ageing   *)
(* report (Ageing) and what the browser believes (Access).  They share no  *)
(* state; each has an invariant of its own.                                *)
(***************************************************************************)
EXTENDS ImportProofs, FollowUp, Catalogue, Ageing, Access

-----------------------------------------------------------------------------
(* Exceptions (FollowUp).  Of two supervisors who both found an exception  *)
(* open only one changes the row, so a row has an event when it has left   *)
(* OPEN; and a context that was found billed has been so for ever after    *)
(* (settled), whatever returns and uploads do next (Vouched).  What was    *)
(* billed was completed, or written by an upload (SettledIsCompleted).     *)

CaseRow == [kind : Kinds, no : Numbers, good : Named, status : {"OPEN", "CORRECTED"}]
SaleRow == [status : {"NONE", "PENDING", "DISPATCHED"}, completed : BOOLEAN, sap : Batches \cup {Missing},
            billed : BOOLEAN, settled : BOOLEAN, rewritten : BOOLEAN]
DeskTypes ==
  /\ case \in [Cases -> {Missing} \cup CaseRow]
  /\ corrections \in [Cases -> Nat]
  /\ desk \in [Supervisors -> [pc : {"idle", "found", "checked"}, at : Cases \cup {Missing}]]
  /\ sale \in [Numbers -> SaleRow]

SettledIsCompleted ==
  \A n \in Numbers : /\ sale[n].status = "DISPATCHED" => sale[n].completed
                     /\ sale[n].billed => sale[n].settled
                     /\ sale[n].settled => sale[n].completed \/ sale[n].rewritten
Vouched ==
  \A c \in Supervisors :
    /\ desk[c].pc # "idle" => desk[c].at \in Cases /\ case[desk[c].at] # Missing
    /\ desk[c].pc = "checked" /\ case[desk[c].at].kind = "DISPATCH"
         => sale[case[desk[c].at].no].settled
NoEarlyEvent == \A e \in Cases : case[e] = Missing => corrections[e] = 0

IndDesk ==
  /\ DeskTypes
  /\ SettledIsCompleted
  /\ Vouched
  /\ NoEarlyEvent
  /\ CorrectionsStand

LEMMA CasesStart == FollowUpInit => IndDesk
BY DEF FollowUpInit, Unsold, IndDesk, DeskTypes, SaleRow, Free, SettledIsCompleted, Vouched, NoEarlyEvent,
   CorrectionsStand

\* Neither dispatch nor return nor an upload takes back that an invoice was billed.
LEMMA SaleStepKeepsDesk ==
    ASSUME IndDesk, UNCHANGED <<case, corrections, desk>>, sale' \in [Numbers -> SaleRow],
           SettledIsCompleted', \A n \in Numbers : sale[n].settled => sale'[n].settled
    PROVE  IndDesk'
<1>1. \A e \in Cases : case[e] # Missing => case[e].no \in Numbers
  BY DEF IndDesk, DeskTypes, CaseRow
<1>2. Vouched'
  BY <1>1 DEF IndDesk, DeskTypes, Vouched
<1>3. CorrectionsStand'
  <2>1. SUFFICES ASSUME NEW e \in Cases, case[e] # Missing
                 PROVE  /\ case[e].good \in Goods => corrections[e] = IF case[e].status = "CORRECTED" THEN 1 ELSE 0
                        /\ case[e].kind = "DISPATCH" /\ case[e].status = "CORRECTED" =>
                             LET row == sale'[case[e].no] IN row.settled /\ (row.completed \/ row.rewritten)
    BY DEF CorrectionsStand
  <2>2. case[e].no \in Numbers
    BY <1>1, <2>1
  <2>3. QED
    BY <2>1, <2>2 DEF IndDesk, CorrectionsStand, SettledIsCompleted
<1>4. QED
  BY <1>2, <1>3 DEF IndDesk, DeskTypes, NoEarlyEvent

\* What a count gives dispatch and invoice.
LEMMA SettlingCompletes ==
    ASSUME sale \in [Numbers -> SaleRow], SettledIsCompleted, NEW n \in Numbers, NEW o \in Outcomes(n),
           Settled(n, o[1], o[2])
    PROVE  /\ sale' \in [Numbers -> SaleRow] /\ SettledIsCompleted'
           /\ \A m \in Numbers : /\ sale[m].completed => sale'[m].completed
                                 /\ sale[m].settled => sale'[m].settled
                                 /\ sale'[m].sap = sale[m].sap
                                 /\ m # n => sale'[m] = sale[m]
           /\ o[1] # "DISPATCHED" => (sale'[n].completed <=> sale[n].completed)
<1> DEFINE row == [sale[n] EXCEPT !.status = o[1], !.completed = sale[n].completed \/ o[1] = "DISPATCHED",
                                  !.billed = o[2], !.settled = sale[n].settled \/ o[2]]
<1>1. sale' = [sale EXCEPT ![n] = row]
  BY DEF Settled
<1>2. o[1] \in {"PENDING", "DISPATCHED"} /\ o[2] \in BOOLEAN /\ (o[2] => o[1] = "DISPATCHED" \/ sale[n].rewritten)
  BY DEF Outcomes
<1>3. sale[n] \in SaleRow /\ (sale[n].settled => sale[n].completed \/ sale[n].rewritten)
  BY DEF SettledIsCompleted
<1>4. /\ row \in SaleRow /\ row.status = o[1] /\ row.completed = (sale[n].completed \/ o[1] = "DISPATCHED")
      /\ row.billed = o[2] /\ row.settled = (sale[n].settled \/ o[2])
      /\ row.sap = sale[n].sap /\ row.rewritten = sale[n].rewritten
  BY <1>2, <1>3 DEF SaleRow
<1> HIDE DEF row
<1>5. QED
  BY <1>1, <1>2, <1>3, <1>4 DEF SettledIsCompleted

\* An invoice that is uploaded again.
LEMMA UploadRewrites ==
    ASSUME sale \in [Numbers -> SaleRow], SettledIsCompleted, NEW n \in Numbers, NEW b \in BOOLEAN,
           UploadSale(n, b)
    PROVE  /\ sale' \in [Numbers -> SaleRow] /\ SettledIsCompleted'
           /\ \A m \in Numbers : /\ sale'[m].completed = sale[m].completed
                                 /\ sale[m].settled => sale'[m].settled
                                 /\ sale'[m].sap = sale[m].sap
<1> DEFINE row == [sale[n] EXCEPT !.billed = b, !.settled = sale[n].settled \/ b, !.rewritten = TRUE]
<1>1. sale' = [sale EXCEPT ![n] = row]
  BY DEF UploadSale
<1>2. /\ row \in SaleRow /\ row.status = sale[n].status /\ row.completed = sale[n].completed
      /\ row.billed = b /\ row.settled = (sale[n].settled \/ b) /\ row.sap = sale[n].sap /\ row.rewritten
  BY DEF SaleRow
<1> HIDE DEF row
<1>3. QED
  BY <1>1, <1>2 DEF SettledIsCompleted

\* An invoice whose dispatch is started, or started anew.
LEMMA StartIsNotBilled ==
    ASSUME NEW n \in Numbers, StartSale(n)
    PROVE  <<"PENDING", FALSE>> \in Outcomes(n) /\ Settled(n, <<"PENDING", FALSE>>[1], <<"PENDING", FALSE>>[2])
BY DEF StartSale, Outcomes

LEMMA SettledKeepsDesk ==
    ASSUME IndDesk, UNCHANGED <<case, corrections, desk>>, NEW n \in Numbers, NEW o \in Outcomes(n),
           Settled(n, o[1], o[2])
    PROVE  IndDesk'
BY SettlingCompletes, SaleStepKeepsDesk DEF IndDesk, DeskTypes

LEMMA OutsideStepKeepsDesk ==
    ASSUME IndDesk, UNCHANGED <<case, corrections, desk>>,
           \/ UNCHANGED sale
           \/ \E n \in Numbers, b \in Batches : sale' = [sale EXCEPT ![n].sap = b]
    PROVE  IndDesk'
<1>1. CASE UNCHANGED sale
  BY <1>1, SaleStepKeepsDesk DEF IndDesk, DeskTypes, SettledIsCompleted
<1>2. ASSUME NEW n \in Numbers, NEW b \in Batches, sale' = [sale EXCEPT ![n].sap = b] PROVE IndDesk'
  <2>1. sale' \in [Numbers -> SaleRow] /\ SettledIsCompleted'
        /\ \A m \in Numbers : sale[m].settled => sale'[m].settled
    BY <1>2 DEF IndDesk, DeskTypes, SettledIsCompleted, SaleRow
  <2>2. QED
    BY <2>1, SaleStepKeepsDesk
<1>3. QED
  BY <1>1, <1>2

LEMMA RaiseKeepsDesk ==
    ASSUME IndDesk, NEW e \in Cases, NEW k \in Kinds, NEW n \in Numbers, NEW g \in Named,
           Raise(e, k, n, g)
    PROVE  IndDesk'
<1> DEFINE row == [kind |-> k, no |-> n, good |-> g, status |-> "OPEN"]
<1>1. row \in CaseRow /\ row # Missing /\ row.status = "OPEN"
  BY FollowUpAssumption DEF CaseRow, Kinds, Named
<1>2. /\ case[e] = Missing /\ case' = [case EXCEPT ![e] = row]
      /\ UNCHANGED <<corrections, desk, sale>>
  BY DEF Raise
<1> HIDE DEF row
<1>3. DeskTypes' /\ SettledIsCompleted'
  BY <1>1, <1>2 DEF IndDesk, DeskTypes, SettledIsCompleted
<1>4. Vouched'
  BY <1>1, <1>2 DEF IndDesk, DeskTypes, Vouched
<1>5. NoEarlyEvent' /\ CorrectionsStand'
  BY <1>1, <1>2 DEF IndDesk, DeskTypes, NoEarlyEvent, CorrectionsStand
<1>6. QED
  BY <1>3, <1>4, <1>5 DEF IndDesk

\* A supervisor's request that only reads.
LEMMA ReadingKeepsDesk ==
    ASSUME IndDesk, NEW c \in Supervisors, UNCHANGED <<case, corrections, sale>>,
           NEW r \in [pc : {"idle", "found", "checked"}, at : Cases \cup {Missing}],
           desk' = [desk EXCEPT ![c] = r],
           r.pc # "idle" => r.at \in Cases /\ case[r.at] # Missing,
           r.pc = "checked" /\ case[r.at].kind = "DISPATCH" => sale[case[r.at].no].settled
    PROVE  IndDesk'
BY DEF IndDesk, DeskTypes, SettledIsCompleted, Vouched, NoEarlyEvent, CorrectionsStand

LEMMA CorrectKeepsDesk ==
    ASSUME IndDesk, NEW c \in Supervisors, Correct(c), NEW e \in Cases, e = desk[c].at
    PROVE  IndDesk'
<1>1. desk' = [desk EXCEPT ![c] = Free] /\ UNCHANGED sale /\ Free.pc = "idle"
      /\ Free \in [pc : {"idle", "found", "checked"}, at : Cases \cup {Missing}]
  BY DEF Correct, Free
<1>2. CASE UNCHANGED <<case, corrections>>
  BY <1>1, <1>2, ReadingKeepsDesk
<1>3. CASE StillOpen(e) /\ ~UNCHANGED <<case, corrections>>
  <2> DEFINE row == [case[e] EXCEPT !.status = "CORRECTED"]
  <2>1. /\ case[e] \in CaseRow /\ desk[c].pc = "checked"
        /\ case' = [case EXCEPT ![e] = row]
        /\ corrections' = [corrections EXCEPT ![e] = IF case[e].good = Missing THEN @ ELSE @ + 1]
    BY <1>3 DEF Correct, Seated, IndDesk, DeskTypes, Vouched
  <2>2. /\ row \in CaseRow /\ row # Missing /\ row.status = "CORRECTED"
        /\ row.kind = case[e].kind /\ row.no = case[e].no /\ row.good = case[e].good
    BY <2>1, FollowUpAssumption DEF CaseRow, Kinds, Named
  <2> HIDE DEF row
  <2>3. DeskTypes' /\ SettledIsCompleted' /\ NoEarlyEvent'
    BY <1>1, <2>1, <2>2 DEF IndDesk, DeskTypes, SettledIsCompleted, NoEarlyEvent
  <2>4. Vouched'
    BY <1>1, <2>1, <2>2 DEF IndDesk, DeskTypes, Vouched
  <2>5. row.kind = "DISPATCH" => sale[row.no].settled /\ (sale[row.no].completed \/ sale[row.no].rewritten)
    <3>1. row.no \in Numbers
      BY <2>2 DEF CaseRow
    <3>2. QED
      BY <2>1, <2>2, <3>1 DEF IndDesk, Vouched, SettledIsCompleted
  <2>6. row.good \in Goods => corrections'[e] = 1
    <3>1. SUFFICES ASSUME row.good \in Goods PROVE corrections'[e] = 1
      OBVIOUS
    <3>2. case[e].good # Missing /\ case[e] # Missing /\ case[e].status = "OPEN"
      BY <1>3, <2>1, <2>2, <3>1, FollowUpAssumption DEF StillOpen, CaseRow, Kinds, Named
    <3>3. corrections[e] = 0
      BY <2>2, <3>1, <3>2 DEF IndDesk, CorrectionsStand
    <3>4. QED
      BY <2>1, <3>2, <3>3 DEF IndDesk, DeskTypes
  <2>7. CorrectionsStand'
    BY <1>1, <2>1, <2>2, <2>5, <2>6 DEF IndDesk, DeskTypes, CorrectionsStand
  <2>8. QED
    BY <2>3, <2>4, <2>7 DEF IndDesk
<1>4. QED
  BY <1>2, <1>3 DEF Correct

LEMMA SupervisorKeepsDesk ==
    ASSUME IndDesk, NEW c \in Supervisors,
           (\E e \in Cases : Find(c, e)) \/ CheckContext(c) \/ Correct(c) \/ Leave(c)
    PROVE  IndDesk'
<1>1. Free \in [pc : {"idle", "found", "checked"}, at : Cases \cup {Missing}] /\ Free.pc = "idle"
  BY DEF Free
<1>2. ASSUME NEW e \in Cases, Find(c, e) PROVE IndDesk'
  <2> DEFINE r == [pc |-> "found", at |-> e]
  <2>1. r \in [pc : {"idle", "found", "checked"}, at : Cases \cup {Missing}]
        /\ r.pc = "found" /\ r.at = e
    OBVIOUS
  <2>2. desk' = [desk EXCEPT ![c] = r] /\ case[e] # Missing /\ UNCHANGED <<case, corrections, sale>>
    BY <1>2 DEF Find
  <2> HIDE DEF r
  <2>3. QED
    BY <2>1, <2>2, ReadingKeepsDesk
<1>3. CASE CheckContext(c)
  <2>1. CASE Correctable(desk[c].at)
    <3> DEFINE r == [desk[c] EXCEPT !.pc = "checked"]
    <3>1. /\ desk' = [desk EXCEPT ![c] = r] /\ UNCHANGED <<case, corrections, sale>>
          /\ desk[c].at \in Cases /\ case[desk[c].at] \in CaseRow /\ case[desk[c].at] # Missing
      BY <1>3, <2>1 DEF CheckContext, Seated, IndDesk, DeskTypes, Vouched
    <3>2. r \in [pc : {"idle", "found", "checked"}, at : Cases \cup {Missing}]
          /\ r.at = desk[c].at
      BY DEF IndDesk, DeskTypes
    <3>3. case[desk[c].at].kind = "DISPATCH" => sale[case[desk[c].at].no].settled
      BY <2>1, <3>1 DEF Correctable, CaseRow, IndDesk, SettledIsCompleted
    <3> HIDE DEF r
    <3>4. QED
      BY <3>1, <3>2, <3>3, ReadingKeepsDesk
  <2>2. CASE ~Correctable(desk[c].at)
    BY <1>1, <1>3, <2>2, ReadingKeepsDesk DEF CheckContext
  <2>3. QED
    BY <2>1, <2>2
<1>4. CASE Correct(c)
  BY <1>4, CorrectKeepsDesk DEF Correct, Seated, IndDesk, Vouched
<1>5. CASE Leave(c)
  BY <1>1, <1>5, ReadingKeepsDesk DEF Leave
<1>6. QED
  BY <1>2, <1>3, <1>4, <1>5

LEMMA DeskStep == IndDesk /\ [FollowUpNext]_followUpVars => IndDesk'
<1> SUFFICES ASSUME IndDesk, [FollowUpNext]_followUpVars PROVE IndDesk'
  OBVIOUS
<1>1. ASSUME NEW n \in Numbers, (\E g \in Goods : ScanOut(n, g) \/ ComeBack(n, g)) \/ CompleteSale(n) PROVE IndDesk'
  BY <1>1, SettledKeepsDesk DEF ScanOut, ComeBack, CompleteSale
<1>2. ASSUME NEW n \in Numbers, StartSale(n) PROVE IndDesk'
  BY <1>2, StartIsNotBilled, SettledKeepsDesk DEF StartSale
<1>3. ASSUME NEW n \in Numbers, NEW b \in BOOLEAN, UploadSale(n, b) PROVE IndDesk'
  BY <1>3, UploadRewrites, SaleStepKeepsDesk DEF UploadSale, IndDesk, DeskTypes
<1>4. ASSUME NEW b \in Batches, MarkSapSynced(b) PROVE IndDesk'
  <2>1. CASE adapter.at \in Numbers
    BY <1>4, <2>1, OutsideStepKeepsDesk DEF MarkSapSynced
  <2>2. CASE adapter.at \notin Numbers
    <3>1. sale' = sale
      BY <1>4, <2>2 DEF MarkSapSynced, IndDesk, DeskTypes
    <3>2. QED
      BY <1>4, <3>1, OutsideStepKeepsDesk DEF MarkSapSynced
  <2>3. QED
    BY <2>1, <2>2
<1>5. CASE Pull \/ Post \/ EndPull \/ \E n \in Numbers : Fetch(n)
  BY <1>5, OutsideStepKeepsDesk DEF Pull, Post, EndPull, Fetch
<1>6. CASE UNCHANGED followUpVars
  BY <1>6, OutsideStepKeepsDesk DEF followUpVars
<1>7. QED
  BY <1>1, <1>2, <1>3, <1>4, <1>5, <1>6, RaiseKeepsDesk, SupervisorKeepsDesk DEF FollowUpNext

\* Two supervisors at one exception correct it once, and the exception of a dispatch not before
\* its invoice was DISPATCHED, by a dispatch that was completed or by an upload.
THEOREM ExceptionsAreCorrectedOnce == FollowUpSpec => []CorrectionsStand
<1>1. IndDesk => CorrectionsStand
  BY DEF IndDesk
<1>2. QED
  BY <1>1, CasesStart, DeskStep, PTL DEF FollowUpSpec

-----------------------------------------------------------------------------
(* The export (FollowUp).  What the adapter holds was out on a dispatch    *)
(* that had been completed, so it is something (CompletedIsNotEmpty), and  *)
(* of what went out on a dispatch nothing is lost by a return (InHand).    *)

ExportTypes ==
  /\ sale \in [Numbers -> SaleRow]
  /\ active \in [Numbers -> SUBSET Goods]
  /\ returned \in [Numbers -> SUBSET Goods]
  /\ told \in [Numbers -> SUBSET Goods]
  /\ adapter \in [pc : {"idle", "pulled", "fetched", "posted"}, todo : SUBSET Numbers,
                  at : Numbers \cup {Missing}, goods : SUBSET Goods]

CompletedIsNotEmpty == \A n \in Numbers : sale[n].completed => SerialsForDispatch(n) # {}
InHand ==
  /\ adapter.pc \in {"fetched", "posted"} =>
       /\ adapter.at \in Numbers /\ sale[adapter.at].completed
       /\ adapter.goods # {} /\ adapter.goods \subseteq SerialsForDispatch(adapter.at)
  /\ adapter.pc = "posted" => told[adapter.at] = adapter.goods
Synced == \A n \in Numbers : sale[n].sap # Missing =>
  sale[n].completed /\ told[n] # {} /\ told[n] \subseteq SerialsForDispatch(n)

IndExport ==
  /\ ExportTypes
  /\ SettledIsCompleted
  /\ CompletedIsNotEmpty
  /\ InHand
  /\ Synced

LEMMA ExportInit == FollowUpInit => IndExport
BY DEF FollowUpInit, Unsold, IndExport, ExportTypes, SaleRow, Resting, SettledIsCompleted, CompletedIsNotEmpty,
   InHand, Synced

\* A step of dispatch or return: dispatches only fill up and complete.
LEMMA SaleStepKeepsExport ==
    ASSUME IndExport, UNCHANGED <<adapter, told>>, ExportTypes', SettledIsCompleted',
           \A n \in Numbers : /\ sale[n].completed => sale'[n].completed
                              /\ sale'[n].sap = sale[n].sap
                              /\ active[n] \cup returned[n] \subseteq active'[n] \cup returned'[n]
                              /\ sale'[n].completed => active'[n] \cup returned'[n] # {}
    PROVE  IndExport'
<1>1. CompletedIsNotEmpty'
  BY DEF CompletedIsNotEmpty, SerialsForDispatch
<1>2. InHand'
  BY DEF IndExport, InHand, SerialsForDispatch
<1>3. Synced'
  BY DEF IndExport, Synced, SerialsForDispatch
<1>4. QED
  BY <1>1, <1>2, <1>3 DEF IndExport

LEMMA ScanOutKeepsExport ==
    ASSUME IndExport, NEW n \in Numbers, NEW g \in Goods, ScanOut(n, g)
    PROVE  IndExport'
<1>1. PICK o \in Outcomes(n) : Settled(n, o[1], o[2])
  BY DEF ScanOut
<1>2. /\ sale' \in [Numbers -> SaleRow] /\ SettledIsCompleted'
      /\ \A m \in Numbers : /\ sale[m].completed => sale'[m].completed
                            /\ sale'[m].sap = sale[m].sap
                            /\ m # n => sale'[m] = sale[m]
  BY <1>1, SettlingCompletes DEF IndExport, ExportTypes
<1>3. /\ active' = [active EXCEPT ![n] = active[n] \cup {g}]
      /\ UNCHANGED <<returned, adapter, told>>
  BY DEF ScanOut
<1>4. ExportTypes'
  BY <1>2, <1>3 DEF IndExport, ExportTypes
<1>5. \A m \in Numbers : /\ active[m] \cup returned[m] \subseteq active'[m] \cup returned'[m]
                         /\ sale'[m].completed => active'[m] \cup returned'[m] # {}
  BY <1>2, <1>3 DEF IndExport, ExportTypes, CompletedIsNotEmpty, SerialsForDispatch
<1>6. QED
  BY <1>2, <1>3, <1>4, <1>5, SaleStepKeepsExport

\* The dispatch is started, or asked to complete: it completes with something on it.
LEMMA CompletingKeepsExport ==
    ASSUME IndExport, NEW n \in Numbers, NEW o \in Outcomes(n), Settled(n, o[1], o[2]),
           o[1] = "DISPATCHED" => active[n] # {}, UNCHANGED <<active, returned, adapter, told>>
    PROVE  IndExport'
<1>1. /\ sale' \in [Numbers -> SaleRow] /\ SettledIsCompleted'
      /\ \A m \in Numbers : /\ sale[m].completed => sale'[m].completed
                            /\ sale'[m].sap = sale[m].sap
                            /\ m # n => sale'[m] = sale[m]
      /\ o[1] # "DISPATCHED" => (sale'[n].completed <=> sale[n].completed)
  BY SettlingCompletes DEF IndExport, ExportTypes
<1>2. ExportTypes'
  BY <1>1 DEF IndExport, ExportTypes
<1>3. \A m \in Numbers : sale'[m].completed => active'[m] \cup returned'[m] # {}
  BY <1>1 DEF IndExport, CompletedIsNotEmpty, SerialsForDispatch
<1>4. QED
  BY <1>1, <1>2, <1>3, SaleStepKeepsExport

LEMMA ComeBackKeepsExport ==
    ASSUME IndExport, NEW n \in Numbers, NEW g \in Goods, ComeBack(n, g)
    PROVE  IndExport'
<1>1. PICK o \in Outcomes(n) : o[1] = "DISPATCHED" /\ Settled(n, o[1], o[2])
  BY DEF ComeBack
<1>2. /\ sale' \in [Numbers -> SaleRow] /\ SettledIsCompleted'
      /\ \A m \in Numbers : /\ sale[m].completed => sale'[m].completed
                            /\ sale'[m].sap = sale[m].sap
                            /\ m # n => sale'[m] = sale[m]
  BY <1>1, SettlingCompletes DEF IndExport, ExportTypes
<1>3. /\ active' = [active EXCEPT ![n] = active[n] \ {g}]
      /\ returned' = [returned EXCEPT ![n] = returned[n] \cup {g}]
      /\ g \in active[n] /\ UNCHANGED <<adapter, told>>
  BY DEF ComeBack
<1>4. ExportTypes'
  BY <1>2, <1>3 DEF IndExport, ExportTypes
<1>5. \A m \in Numbers : active[m] \cup returned[m] \subseteq active'[m] \cup returned'[m]
  BY <1>3 DEF IndExport, ExportTypes
<1>6. \A m \in Numbers : sale'[m].completed => active'[m] \cup returned'[m] # {}
  BY <1>2, <1>3, <1>5 DEF IndExport, ExportTypes, CompletedIsNotEmpty, SerialsForDispatch
<1>7. QED
  BY <1>2, <1>3, <1>4, <1>5, <1>6, SaleStepKeepsExport

LEMMA AdapterKeepsExport ==
    ASSUME IndExport,
           Pull \/ Post \/ EndPull \/ (\E n \in Numbers : Fetch(n)) \/ \E b \in Batches : MarkSapSynced(b)
    PROVE  IndExport'
<1>1. ASSUME UNCHANGED <<sale, active, returned, told>>, adapter'.pc \notin {"fetched", "posted"},
             adapter' \in [pc : {"idle", "pulled", "fetched", "posted"}, todo : SUBSET Numbers,
                           at : Numbers \cup {Missing}, goods : SUBSET Goods]
      PROVE  IndExport'
  BY <1>1 DEF IndExport, ExportTypes, SettledIsCompleted, CompletedIsNotEmpty, InHand, Synced,
              SerialsForDispatch
<1>2. CASE Pull
  <2>1. PICK some \in SUBSET Pending : adapter' = [Resting EXCEPT !.pc = "pulled", !.todo = some]
    BY <1>2 DEF Pull
  <2>2. some \subseteq Numbers
    BY DEF Pending
  <2>3. QED
    BY <1>1, <1>2, <2>1, <2>2 DEF Pull, Resting
<1>3. CASE EndPull
  BY <1>1, <1>3 DEF EndPull, Resting
<1>4. ASSUME NEW n \in Numbers, Fetch(n) PROVE IndExport'
  <2>1. CASE sale[n].status = "DISPATCHED"
    <3>1. /\ adapter' = [adapter EXCEPT !.pc = "fetched", !.todo = adapter.todo \ {n}, !.at = n,
                                        !.goods = SerialsForDispatch(n)]
          /\ UNCHANGED <<sale, active, returned, told>>
      BY <1>4, <2>1 DEF Fetch
    <3>2. /\ SerialsForDispatch(n) \subseteq Goods /\ SerialsForDispatch(n) # {}
          /\ sale[n].completed
      BY <2>1 DEF IndExport, ExportTypes, SerialsForDispatch, SettledIsCompleted, CompletedIsNotEmpty
    <3>3. /\ ExportTypes' /\ adapter'.pc = "fetched" /\ adapter'.at = n
          /\ adapter'.goods = SerialsForDispatch(n)
      BY <3>1, <3>2 DEF IndExport, ExportTypes
    <3>4. QED
      BY <3>1, <3>2, <3>3 DEF IndExport, SettledIsCompleted, CompletedIsNotEmpty, InHand, Synced,
                              SerialsForDispatch
  <2>2. CASE sale[n].status # "DISPATCHED"
    <3>1. /\ adapter' = [adapter EXCEPT !.todo = adapter.todo \ {n}] /\ adapter.pc = "pulled"
          /\ UNCHANGED <<sale, active, returned, told>>
      BY <1>4, <2>2 DEF Fetch
    <3>2. QED
      BY <1>1, <3>1 DEF IndExport, ExportTypes
  <2>3. QED
    BY <2>1, <2>2
<1>5. CASE Post
  <2>1. /\ adapter.pc = "fetched" /\ adapter.at \in Numbers /\ UNCHANGED <<sale, active, returned>>
        /\ told' = [told EXCEPT ![adapter.at] = adapter.goods]
        /\ adapter' = [adapter EXCEPT !.pc = "posted"]
    BY <1>5 DEF Post, IndExport, InHand
  <2>2. /\ ExportTypes' /\ adapter'.pc = "posted" /\ adapter'.at = adapter.at
        /\ adapter'.goods = adapter.goods /\ told'[adapter.at] = adapter.goods
        /\ \A m \in Numbers : m # adapter.at => told'[m] = told[m]
    BY <2>1 DEF IndExport, ExportTypes
  <2>3. InHand'
    BY <2>1, <2>2 DEF IndExport, InHand, SerialsForDispatch
  <2>4. Synced'
    BY <2>1, <2>2 DEF IndExport, InHand, Synced, SerialsForDispatch
  <2>5. QED
    BY <2>1, <2>2, <2>3, <2>4 DEF IndExport, SettledIsCompleted, CompletedIsNotEmpty, SerialsForDispatch
<1>6. ASSUME NEW b \in Batches, MarkSapSynced(b) PROVE IndExport'
  <2>1. /\ adapter.pc = "posted" /\ adapter.at \in Numbers /\ UNCHANGED <<active, returned, told>>
        /\ sale' = [sale EXCEPT ![adapter.at].sap = b]
        /\ adapter' = [adapter EXCEPT !.pc = "pulled", !.at = Missing, !.goods = {}]
    BY <1>6 DEF MarkSapSynced, IndExport, InHand
  <2>2. /\ sale' \in [Numbers -> SaleRow]
        /\ \A m \in Numbers : /\ sale'[m].completed = sale[m].completed
                              /\ sale'[m].status = sale[m].status /\ sale'[m].billed = sale[m].billed
                              /\ sale'[m].settled = sale[m].settled /\ sale'[m].rewritten = sale[m].rewritten
                              /\ m # adapter.at => sale'[m].sap = sale[m].sap
    BY <2>1 DEF IndExport, ExportTypes, SaleRow
  <2>3. ExportTypes' /\ adapter'.pc = "pulled"
    BY <2>1, <2>2 DEF IndExport, ExportTypes
  <2>4. SettledIsCompleted' /\ CompletedIsNotEmpty' /\ InHand'
    BY <2>1, <2>2, <2>3 DEF IndExport, SettledIsCompleted, CompletedIsNotEmpty, InHand, SerialsForDispatch
  <2>5. Synced'
    BY <2>1, <2>2 DEF IndExport, InHand, Synced, SerialsForDispatch
  <2>6. QED
    BY <2>3, <2>4, <2>5 DEF IndExport
<1>7. QED
  BY <1>2, <1>3, <1>4, <1>5, <1>6

LEMMA ExportStep == IndExport /\ [FollowUpNext]_followUpVars => IndExport'
<1> SUFFICES ASSUME IndExport, [FollowUpNext]_followUpVars PROVE IndExport'
  OBVIOUS
<1>1. ASSUME UNCHANGED <<sale, active, returned, adapter, told>> PROVE IndExport'
  BY <1>1 DEF IndExport, ExportTypes, SettledIsCompleted, CompletedIsNotEmpty, InHand, Synced,
              SerialsForDispatch
<1>2. ASSUME NEW e \in Cases, NEW k \in Kinds, NEW n \in Numbers, NEW g \in Named, Raise(e, k, n, g)
      PROVE  IndExport'
  BY <1>1, <1>2 DEF Raise
<1>3. ASSUME NEW c \in Supervisors,
             (\E e \in Cases : Find(c, e)) \/ CheckContext(c) \/ Correct(c) \/ Leave(c)
      PROVE  IndExport'
  BY <1>1, <1>3 DEF Find, CheckContext, Correct, Leave
<1>4. CASE UNCHANGED followUpVars
  BY <1>1, <1>4 DEF followUpVars
<1>5. ASSUME NEW n \in Numbers, CompleteSale(n) PROVE IndExport'
  <2>1. PICK o \in Outcomes(n) : (o # <<"PENDING", FALSE>> => active[n] # {}) /\ Settled(n, o[1], o[2])
    BY <1>5 DEF CompleteSale
  <2>2. o[1] = "DISPATCHED" => active[n] # {}
    <3>1. <<"PENDING", FALSE>>[1] = "PENDING"
      OBVIOUS
    <3>2. QED
      BY <2>1, <3>1
  <2>3. QED
    BY <1>5, <2>1, <2>2, CompletingKeepsExport DEF CompleteSale
<1>6. ASSUME NEW n \in Numbers, StartSale(n) PROVE IndExport'
  <2>1. <<"PENDING", FALSE>>[1] # "DISPATCHED"
    OBVIOUS
  <2>2. QED
    BY <1>6, <2>1, StartIsNotBilled, CompletingKeepsExport DEF StartSale
<1>7. ASSUME NEW n \in Numbers, NEW b \in BOOLEAN, UploadSale(n, b) PROVE IndExport'
  <2>1. UNCHANGED <<active, returned, adapter, told>>
    BY <1>7 DEF UploadSale
  <2>2. /\ sale' \in [Numbers -> SaleRow] /\ SettledIsCompleted'
        /\ \A m \in Numbers : sale'[m].completed = sale[m].completed /\ sale'[m].sap = sale[m].sap
    BY <1>7, UploadRewrites DEF IndExport, ExportTypes
  <2>3. ExportTypes'
    BY <2>1, <2>2 DEF IndExport, ExportTypes
  <2>4. \A m \in Numbers : sale'[m].completed => active'[m] \cup returned'[m] # {}
    BY <2>1, <2>2 DEF IndExport, CompletedIsNotEmpty, SerialsForDispatch
  <2>5. QED
    BY <2>1, <2>2, <2>3, <2>4, SaleStepKeepsExport
<1>8. QED
  BY <1>2, <1>3, <1>4, <1>5, <1>6, <1>7, ScanOutKeepsExport, ComeBackKeepsExport, AdapterKeepsExport
     DEF FollowUpNext

\* What bears a reference of SAP was completed, and SAP was told of something, all of which
\* is still out on the dispatch or known to have come back, whenever the adapter died.
THEOREM SyncedDispatchesWereSent == FollowUpSpec => []SyncedWasSent
<1>1. IndExport => SyncedWasSent
  BY DEF IndExport, Synced, SyncedWasSent, SerialsForDispatch
<1>2. QED
  BY <1>1, ExportInit, ExportStep, PTL DEF FollowUpSpec

(* The desk, the dispatches and the adapter are well formed, whatever      *)
(* uploads, dispatches and returns write (exceptionCorrectionService.js,   *)
(* dispatchService.js:481-511).                                            *)
THEOREM FollowUpTypesHold == FollowUpSpec => []FollowUpTypeOK
<1>1. IndDesk /\ IndExport => FollowUpTypeOK
  BY DEF IndDesk, DeskTypes, CaseRow, IndExport, ExportTypes, SaleRow, SettledIsCompleted, FollowUpTypeOK
<1> QED
  BY <1>1, CasesStart, DeskStep, ExportInit, ExportStep, PTL DEF FollowUpSpec

-----------------------------------------------------------------------------
(* Uploads (Catalogue).  An invoice's route is decided by one statement    *)
(* from one row, so whoever writes last leaves a whole one.                *)

Shaped(x) == x = [status |-> x.status, type |-> x.type, from |-> x.from, to |-> x.to, by |-> x.by]
RoutesWhole ==
  /\ invoice = [r \in Invoices |-> invoice[r]]
  /\ \A r \in Invoices : invoice[r] # Blank => Shaped(invoice[r])
  /\ RoutesAreWhole

LEMMA StatusKeepsShape ==
    ASSUME NEW x, Shaped(x), NEW s, NEW new, new = [x EXCEPT !.status = s, !.by = Blank]
    PROVE  Shaped(new) /\ new.type = x.type /\ new.from = x.from /\ new.to = x.to
<1>1. PICK p, t, f, o, b : x = [status |-> p, type |-> t, from |-> f, to |-> o, by |-> b]
  BY DEF Shaped
<1>2. new = [status |-> s, type |-> t, from |-> f, to |-> o, by |-> Blank]
  BY <1>1
<1>3. QED
  BY <1>1, <1>2 DEF Shaped

LEMMA HeaderRow ==
    ASSUME NEW a \in Admins, Header(a), ~UNCHANGED invoice
    PROVE  \E row : RouteAccepted(row) /\ UpsertInvoice(a, row)
BY DEF Header

LEMMA RoutesStep == RoutesWhole /\ [CatalogueNext]_catalogueVars => RoutesWhole'
<1> SUFFICES ASSUME RoutesWhole, [CatalogueNext]_catalogueVars PROVE RoutesWhole'
  OBVIOUS
<1>1. CASE UNCHANGED invoice
  BY <1>1 DEF RoutesWhole, RoutesAreWhole, Shaped
<1>2. ASSUME NEW a \in Admins, Header(a), ~UNCHANGED invoice PROVE RoutesWhole'
  <2>1. PICK row : RouteAccepted(row) /\ UpsertInvoice(a, row)
    BY <1>2, HeaderRow
  <2> DEFINE new == [status |-> StatusOf(row), type |-> row.type, from |-> row.from, to |-> row.to, by |-> a]
  <2>2. invoice' = [invoice EXCEPT ![row.ref] = new]
    BY <2>1 DEF UpsertInvoice
  <2>3. /\ new.type = row.type /\ new.from = row.from /\ new.to = row.to
        /\ Shaped(new)
    BY DEF Shaped
  <2>4. IF new.type = "TRANSFER" THEN new.from \in Sites /\ new.to \in Sites \ {new.from}
        ELSE new.from = Blank /\ new.to = Blank
    BY <2>1, <2>3 DEF RouteAccepted
  <2> HIDE DEF new
  <2>5. /\ invoice' = [r \in Invoices |-> invoice'[r]]
        /\ \A r \in Invoices : invoice'[r] = new \/ invoice'[r] = invoice[r]
    BY <2>2 DEF RoutesWhole
  <2>6. QED
    BY <2>3, <2>4, <2>5 DEF RoutesWhole, RoutesAreWhole, Shaped
<1>3. ASSUME NEW r \in Invoices, NEW s \in Moves, SetStatus(r, s) PROVE RoutesWhole'
  <2>0. PICK old : old = invoice[r]
    OBVIOUS
  <2>a. PICK new : new = [old EXCEPT !.status = s, !.by = Blank]
    OBVIOUS
  <2>1. invoice' = [invoice EXCEPT ![r] = new] /\ invoice[r] # Blank
    BY <1>3, <2>0, <2>a DEF SetStatus, RoutesWhole
  <2>2. Shaped(new) /\ new.type = old.type /\ new.from = old.from /\ new.to = old.to
    <3>1. Shaped(old)
      BY <2>0, <2>1 DEF RoutesWhole
    <3>2. QED
      BY <2>a, <3>1, StatusKeepsShape
  <2>3. /\ invoice' = [q \in Invoices |-> invoice'[q]] /\ invoice'[r] = new
        /\ \A q \in Invoices : q # r => invoice'[q] = invoice[q]
    BY <2>1 DEF RoutesWhole
  <2>4. QED
    BY <2>0, <2>1, <2>2, <2>3 DEF RoutesWhole, RoutesAreWhole, Shaped
<1>4. CASE UNCHANGED catalogueVars
  BY <1>1, <1>4 DEF catalogueVars
<1>5. ASSUME NEW a \in Admins,
             \/ \E f \in ProductFiles : ImportProducts(a, f)
             \/ \E f \in InvoiceFiles : ImportInvoices(a, f)
             \/ ProductRow(a) \/ ProductRowFails(a) \/ LineRow(a) \/ InvoiceFails(a)
             \/ EndUpload(a) \/ UploadDies(a)
      PROVE  RoutesWhole'
  BY <1>1, <1>5 DEF ImportProducts, ImportInvoices, Start, ProductRow, ProductRowFails, LineRow,
                    InvoiceFails, EndUpload, UploadDies
<1>6. QED
  BY <1>1, <1>2, <1>3, <1>4, <1>5 DEF CatalogueNext

\* Uploads of two administrators, of one reference as a customer's invoice and as a
\* transfer too, leave it with the whole route of one of them.
THEOREM UploadsLeaveWholeRoutes == CatalogueSpec => []RoutesAreWhole
<1>1. CatalogueInit => RoutesWhole
  BY DEF CatalogueInit, RoutesWhole, RoutesAreWhole
<1>2. RoutesWhole => RoutesAreWhole
  BY DEF RoutesWhole
<1>3. QED
  BY <1>1, <1>2, RoutesStep, PTL DEF CatalogueSpec

-----------------------------------------------------------------------------
(* Rows of an upload.  An upload works its tasks off in their order, so    *)
(* those that are left are the last ones (JobSound), and what is behind    *)
(* and was not reported is in the tables, the last row of a key with what  *)
(* it says unless the key has another writer since (RowsKept).             *)

ProductRecs == [name : Titles \cup {Blank}, battery : BOOLEAN, by : Admins]
InvoiceRecs == [status : InvoiceStatuses \cup Moves, type : {"CUSTOMER", "TRANSFER"},
                from : Sites \cup {Blank}, to : Sites \cup {Blank}, by : Admins \cup {Blank}]
LineRecs == [code : Codes \cup {Blank}, qty : Nat, by : Admins]
JobRecs == [kind : {"none", "products", "invoices"}, file : {<<>>} \cup ProductFiles \cup InvoiceFiles,
            todo : SUBSET (Nat \X Nat), errors : SUBSET (Nat \X Nat)]
TablesTyped ==
  /\ product \in [Codes -> {Blank} \cup ProductRecs]
  /\ invoice \in [Invoices -> {Blank} \cup InvoiceRecs]
  /\ line \in [Invoices \X LineNos -> {Blank} \cup LineRecs]
  /\ job \in [Admins -> JobRecs]

Tasks(q) == IF q.kind = "products" THEN ProductTasks(q.file) ELSE InvoiceTasks(q.file)
JobSound(q) ==
  /\ q.kind = "none" => q.todo = {}
  /\ q.kind = "products" => q.file \in ProductFiles
  /\ q.kind = "invoices" => q.file \in InvoiceFiles
  /\ q.todo \subseteq Tasks(q)
  /\ \A t \in q.todo, u \in Tasks(q) : Before(t, u) => u \in q.todo
  /\ q.todo \cap q.errors = {}

ProductsKept(a) == job[a].kind = "products" =>
  \A c \in Codes : \A i \in ProductsPassed(a, c) :
    /\ product[c] # Blank
    /\ (\A j \in ProductsPassed(a, c) : j <= i) /\ product[c].by = a
         => product[c].name = job[a].file[i].name
HeadersKept(a) == job[a].kind = "invoices" =>
  \A i \in Referenced(job[a].file) :
    <<First(job[a].file, i), 0>> \notin job[a].todo \cup job[a].errors
      => invoice[job[a].file[i].ref] # Blank
LinesKept(a) == job[a].kind = "invoices" =>
  \A k \in Invoices \X LineNos : \A i \in LinesPassed(a, k) :
    /\ line[k] # Blank
    /\ (\A j \in LinesPassed(a, k) : j <= i) /\ line[k].by = a
         => line[k].qty = job[a].file[i].qty
RowsKept ==
  /\ TablesTyped
  /\ \A a \in Admins : JobSound(job[a]) /\ ProductsKept(a) /\ HeadersKept(a) /\ LinesKept(a)

LEMMA ProductFile == \A f \in ProductFiles : Len(f) \in Nat /\ DOMAIN f = 1..Len(f)
  /\ \A i \in DOMAIN f : f[i] \in ProductRows
BY CatalogueAssumption
LEMMA InvoiceFile == \A f \in InvoiceFiles : Len(f) \in Nat /\ DOMAIN f = 1..Len(f)
  /\ \A i \in DOMAIN f : f[i] \in InvoiceRows
BY CatalogueAssumption

LEMMA FirstIsFirst ==
    ASSUME NEW f \in InvoiceFiles, NEW i \in DOMAIN f
    PROVE  /\ First(f, i) \in DOMAIN f /\ f[First(f, i)].ref = f[i].ref
           /\ \A k \in 1..(First(f, i) - 1) : f[k].ref # f[i].ref
<1> DEFINE T == {j \in DOMAIN f : f[j].ref = f[i].ref}
<1>1. T \subseteq Nat /\ i \in T /\ DOMAIN f = 1..Len(f) /\ Len(f) \in Nat
  BY InvoiceFile
<1>2. \A j : j \in T <=> j \in DOMAIN f /\ f[j].ref = f[i].ref
  OBVIOUS
<1> HIDE DEF T
<1>3. PICK m \in T : \A k \in T : m <= k
  BY <1>1, LeastElement
<1>4. m \in DOMAIN f /\ f[m].ref = f[i].ref
  BY <1>2
<1>5. ASSUME NEW k \in 1..(m - 1) PROVE f[k].ref # f[i].ref
  <2>1. k \in DOMAIN f /\ k \in Nat /\ m \in Nat /\ ~ (m <= k)
    BY <1>1, <1>4
  <2>2. QED
    BY <1>2, <1>3, <2>1
<1>6. QED
  BY <1>4, <1>5 DEF First

LEMMA SameFirst ==
    ASSUME NEW f \in InvoiceFiles, NEW i \in DOMAIN f, NEW j \in DOMAIN f, f[i].ref = f[j].ref
    PROVE  First(f, i) = First(f, j)
<1> DEFINE p == First(f, i)  q == First(f, j)
<1>1. /\ p \in DOMAIN f /\ f[p].ref = f[i].ref /\ \A k \in 1..(p - 1) : f[k].ref # f[i].ref
      /\ q \in DOMAIN f /\ f[q].ref = f[j].ref /\ \A k \in 1..(q - 1) : f[k].ref # f[j].ref
  BY FirstIsFirst
<1>2. DOMAIN f = 1..Len(f) /\ Len(f) \in Nat
  BY InvoiceFile
<1> HIDE DEF p, q
<1>3. ~ (p < q) /\ ~ (q < p)
  BY <1>1, <1>2
<1>4. p = q
  BY <1>1, <1>2, <1>3
<1>5. QED
  BY <1>4 DEF p, q

LEMMA ProductTask ==
    ASSUME NEW f \in ProductFiles, NEW t \in ProductTasks(f)
    PROVE  t \in Nat \X Nat /\ t[1] \in DOMAIN f /\ t[2] = 0 /\ t = <<t[1], 0>>
BY ProductFile DEF ProductTasks

LEMMA InvoiceTask ==
    ASSUME NEW f \in InvoiceFiles, NEW t \in InvoiceTasks(f)
    PROVE  /\ t \in Nat \X Nat /\ t[1] \in Referenced(f)
           /\ t[2] = 0 \/ (t[2] > 0 /\ t[2] \in WithLine(f) /\ t[1] = First(f, t[2]))
<1>1. \A i \in Referenced(f) : /\ i \in DOMAIN f /\ i \in Nat /\ i > 0
                               /\ First(f, i) \in Referenced(f) /\ First(f, i) \in Nat
  BY InvoiceFile, FirstIsFirst DEF Referenced
<1>2. WithLine(f) \subseteq Referenced(f)
  BY DEF WithLine
<1>3. CASE \E i \in Referenced(f) : t = <<First(f, i), 0>>
  BY <1>1, <1>3
<1>4. CASE \E i \in WithLine(f) : t = <<First(f, i), i>>
  BY <1>1, <1>2, <1>4
<1>5. QED
  BY <1>3, <1>4 DEF InvoiceTasks

LEMMA TaskIsPair ==
    ASSUME NEW q \in JobRecs, JobSound(q), q.kind # "none"
    PROVE  Tasks(q) \subseteq Nat \X Nat
BY ProductTask, InvoiceTask DEF Tasks, JobSound, JobRecs

\* What is left stays the end of the list: t is the next task of q.
LEMMA TaskDone ==
    ASSUME NEW q \in JobRecs, JobSound(q), q.kind # "none",
           NEW t \in q.todo, \A u \in q.todo : u = t \/ Before(t, u),
           NEW r \in JobRecs, r.kind = q.kind, r.file = q.file, r.todo = q.todo \ {t},
           r.errors \subseteq q.errors \cup {t}
    PROVE  JobSound(r)
<1>1. Tasks(q) \subseteq Nat \X Nat /\ t \in Tasks(q)
  BY TaskIsPair DEF JobSound
<1>2. Tasks(r) = Tasks(q)
  BY DEF Tasks
<1>3. ASSUME NEW u \in r.todo, NEW v \in Tasks(q), Before(u, v) PROVE v \in r.todo
  <2>1. v \in q.todo /\ u \in q.todo /\ u # t
    BY <1>3 DEF JobSound
  <2>2. Before(t, u)
    BY <2>1
  <2>3. /\ t[1] \in Nat /\ t[2] \in Nat /\ u[1] \in Nat /\ u[2] \in Nat /\ v[1] \in Nat /\ v[2] \in Nat
    BY <1>1, <2>1 DEF JobSound
  <2>4. v # t
    BY <1>3, <2>2, <2>3 DEF Before
  <2>5. QED
    BY <2>1, <2>4
<1>4. QED
  BY <1>1, <1>2, <1>3 DEF JobSound

LEMMA TaskSkipped ==
    ASSUME NEW q \in JobRecs, JobSound(q), q.kind # "none",
           NEW t \in q.todo, \A u \in q.todo : u = t \/ Before(t, u),
           NEW r \in JobRecs, r.kind = q.kind, r.file = q.file,
           r.todo = {u \in q.todo : u[1] # t[1]}, r.errors = q.errors \cup {<<t[1], 0>>}
    PROVE  JobSound(r)
<1>1. Tasks(q) \subseteq Nat \X Nat /\ t \in Tasks(q)
  BY TaskIsPair DEF JobSound
<1>2. Tasks(r) = Tasks(q)
  BY DEF Tasks
<1>3. ASSUME NEW u \in r.todo, NEW v \in Tasks(q), Before(u, v) PROVE v \in r.todo
  <2>1. v \in q.todo /\ u \in q.todo /\ u[1] # t[1]
    BY <1>3 DEF JobSound
  <2>2. Before(t, u)
    BY <2>1
  <2>3. /\ t[1] \in Nat /\ t[2] \in Nat /\ u[1] \in Nat /\ u[2] \in Nat /\ v[1] \in Nat /\ v[2] \in Nat
    BY <1>1, <2>1 DEF JobSound
  <2>4. v[1] # t[1]
    BY <1>3, <2>1, <2>2, <2>3 DEF Before
  <2>5. QED
    BY <2>1, <2>4
<1>4. r.todo \cap r.errors = {}
  BY DEF JobSound
<1>5. QED
  BY <1>1, <1>2, <1>3, <1>4 DEF JobSound

\* An upload that starts has everything before it.
LEMMA TasksListed ==
    ASSUME NEW q \in JobRecs, q.kind # "none", q.kind = "products" => q.file \in ProductFiles,
           q.kind = "invoices" => q.file \in InvoiceFiles, q.todo = Tasks(q),
           q.errors = {} \/ (q.kind = "invoices" /\ q.errors = {<<i, 0>> : i \in DOMAIN q.file \ Referenced(q.file)})
    PROVE  JobSound(q)
<1>1. q.todo \cap q.errors = {}
  <2>1. CASE q.errors = {}
    BY <2>1
  <2>2. CASE q.kind = "invoices" /\ q.errors = {<<i, 0>> : i \in DOMAIN q.file \ Referenced(q.file)}
    <3>1. \A t \in q.todo : t[1] \in Referenced(q.file)
      BY <2>2, InvoiceTask DEF Tasks
    <3>2. \A e \in q.errors : e[1] \notin Referenced(q.file)
      BY <2>2
    <3>3. QED
      BY <3>1, <3>2
  <2>3. QED
    BY <2>1, <2>2
<1>2. QED
  BY <1>1 DEF JobSound

\* An administrator who does nothing, while another one, or a dispatch, changes the tables.
LEMMA OthersWrite ==
    ASSUME TablesTyped, TablesTyped', NEW a \in Admins, job'[a] = job[a],
           \A c \in Codes : product'[c] = product[c] \/ (product'[c] # Blank /\ product'[c].by # a),
           \A r \in Invoices : invoice[r] # Blank => invoice'[r] # Blank,
           \A k \in Invoices \X LineNos : line'[k] = line[k] \/ (line'[k] # Blank /\ line'[k].by # a),
           JobSound(job[a]), ProductsKept(a), HeadersKept(a), LinesKept(a)
    PROVE  JobSound(job'[a]) /\ ProductsKept(a)' /\ HeadersKept(a)' /\ LinesKept(a)'
<1>1. \A c \in Codes : ProductsPassed(a, c)' = ProductsPassed(a, c)
  BY DEF ProductsPassed
<1>2. ProductsKept(a)'
  BY <1>1 DEF ProductsKept
<1>3. HeadersKept(a)'
  <2>1. SUFFICES ASSUME job[a].kind = "invoices", NEW i \in Referenced(job[a].file),
                        <<First(job[a].file, i), 0>> \notin job[a].todo \cup job[a].errors
                 PROVE  invoice'[job[a].file[i].ref] # Blank
    BY DEF HeadersKept
  <2>2. job[a].file[i].ref \in Invoices
    BY <2>1, InvoiceFile DEF JobSound, Referenced, InvoiceRows
  <2>3. QED
    BY <2>1, <2>2 DEF HeadersKept
<1>4. \A k : LinesPassed(a, k)' = LinesPassed(a, k)
  BY DEF LinesPassed, Passed
<1>5. LinesKept(a)'
  BY <1>4 DEF LinesKept
<1>6. QED
  BY <1>2, <1>3, <1>5

(* What a step of one administrator leaves to the others.                  *)
OnlyWrites(a) ==
  /\ \A b \in Admins : b # a => job'[b] = job[b]
  /\ \A c \in Codes : product'[c] = product[c] \/ (product'[c] # Blank /\ product'[c].by = a)
  /\ \A r \in Invoices : invoice[r] # Blank => invoice'[r] # Blank
  /\ \A k \in Invoices \X LineNos : line'[k] = line[k] \/ (line'[k] # Blank /\ line'[k].by = a)

LEMMA OwnAndOthers ==
    ASSUME RowsKept, TablesTyped', NEW a \in Admins, OnlyWrites(a),
           JobSound(job'[a]), ProductsKept(a)', HeadersKept(a)', LinesKept(a)'
    PROVE  RowsKept'
<1>1. ASSUME NEW b \in Admins, b # a
      PROVE  JobSound(job'[b]) /\ ProductsKept(b)' /\ HeadersKept(b)' /\ LinesKept(b)'
  <2>1. /\ job'[b] = job[b]
        /\ \A c \in Codes : product'[c] = product[c] \/ (product'[c] # Blank /\ product'[c].by # b)
        /\ \A r \in Invoices : invoice[r] # Blank => invoice'[r] # Blank
        /\ \A k \in Invoices \X LineNos : line'[k] = line[k] \/ (line'[k] # Blank /\ line'[k].by # b)
    BY <1>1 DEF OnlyWrites
  <2>2. QED
    BY <2>1, OthersWrite DEF RowsKept
<1>2. \A b \in Admins : /\ JobSound(job'[b]) /\ ProductsKept(b)' /\ HeadersKept(b)' /\ LinesKept(b)'
  BY <1>1
<1>3. QED
  BY <1>2 DEF RowsKept, JobSound, Tasks

LEMMA StartKeepsRows ==
    ASSUME RowsKept, NEW a \in Admins,
           \/ \E f \in ProductFiles : ImportProducts(a, f)
           \/ \E f \in InvoiceFiles : ImportInvoices(a, f)
    PROVE  RowsKept'
<1>1. CASE \E f \in ProductFiles : ImportProducts(a, f)
  <2>1. PICK f \in ProductFiles : ImportProducts(a, f)
    BY <1>1
  <2>2. PICK q : q = [kind |-> "products", file |-> f, todo |-> ProductTasks(f), errors |-> {}]
    OBVIOUS
  <2>3. q \in JobRecs /\ q.kind = "products" /\ q.file = f /\ q.todo = ProductTasks(f) /\ q.errors = {}
    BY <2>2, ProductTask DEF JobRecs
  <2>4. JobSound(q)
    BY <2>3, TasksListed DEF Tasks
  <2>5. job' = [job EXCEPT ![a] = q] /\ UNCHANGED <<product, invoice, line>>
    BY <2>1, <2>2 DEF ImportProducts, Start
  <2>6. TablesTyped' /\ job'[a] = q /\ OnlyWrites(a)
    BY <2>3, <2>5 DEF RowsKept, TablesTyped, OnlyWrites
  <2>7. ProductsKept(a)'
    BY <2>3, <2>6 DEF ProductsKept, ProductsPassed, ProductTasks
  <2>8. HeadersKept(a)' /\ LinesKept(a)'
    BY <2>3, <2>6 DEF HeadersKept, LinesKept
  <2>9. QED
    BY <2>4, <2>6, <2>7, <2>8, OwnAndOthers
<1>2. CASE \E f \in InvoiceFiles : ImportInvoices(a, f)
  <2>1. PICK f \in InvoiceFiles : ImportInvoices(a, f)
    BY <1>2
  <2>2. PICK q : q = [kind |-> "invoices", file |-> f, todo |-> InvoiceTasks(f),
                      errors |-> {<<i, 0>> : i \in DOMAIN f \ Referenced(f)}]
    OBVIOUS
  <2>3. q.kind = "invoices" /\ q.file = f /\ q.todo = InvoiceTasks(f)
        /\ q.errors = {<<i, 0>> : i \in DOMAIN f \ Referenced(f)}
    BY <2>2
  <2>a. q.todo \subseteq Nat \X Nat /\ q.errors \subseteq Nat \X Nat
    BY <2>3, InvoiceTask, InvoiceFile
  <2>b. q \in JobRecs
    BY <2>2, <2>3, <2>a DEF JobRecs
  <2>4. JobSound(q)
    BY <2>3, <2>b, TasksListed DEF Tasks
  <2>5. job' = [job EXCEPT ![a] = q] /\ UNCHANGED <<product, invoice, line>>
    BY <2>1, <2>2 DEF ImportInvoices, Start
  <2>6. TablesTyped' /\ job'[a] = q /\ OnlyWrites(a)
    BY <2>b, <2>5 DEF RowsKept, TablesTyped, OnlyWrites
  <2>7. ProductsKept(a)'
    BY <2>3, <2>6 DEF ProductsKept
  <2>8. HeadersKept(a)' /\ LinesKept(a)'
    <3>1. \A i \in Referenced(f) : <<First(f, i), 0>> \in q.todo
      BY <2>3 DEF InvoiceTasks
    <3>2. HeadersKept(a)'
      BY <2>3, <2>6, <3>1 DEF HeadersKept
    <3>3. \A k : LinesPassed(a, k)' = {}
      BY <2>3, <2>6, <3>1 DEF LinesPassed, Passed, WithLine
    <3>4. QED
      BY <3>2, <3>3 DEF LinesKept
  <2>9. QED
    BY <2>4, <2>6, <2>7, <2>8, OwnAndOthers
<1>3. QED
  BY <1>1, <1>2

LEMMA EndKeepsRows ==
    ASSUME RowsKept, NEW a \in Admins, EndUpload(a) \/ UploadDies(a)
    PROVE  RowsKept'
<1>1. job' = [job EXCEPT ![a] = NoJob] /\ UNCHANGED <<product, invoice, line>>
  BY DEF EndUpload, UploadDies
<1>2. NoJob \in JobRecs /\ NoJob.kind = "none" /\ NoJob.todo = {} /\ NoJob.errors = {}
  BY DEF NoJob, JobRecs
<1>3. TablesTyped' /\ job'[a] = NoJob /\ OnlyWrites(a)
  BY <1>1, <1>2 DEF RowsKept, TablesTyped, OnlyWrites
<1>4. JobSound(NoJob)
  BY <1>2 DEF JobSound
<1>5. ProductsKept(a)' /\ HeadersKept(a)' /\ LinesKept(a)'
  BY <1>2, <1>3 DEF ProductsKept, HeadersKept, LinesKept
<1>6. QED
  BY <1>3, <1>4, <1>5, OwnAndOthers

\* A step of an upload writes what is left of its file and what it reports, and no other upload.
LEMMA JobWritten ==
    ASSUME RowsKept, NEW a \in Admins, NEW row \in JobRecs, job' = [job EXCEPT ![a] = row]
    PROVE  job' \in [Admins -> JobRecs] /\ job'[a] = row /\ \A b \in Admins : b # a => job'[b] = job[b]
BY DEF RowsKept, TablesTyped

LEMMA ProductRowKeepsRows ==
    ASSUME RowsKept, NEW a \in Admins, ProductRow(a) \/ ProductRowFails(a)
    PROVE  RowsKept'
<1> DEFINE q == job[a]  r == job'[a]
<1>1. PICK t \in q.todo :
        /\ q.kind = "products" /\ \A u \in q.todo : u = t \/ Before(t, u)
        /\ UNCHANGED <<invoice, line>>
        /\ \/ Reported(a, t) /\ UNCHANGED product
           \/ UpsertProduct(a, q.file[t[1]]) /\ Done(a, t)
  BY DEF ProductRow, ProductRowFails, IsNext
<1>2. q \in JobRecs /\ JobSound(q) /\ q.file \in ProductFiles /\ t \in ProductTasks(q.file)
  BY <1>1 DEF RowsKept, TablesTyped, JobSound, Tasks
<1>3. t \in Nat \X Nat /\ t[1] \in DOMAIN q.file /\ t[2] = 0 /\ t = <<t[1], 0>>
  BY <1>2, ProductTask
<1>4. DOMAIN q.file = 1..Len(q.file) /\ q.file[t[1]] \in ProductRows
  BY <1>2, <1>3, ProductFile
<1>5. CASE Reported(a, t) /\ UNCHANGED product
  <2>1. /\ job' \in [Admins -> JobRecs] /\ \A b \in Admins : b # a => job'[b] = job[b]
        /\ r.kind = q.kind /\ r.file = q.file /\ r.todo = q.todo \ {t} /\ r.errors = q.errors \cup {t}
    <3>1. PICK left, failed : left = q.todo \ {t} /\ failed = q.errors \cup {t}
      OBVIOUS
    <3>2. PICK row : row = [q EXCEPT !.todo = left, !.errors = failed]
      OBVIOUS
    <3>3. left \subseteq Nat \X Nat /\ failed \subseteq Nat \X Nat
      BY <1>2, <1>3, <3>1 DEF JobRecs
    <3>4. row \in JobRecs /\ row.kind = q.kind /\ row.file = q.file /\ row.todo = left /\ row.errors = failed
      BY <1>2, <3>2, <3>3 DEF JobRecs
    <3>5. job' = [job EXCEPT ![a] = row]
      BY <1>5, <3>1, <3>2 DEF Reported
    <3>6. job' \in [Admins -> JobRecs] /\ r = row /\ \A b \in Admins : b # a => job'[b] = job[b]
      BY <3>4, <3>5, JobWritten
    <3>7. QED
      BY <3>1, <3>4, <3>6
  <2>2. TablesTyped' /\ OnlyWrites(a) /\ JobSound(r)
    BY <1>1, <1>2, <1>5, <2>1, TaskDone DEF RowsKept, TablesTyped, OnlyWrites
  <2>3. r.todo \cup r.errors = q.todo \cup q.errors
    BY <1>1, <2>1
  <2>4. \A c \in Codes : ProductsPassed(a, c)' = ProductsPassed(a, c)
    BY <2>1, <2>3 DEF ProductsPassed
  <2>5. ProductsKept(a)'
    <3>1. product' = product /\ job[a].file = job'[a].file /\ job[a].kind = job'[a].kind
      BY <1>5, <2>1
    <3>2. ProductsKept(a)
      BY DEF RowsKept
    <3>3. QED
      BY <2>4, <3>1, <3>2 DEF ProductsKept
  <2>6. HeadersKept(a)' /\ LinesKept(a)'
    BY <1>1, <2>1 DEF HeadersKept, LinesKept
  <2>7. QED
    BY <2>2, <2>5, <2>6, OwnAndOthers
<1>6. CASE UpsertProduct(a, q.file[t[1]]) /\ Done(a, t)
  <2>1. /\ job' \in [Admins -> JobRecs] /\ \A b \in Admins : b # a => job'[b] = job[b]
        /\ r.kind = q.kind /\ r.file = q.file /\ r.todo = q.todo \ {t} /\ r.errors = q.errors
    BY <1>1, <1>3, <1>6 DEF Done, RowsKept, TablesTyped, JobRecs
  <2>2. PICK row, new : /\ row = q.file[t[1]]
                        /\ new = [name |-> row.name, battery |-> row.battery, by |-> a]
    OBVIOUS
  <2>3. new \in ProductRecs /\ new # Blank /\ new.by = a /\ new.name = row.name
    BY <1>4, <2>2, CatalogueAssumption DEF ProductRows, ProductRecs
  <2>4. product' = [product EXCEPT ![row.key] = new]
    BY <1>6, <2>2 DEF UpsertProduct
  <2>5. /\ product' \in [Codes -> {Blank} \cup ProductRecs]
        /\ \A c \in Codes : product'[c] = IF c = row.key THEN new ELSE product[c]
    BY <2>3, <2>4 DEF RowsKept, TablesTyped
  <2>6. TablesTyped' /\ OnlyWrites(a) /\ JobSound(r)
    BY <1>1, <1>2, <2>1, <2>3, <2>5, TaskDone DEF RowsKept, TablesTyped, OnlyWrites
  <2>7. ASSUME NEW c \in Codes, NEW i \in ProductsPassed(a, c)'
        PROVE  /\ product'[c] # Blank
               /\ (\A j \in ProductsPassed(a, c)' : j <= i) /\ product'[c].by = a
                    => product'[c].name = q.file[i].name
    <3>1. i \in DOMAIN q.file /\ q.file[i].key = c /\ (i = t[1] \/ i \in ProductsPassed(a, c))
      BY <1>3, <2>1, <2>7 DEF ProductsPassed
    <3>2. CASE c = row.key
      <4>1. t[1] \in ProductsPassed(a, c)'
        BY <1>1, <1>2, <1>3, <2>1, <2>2, <3>2 DEF ProductsPassed, JobSound
      <4>2. i <= t[1]
        <5>1. SUFFICES ASSUME t[1] < i PROVE FALSE
          BY <1>3, <1>4, <3>1
        <5>2. <<i, 0>> \in ProductTasks(q.file) /\ Before(t, <<i, 0>>)
          BY <3>1, <5>1 DEF ProductTasks, Before
        <5>3. <<i, 0>> \in q.todo /\ <<i, 0>> # t
          BY <1>1, <1>2, <1>3, <1>4, <3>1, <5>1, <5>2 DEF JobSound, Tasks
        <5>4. QED
          BY <2>1, <2>7, <5>3 DEF ProductsPassed
      <4>3. (\A j \in ProductsPassed(a, c)' : j <= i) => i = t[1]
        BY <1>3, <1>4, <3>1, <4>1, <4>2
      <4>4. QED
        BY <2>2, <2>3, <2>5, <3>2, <4>3
    <3>3. CASE c # row.key
      <4>1. ProductsPassed(a, c)' = ProductsPassed(a, c)
        BY <1>3, <2>1, <2>2, <3>3 DEF ProductsPassed
      <4>2. QED
        BY <1>1, <2>5, <2>7, <3>3, <4>1 DEF RowsKept, ProductsKept
    <3>4. QED
      BY <3>2, <3>3
  <2>8. ProductsKept(a)'
    BY <2>1, <2>7 DEF ProductsKept
  <2>9. HeadersKept(a)' /\ LinesKept(a)'
    BY <1>1, <2>1 DEF HeadersKept, LinesKept
  <2>10. QED
    BY <2>6, <2>8, <2>9, OwnAndOthers
<1>7. QED
  BY <1>1, <1>5, <1>6

\* All lines of an invoice share its header, so an invoice that is left out is
\* left out with the lines of its reference that are in already.
LEMMA SkipKeepsRows ==
    ASSUME RowsKept, NEW a \in Admins, job[a].kind = "invoices",
           NEW t \in job[a].todo, \A u \in job[a].todo : u = t \/ Before(t, u),
           Skipped(a, t), UNCHANGED <<product, invoice, line>>
    PROVE  RowsKept'
<1> DEFINE q == job[a]  r == job'[a]  f == job[a].file
<1>1. q \in JobRecs /\ JobSound(q) /\ f \in InvoiceFiles /\ t \in InvoiceTasks(f)
  BY DEF RowsKept, TablesTyped, JobSound, Tasks
<1>2. t \in Nat \X Nat
  BY <1>1, InvoiceTask
<1>3. /\ job' \in [Admins -> JobRecs] /\ \A b \in Admins : b # a => job'[b] = job[b]
      /\ r.kind = q.kind /\ r.file = f /\ r.todo = {u \in q.todo : u[1] # t[1]}
      /\ r.errors = q.errors \cup {<<t[1], 0>>}
  <2>1. PICK left, failed : left = {u \in q.todo : u[1] # t[1]} /\ failed = q.errors \cup {<<t[1], 0>>}
    OBVIOUS
  <2>2. PICK row : row = [q EXCEPT !.todo = left, !.errors = failed]
    OBVIOUS
  <2>3. left \subseteq Nat \X Nat /\ failed \subseteq Nat \X Nat
    BY <1>1, <1>2, <2>1 DEF JobRecs
  <2>4. row \in JobRecs /\ row.kind = q.kind /\ row.file = q.file /\ row.todo = left /\ row.errors = failed
    BY <1>1, <2>2, <2>3 DEF JobRecs
  <2>5. job' = [job EXCEPT ![a] = row]
    BY <2>1, <2>2 DEF Skipped
  <2>6. job' \in [Admins -> JobRecs] /\ r = row /\ \A b \in Admins : b # a => job'[b] = job[b]
    BY <2>4, <2>5, JobWritten
  <2>7. QED
    BY <2>1, <2>4, <2>6
<1>4. TablesTyped' /\ OnlyWrites(a) /\ JobSound(r)
  BY <1>1, <1>3, TaskSkipped DEF RowsKept, TablesTyped, OnlyWrites
<1>5. ProductsKept(a)'
  BY <1>3 DEF ProductsKept
<1>6. \A p \in Nat, i \in Nat : <<p, i>> \notin r.todo \cup r.errors /\ p # t[1]
                               => <<p, i>> \notin q.todo \cup q.errors
  BY <1>3
<1>7. \A p \in Nat : <<p, 0>> \notin r.todo \cup r.errors => p # t[1]
  BY <1>3
<1>8. \A i \in DOMAIN f : i \in Nat /\ First(f, i) \in Nat
  BY <1>1, InvoiceFile, FirstIsFirst
<1>9. HeadersKept(a)'
  <2>1. SUFFICES ASSUME NEW i \in Referenced(f), <<First(f, i), 0>> \notin r.todo \cup r.errors
                 PROVE  invoice'[f[i].ref] # Blank
    BY <1>3 DEF HeadersKept
  <2>2. <<First(f, i), 0>> \notin q.todo \cup q.errors
    BY <1>6, <1>7, <1>8, <2>1 DEF Referenced
  <2>3. QED
    BY <2>1, <2>2 DEF RowsKept, HeadersKept
<1>10. ASSUME NEW k \in Invoices \X LineNos, NEW i \in LinesPassed(a, k)'
       PROVE  i \in LinesPassed(a, k) /\ LinesPassed(a, k) \subseteq LinesPassed(a, k)'
  <2>1. /\ i \in WithLine(f) /\ i \in DOMAIN f /\ <<f[i].ref, f[i].no>> = k
        /\ <<First(f, i), 0>> \notin r.todo \cup r.errors /\ <<First(f, i), i>> \notin r.todo \cup r.errors
    BY <1>3, <1>10 DEF LinesPassed, Passed, WithLine, Referenced
  <2>2. First(f, i) # t[1]
    BY <1>7, <1>8, <2>1
  <2>3. i \in LinesPassed(a, k)
    BY <1>6, <1>8, <2>1, <2>2 DEF LinesPassed, Passed
  <2>4. ASSUME NEW j \in LinesPassed(a, k) PROVE j \in LinesPassed(a, k)'
    <3>1. j \in WithLine(f) /\ j \in DOMAIN f /\ <<f[j].ref, f[j].no>> = k
          /\ <<First(f, j), 0>> \notin q.todo \cup q.errors /\ <<First(f, j), j>> \notin q.todo \cup q.errors
      BY <2>4 DEF LinesPassed, Passed, WithLine, Referenced
    <3>2. First(f, j) # t[1]
      <4>1. f[j].ref = f[i].ref
        BY <2>1, <3>1
      <4>2. First(f, j) = First(f, i)
        BY <1>1, <2>1, <3>1, <4>1, SameFirst
      <4>3. QED
        BY <2>2, <4>2
    <3>3. <<First(f, j), 0>> \notin r.todo \cup r.errors /\ <<First(f, j), j>> \notin r.todo \cup r.errors
      BY <1>3, <3>1, <3>2
    <3>4. QED
      BY <1>3, <3>1, <3>3 DEF LinesPassed, Passed
  <2>5. QED
    BY <2>3, <2>4
<1>11. LinesKept(a)'
  <2>1. SUFFICES ASSUME NEW k \in Invoices \X LineNos, NEW i \in LinesPassed(a, k)'
                 PROVE  /\ line'[k] # Blank
                        /\ (\A j \in LinesPassed(a, k)' : j <= i) /\ line'[k].by = a
                             => line'[k].qty = f[i].qty
    BY <1>3 DEF LinesKept
  <2>2. i \in LinesPassed(a, k) /\ LinesPassed(a, k) \subseteq LinesPassed(a, k)'
    BY <1>10
  <2>3. QED
    BY <2>2 DEF RowsKept, LinesKept
<1>12. QED
  BY <1>4, <1>5, <1>9, <1>11, OwnAndOthers

LEMMA HeaderKeepsRows ==
    ASSUME RowsKept, NEW a \in Admins, Header(a)
    PROVE  RowsKept'
<1> DEFINE q == job[a]  r == job'[a]  f == job[a].file
<1>1. PICK t \in q.todo :
        /\ q.kind = "invoices" /\ (\A u \in q.todo : u = t \/ Before(t, u)) /\ t[2] = 0
        /\ UNCHANGED <<product, line>>
        /\ \/ Skipped(a, t) /\ UNCHANGED invoice
           \/ RouteAccepted(f[t[1]]) /\ UpsertInvoice(a, f[t[1]]) /\ Done(a, t)
  BY DEF Header, IsNext
<1>2. CASE Skipped(a, t) /\ UNCHANGED invoice
  BY <1>1, <1>2, SkipKeepsRows
<1>3. CASE RouteAccepted(f[t[1]]) /\ UpsertInvoice(a, f[t[1]]) /\ Done(a, t)
  <2>1. q \in JobRecs /\ JobSound(q) /\ f \in InvoiceFiles /\ t \in InvoiceTasks(f)
    BY <1>1 DEF RowsKept, TablesTyped, JobSound, Tasks
  <2>2. t \in Nat \X Nat /\ t[1] \in Referenced(f) /\ t[1] \in DOMAIN f /\ t = <<t[1], 0>>
    BY <1>1, <2>1, InvoiceTask DEF Referenced
  <2>3. /\ job' \in [Admins -> JobRecs] /\ \A b \in Admins : b # a => job'[b] = job[b]
        /\ r.kind = q.kind /\ r.file = f /\ r.todo = q.todo \ {t} /\ r.errors = q.errors
    BY <1>1, <1>3, <2>2 DEF Done, RowsKept, TablesTyped, JobRecs
  <2>4. PICK row, new : /\ row = f[t[1]]
                        /\ new = [status |-> StatusOf(row), type |-> row.type, from |-> row.from,
                                  to |-> row.to, by |-> a]
    OBVIOUS
  <2>5. row \in InvoiceRows /\ row.ref \in Invoices
    BY <2>1, <2>2, <2>4, InvoiceFile DEF Referenced, InvoiceRows
  <2>6. new \in InvoiceRecs /\ new # Blank
    BY <1>3, <2>4, <2>5, CatalogueAssumption
       DEF InvoiceRows, InvoiceRecs, RouteAccepted, StatusOf, InvoiceStatuses
  <2>7. /\ invoice' \in [Invoices -> {Blank} \cup InvoiceRecs] /\ invoice'[row.ref] = new
        /\ \A p \in Invoices : p # row.ref => invoice'[p] = invoice[p]
    BY <1>3, <2>4, <2>5, <2>6 DEF UpsertInvoice, RowsKept, TablesTyped
  <2>8. TablesTyped' /\ OnlyWrites(a) /\ JobSound(r)
    BY <1>1, <2>1, <2>3, <2>6, <2>7, TaskDone DEF RowsKept, TablesTyped, OnlyWrites
  <2>9. ProductsKept(a)'
    BY <1>1, <2>3 DEF ProductsKept
  <2>10. HeadersKept(a)'
    <3>1. SUFFICES ASSUME NEW i \in Referenced(f), <<First(f, i), 0>> \notin r.todo \cup r.errors
                   PROVE  invoice'[f[i].ref] # Blank
      BY <1>1, <2>3 DEF HeadersKept
    <3>2. f[i].ref \in Invoices /\ f[First(f, i)].ref = f[i].ref
      BY <2>1, FirstIsFirst, InvoiceFile DEF Referenced, InvoiceRows
    <3>3. CASE First(f, i) = t[1]
      BY <2>4, <2>6, <2>7, <3>2, <3>3
    <3>4. CASE First(f, i) # t[1]
      <4>1. <<First(f, i), 0>> \notin q.todo \cup q.errors
        BY <2>2, <2>3, <3>1, <3>4
      <4>2. invoice[f[i].ref] # Blank
        BY <1>1, <4>1 DEF RowsKept, HeadersKept
      <4>3. QED
        BY <2>6, <2>7, <3>2, <4>2
    <3>5. QED
      BY <3>3, <3>4
  <2>11. ASSUME NEW k \in Invoices \X LineNos PROVE LinesPassed(a, k)' = LinesPassed(a, k)
    <3>1. ASSUME NEW i \in WithLine(f), i \in DOMAIN f, Passed(a, i)' PROVE Passed(a, i)
      <4>1. i \in Nat /\ i > 0 /\ First(f, i) \in Nat
        BY <2>1, <3>1, InvoiceFile, FirstIsFirst
      <4>2. <<First(f, i), 0>> \notin r.todo \cup r.errors /\ <<First(f, i), i>> \notin r.todo \cup r.errors
        BY <2>3, <3>1 DEF Passed
      <4>3. First(f, i) # t[1]
        <5>1. SUFFICES ASSUME First(f, i) = t[1] PROVE FALSE
          OBVIOUS
        <5>2. <<t[1], i>> \in InvoiceTasks(f) /\ Before(t, <<t[1], i>>)
          BY <1>1, <2>2, <3>1, <4>1, <5>1 DEF InvoiceTasks, Before
        <5>3. <<t[1], i>> \in q.todo /\ <<t[1], i>> # t
          BY <1>1, <2>1, <2>2, <4>1, <5>2 DEF JobSound, Tasks
        <5>4. QED
          BY <2>3, <4>2, <5>1, <5>3
      <4>4. QED
        BY <2>2, <2>3, <4>2, <4>3 DEF Passed
    <3>2. ASSUME NEW i \in WithLine(f), Passed(a, i) PROVE Passed(a, i)'
      BY <2>3, <3>2 DEF Passed
    <3>3. WithLine(f) \subseteq DOMAIN f
      BY DEF WithLine, Referenced
    <3>4. QED
      BY <2>3, <3>1, <3>2, <3>3 DEF LinesPassed
  <2>12. LinesKept(a)'
    <3>1. LinesKept(a) /\ line' = line
      BY <1>1 DEF RowsKept
    <3>2. QED
      BY <2>3, <2>11, <3>1 DEF LinesKept
  <2>13. QED
    BY <2>8, <2>9, <2>10, <2>12, OwnAndOthers
<1>4. QED
  BY <1>1, <1>2, <1>3

LEMMA LineRowKeepsRows ==
    ASSUME RowsKept, NEW a \in Admins, LineRow(a)
    PROVE  RowsKept'
<1> DEFINE q == job[a]  r == job'[a]  f == job[a].file
<1>1. PICK t \in q.todo :
        /\ q.kind = "invoices" /\ (\A u \in q.todo : u = t \/ Before(t, u)) /\ t[2] > 0
        /\ UNCHANGED <<product, invoice>>
        /\ \/ Reported(a, t) /\ UNCHANGED line
           \/ LineAccepted(f[t[2]]) /\ UpsertInvoiceLine(a, f[t[2]]) /\ Done(a, t)
  BY DEF LineRow, IsNext
<1>2. q \in JobRecs /\ JobSound(q) /\ f \in InvoiceFiles /\ t \in InvoiceTasks(f)
  BY <1>1 DEF RowsKept, TablesTyped, JobSound, Tasks
<1>3. /\ t \in Nat \X Nat /\ t[1] \in DOMAIN f /\ t[2] \in WithLine(f) /\ t[2] \in DOMAIN f
      /\ t[1] = First(f, t[2]) /\ t = <<First(f, t[2]), t[2]>>
  BY <1>1, <1>2, InvoiceTask DEF Referenced, WithLine
<1>4. \A i \in DOMAIN f : i \in Nat /\ i > 0 /\ First(f, i) \in Nat
  BY <1>2, InvoiceFile, FirstIsFirst
<1>5. CASE Reported(a, t) /\ UNCHANGED line
  <2>1. /\ job' \in [Admins -> JobRecs] /\ \A b \in Admins : b # a => job'[b] = job[b]
        /\ r.kind = q.kind /\ r.file = f /\ r.todo = q.todo \ {t} /\ r.errors = q.errors \cup {t}
    <3>1. PICK left, failed : left = q.todo \ {t} /\ failed = q.errors \cup {t}
      OBVIOUS
    <3>2. PICK row : row = [q EXCEPT !.todo = left, !.errors = failed]
      OBVIOUS
    <3>3. left \subseteq Nat \X Nat /\ failed \subseteq Nat \X Nat
      BY <1>2, <1>3, <3>1 DEF JobRecs
    <3>4. row \in JobRecs /\ row.kind = q.kind /\ row.file = q.file /\ row.todo = left /\ row.errors = failed
      BY <1>2, <3>2, <3>3 DEF JobRecs
    <3>5. job' = [job EXCEPT ![a] = row]
      BY <1>5, <3>1, <3>2 DEF Reported
    <3>6. job' \in [Admins -> JobRecs] /\ r = row /\ \A b \in Admins : b # a => job'[b] = job[b]
      BY <3>4, <3>5, JobWritten
    <3>7. QED
      BY <3>1, <3>4, <3>6
  <2>2. TablesTyped' /\ OnlyWrites(a) /\ JobSound(r)
    BY <1>1, <1>2, <1>5, <2>1, TaskDone DEF RowsKept, TablesTyped, OnlyWrites
  <2>3. r.todo \cup r.errors = q.todo \cup q.errors
    BY <1>1, <2>1
  <2>4. \A k : LinesPassed(a, k)' = LinesPassed(a, k)
    BY <2>1, <2>3 DEF LinesPassed, Passed
  <2>5. ProductsKept(a)' /\ HeadersKept(a)'
    BY <1>1, <2>1, <2>3 DEF RowsKept, ProductsKept, HeadersKept
  <2>6. LinesKept(a)'
    <3>1. LinesKept(a) /\ line' = line
      BY <1>5 DEF RowsKept
    <3>2. QED
      BY <2>1, <2>4, <3>1 DEF LinesKept
  <2>7. QED
    BY <2>2, <2>5, <2>6, OwnAndOthers
<1>6. CASE LineAccepted(f[t[2]]) /\ UpsertInvoiceLine(a, f[t[2]]) /\ Done(a, t)
  <2>1. /\ job' \in [Admins -> JobRecs] /\ \A b \in Admins : b # a => job'[b] = job[b]
        /\ r.kind = q.kind /\ r.file = f /\ r.todo = q.todo \ {t} /\ r.errors = q.errors
    BY <1>1, <1>3, <1>6 DEF Done, RowsKept, TablesTyped, JobRecs
  <2>2. PICK row, new : row = f[t[2]] /\ new = [code |-> row.code, qty |-> row.qty, by |-> a]
    OBVIOUS
  <2>3. new \in LineRecs /\ new # Blank /\ new.by = a /\ new.qty = row.qty
    BY <1>2, <1>3, <2>2, InvoiceFile, CatalogueAssumption DEF InvoiceRows, LineRecs
  <2>4. line' = [line EXCEPT ![<<row.ref, row.no>>] = new]
    BY <1>6, <2>2 DEF UpsertInvoiceLine
  <2>5. /\ line' \in [Invoices \X LineNos -> {Blank} \cup LineRecs]
        /\ \A k \in Invoices \X LineNos : line'[k] = IF k = <<row.ref, row.no>> THEN new ELSE line[k]
    BY <2>3, <2>4 DEF RowsKept, TablesTyped
  <2>6. TablesTyped' /\ OnlyWrites(a) /\ JobSound(r)
    BY <1>1, <1>2, <2>1, <2>3, <2>5, TaskDone DEF RowsKept, TablesTyped, OnlyWrites
  <2>7. \A i \in DOMAIN f : <<First(f, i), 0>> # t
    BY <1>1, <1>3
  <2>8. ProductsKept(a)'
    BY <1>1, <2>1 DEF ProductsKept
  <2>9. HeadersKept(a)'
    <3>1. SUFFICES ASSUME NEW i \in Referenced(f), <<First(f, i), 0>> \notin r.todo \cup r.errors
                   PROVE  invoice'[f[i].ref] # Blank
      BY <1>1, <2>1 DEF HeadersKept
    <3>2. <<First(f, i), 0>> \notin q.todo \cup q.errors
      BY <2>1, <2>7, <3>1 DEF Referenced
    <3>3. QED
      BY <1>1, <3>1, <3>2 DEF RowsKept, HeadersKept
  <2>10. ASSUME NEW k \in Invoices \X LineNos, NEW i \in LinesPassed(a, k)'
         PROVE  /\ line'[k] # Blank
                /\ (\A j \in LinesPassed(a, k)' : j <= i) /\ line'[k].by = a
                     => line'[k].qty = f[i].qty
    <3>1. /\ i \in WithLine(f) /\ i \in DOMAIN f /\ <<f[i].ref, f[i].no>> = k
          /\ <<First(f, i), 0>> \notin r.todo \cup r.errors /\ <<First(f, i), i>> \notin r.todo \cup r.errors
      BY <2>1, <2>10 DEF LinesPassed, Passed, WithLine, Referenced
    <3>2. CASE k = <<row.ref, row.no>>
      <4>1. f[t[2]].ref = f[i].ref /\ <<f[t[2]].ref, f[t[2]].no>> = k
        BY <2>2, <3>1, <3>2
      <4>2. First(f, i) = t[1]
        BY <1>2, <1>3, <3>1, <4>1, SameFirst
      <4>3. t[2] \in LinesPassed(a, k)'
        <5>1. <<First(f, t[2]), 0>> \notin r.todo \cup r.errors
          BY <1>3, <3>1, <4>2
        <5>2. <<First(f, t[2]), t[2]>> \notin r.todo \cup r.errors
          BY <1>1, <1>2, <1>3, <2>1 DEF JobSound
        <5>3. QED
          BY <1>3, <2>1, <4>1, <5>1, <5>2 DEF LinesPassed, Passed
      <4>4. i <= t[2]
        <5>1. SUFFICES ASSUME t[2] < i PROVE FALSE
          BY <1>3, <1>4, <3>1
        <5>2. <<t[1], i>> \in InvoiceTasks(f) /\ Before(t, <<t[1], i>>)
          BY <3>1, <4>2, <5>1 DEF InvoiceTasks, Before
        <5>3. <<t[1], i>> \in q.todo /\ <<t[1], i>> # t
          BY <1>1, <1>2, <1>3, <1>4, <3>1, <5>1, <5>2 DEF JobSound, Tasks
        <5>4. QED
          BY <2>1, <3>1, <4>2, <5>3
      <4>5. (\A j \in LinesPassed(a, k)' : j <= i) => i = t[2]
        BY <1>3, <1>4, <3>1, <4>3, <4>4
      <4>6. QED
        BY <2>2, <2>3, <2>5, <3>2, <4>5
    <3>3. CASE k # <<row.ref, row.no>>
      <4>1. \A j \in WithLine(f) : <<f[j].ref, f[j].no>> = k => (Passed(a, j)' <=> Passed(a, j))
        <5>1. SUFFICES ASSUME NEW j \in WithLine(f), <<f[j].ref, f[j].no>> = k
                       PROVE  Passed(a, j)' <=> Passed(a, j)
          OBVIOUS
        <5>2. j \in DOMAIN f /\ j # t[2]
          BY <2>2, <3>3, <5>1 DEF WithLine, Referenced
        <5>3. <<First(f, j), 0>> # t /\ <<First(f, j), j>> # t
          BY <1>3, <2>7, <5>2
        <5>4. QED
          BY <2>1, <5>3 DEF Passed
      <4>2. LinesPassed(a, k)' = LinesPassed(a, k)
        BY <2>1, <4>1 DEF LinesPassed
      <4>3. QED
        BY <1>1, <2>5, <2>10, <3>3, <4>2 DEF RowsKept, LinesKept
    <3>4. QED
      BY <3>2, <3>3
  <2>11. LinesKept(a)'
    BY <2>1, <2>10 DEF LinesKept
  <2>12. QED
    BY <2>6, <2>8, <2>9, <2>11, OwnAndOthers
<1>7. QED
  BY <1>1, <1>5, <1>6

LEMMA StatusKeepsRows ==
    ASSUME RowsKept, NEW n \in Invoices, NEW s \in Moves, SetStatus(n, s)
    PROVE  RowsKept'
<1>1. PICK old : old = invoice[n]
  OBVIOUS
<1>2. PICK new : new = [old EXCEPT !.status = s, !.by = Blank]
  OBVIOUS
<1>3. old \in InvoiceRecs
  BY <1>1 DEF SetStatus, RowsKept, TablesTyped
<1>4. new \in InvoiceRecs /\ new # Blank
  BY <1>2, <1>3, CatalogueAssumption DEF InvoiceRecs
<1>5. invoice' = [invoice EXCEPT ![n] = new] /\ UNCHANGED <<product, line, job>>
  BY <1>1, <1>2 DEF SetStatus
<1>6. TablesTyped' /\ \A m \in Invoices : invoice[m] # Blank => invoice'[m] # Blank
  BY <1>4, <1>5 DEF RowsKept, TablesTyped
<1>7. ASSUME NEW a \in Admins
      PROVE  JobSound(job'[a]) /\ ProductsKept(a)' /\ HeadersKept(a)' /\ LinesKept(a)'
  BY <1>5, <1>6, OthersWrite DEF RowsKept
<1>8. \A a \in Admins : JobSound(job[a])'
  BY <1>7 DEF JobSound, Tasks
<1>9. QED
  BY <1>6, <1>7, <1>8 DEF RowsKept

LEMMA RowsStep == RowsKept /\ [CatalogueNext]_catalogueVars => RowsKept'
<1> SUFFICES ASSUME RowsKept, [CatalogueNext]_catalogueVars PROVE RowsKept'
  OBVIOUS
<1>1. ASSUME NEW a \in Admins, ProductRow(a) \/ ProductRowFails(a) PROVE RowsKept'
  BY <1>1, ProductRowKeepsRows
<1>2. ASSUME NEW a \in Admins, InvoiceFails(a) PROVE RowsKept'
  <2>1. PICK t \in job[a].todo :
          /\ job[a].kind = "invoices" /\ \A u \in job[a].todo : u = t \/ Before(t, u)
          /\ Skipped(a, t) /\ UNCHANGED <<product, invoice, line>>
    BY <1>2 DEF InvoiceFails, IsNext
  <2>2. QED
    BY <2>1, SkipKeepsRows
<1>3. CASE UNCHANGED catalogueVars
  <2>1. UNCHANGED <<product, invoice, line, job>> /\ TablesTyped'
    BY <1>3 DEF catalogueVars, RowsKept, TablesTyped
  <2>2. ASSUME NEW a \in Admins
        PROVE  JobSound(job'[a]) /\ ProductsKept(a)' /\ HeadersKept(a)' /\ LinesKept(a)'
    BY <2>1, OthersWrite DEF RowsKept
  <2>3. \A a \in Admins : JobSound(job[a])'
    BY <2>2 DEF JobSound, Tasks
  <2>4. QED
    BY <2>1, <2>2, <2>3 DEF RowsKept
<1>4. QED
  BY <1>1, <1>2, <1>3, StartKeepsRows, EndKeepsRows, HeaderKeepsRows, LineRowKeepsRows, StatusKeepsRows
     DEF CatalogueNext

LEMMA LastIsGreatest ==
    ASSUME NEW n \in Nat, NEW S, S \subseteq 1..n, S # {}
    PROVE  Last(S) \in S /\ \A j \in S : j <= Last(S)
BY GreatestElement DEF Last

\* Whatever the uploads of others do, and wherever one fails or dies: every row an upload
\* has behind it is reported, or in the tables as it says unless somebody else wrote it.
LEMMA RowsStart == CatalogueInit => RowsKept
BY DEF CatalogueInit, NoJob, RowsKept, TablesTyped, JobRecs, JobSound, ProductsKept, HeadersKept, LinesKept,
       Tasks, InvoiceTasks, Referenced, WithLine

THEOREM RowsAreWrittenOrReported == CatalogueSpec => []WrittenOrReported
<1>1. CatalogueInit => RowsKept
  BY RowsStart
<1>2. RowsKept => WrittenOrReported
  <2>1. SUFFICES ASSUME RowsKept, NEW a \in Admins
                 PROVE  /\ job[a].kind = "products" => \A c \in Codes :
                             ProductsPassed(a, c) # {} =>
                               /\ product[c] # Blank
                               /\ product[c].by = a =>
                                    product[c].name = job[a].file[Last(ProductsPassed(a, c))].name
                        /\ job[a].kind = "invoices" => \A k \in DOMAIN line :
                             LinesPassed(a, k) # {} =>
                               /\ invoice[k[1]] # Blank /\ line[k] # Blank
                               /\ line[k].by = a =>
                                    line[k].qty = job[a].file[Last(LinesPassed(a, k))].qty
    BY DEF WrittenOrReported
  <2>2. ASSUME job[a].kind = "products", NEW c \in Codes, ProductsPassed(a, c) # {}
        PROVE  /\ product[c] # Blank
               /\ product[c].by = a => product[c].name = job[a].file[Last(ProductsPassed(a, c))].name
    <3>1. job[a].file \in ProductFiles
      BY <2>1, <2>2 DEF RowsKept, JobSound
    <3>2. Len(job[a].file) \in Nat /\ ProductsPassed(a, c) \subseteq 1..Len(job[a].file)
      BY <3>1, ProductFile DEF ProductsPassed
    <3>3. /\ Last(ProductsPassed(a, c)) \in ProductsPassed(a, c)
          /\ \A j \in ProductsPassed(a, c) : j <= Last(ProductsPassed(a, c))
      BY <2>2, <3>2, LastIsGreatest
    <3>4. QED
      BY <2>1, <2>2, <3>3 DEF RowsKept, ProductsKept
  <2>3. ASSUME job[a].kind = "invoices", NEW k \in DOMAIN line, LinesPassed(a, k) # {}
        PROVE  /\ invoice[k[1]] # Blank /\ line[k] # Blank
               /\ line[k].by = a => line[k].qty = job[a].file[Last(LinesPassed(a, k))].qty
    <3>1. job[a].file \in InvoiceFiles /\ k \in Invoices \X LineNos
      BY <2>1, <2>3 DEF RowsKept, TablesTyped, JobSound
    <3>2. Len(job[a].file) \in Nat /\ LinesPassed(a, k) \subseteq 1..Len(job[a].file)
      BY <3>1, InvoiceFile DEF LinesPassed, WithLine, Referenced
    <3>3. /\ Last(LinesPassed(a, k)) \in LinesPassed(a, k)
          /\ \A j \in LinesPassed(a, k) : j <= Last(LinesPassed(a, k))
      BY <2>3, <3>2, LastIsGreatest
    <3>4. PICK i \in LinesPassed(a, k) : TRUE
      BY <2>3
    <3>5. /\ i \in Referenced(job[a].file) /\ job[a].file[i].ref = k[1]
          /\ <<First(job[a].file, i), 0>> \notin job[a].todo \cup job[a].errors
      BY <3>4 DEF LinesPassed, Passed, WithLine
    <3>6. invoice[k[1]] # Blank
      BY <2>1, <2>3, <3>5 DEF RowsKept, HeadersKept
    <3>7. QED
      BY <2>1, <2>3, <3>1, <3>3, <3>6 DEF RowsKept, LinesKept
  <2>4. QED
    BY <2>2, <2>3
<1>3. QED
  BY <1>1, <1>2, RowsStep, PTL DEF CatalogueSpec

(* The types of rows need what an upload does not write: a header that was  *)
(* reported takes its lines with it, so a line has its invoice (ErrorsFit). *)
ErrorsFit(q) ==
  /\ q.errors \subseteq (DOMAIN q.file) \X (0..Len(q.file))
  /\ q.kind = "invoices" => \A e \in q.errors, u \in q.todo : e[2] = 0 => u[1] # e[1]
UploadsTyped == CatalogueTypeOK /\ \A a \in Admins : ErrorsFit(job[a])

LEMMA ErrorsOfStart ==
  ASSUME NEW f \in InvoiceFiles
  PROVE  LET q == [kind |-> "invoices", file |-> f, todo |-> InvoiceTasks(f),
                   errors |-> {<<i, 0>> : i \in DOMAIN f \ Referenced(f)}]
         IN ErrorsFit(q)
<1> DEFINE q == [kind |-> "invoices", file |-> f, todo |-> InvoiceTasks(f),
                 errors |-> {<<i, 0>> : i \in DOMAIN f \ Referenced(f)}]
<1>1. Len(f) \in Nat /\ DOMAIN f = 1..Len(f)
  BY InvoiceFile
<1>2. \A u \in InvoiceTasks(f) : u[1] \in Referenced(f)
  BY InvoiceTask
<1>3. \A e \in q.errors : e \in (DOMAIN f) \X (0..Len(f)) /\ e[1] \notin Referenced(f)
  BY <1>1
<1> QED BY <1>2, <1>3 DEF ErrorsFit

(* What a step makes of an upload: a task is done, reported, or skipped    *)
(* with the rest of its invoice.                                           *)
LEMMA ErrorsOfTask ==
  ASSUME RowsKept, UploadsTyped, NEW a \in Admins, job[a].kind # "none", NEW t \in job[a].todo,
         \/ Done(a, t)
         \/ Reported(a, t) /\ (job[a].kind = "invoices" => t[2] > 0)
         \/ Skipped(a, t)
  PROVE  \A b \in Admins : ErrorsFit(job'[b])
<1> DEFINE q == job[a]  r == job'[a]
<1>1. q \in JobRecs /\ JobSound(q) /\ ErrorsFit(q)
  BY DEF RowsKept, TablesTyped, UploadsTyped
<1>2. \A b \in Admins : b # a => job'[b] = job[b]
  BY DEF Done, Reported, Skipped, RowsKept, TablesTyped
<1>3. t \in Tasks(q)
  BY <1>1 DEF JobSound
<1>4. /\ Len(q.file) \in Nat /\ DOMAIN q.file = 1..Len(q.file) /\ t[1] \in DOMAIN q.file
      /\ t[2] \in 0..Len(q.file) /\ t = <<t[1], t[2]>>
  <2>1. CASE q.kind = "products"
    <3>1. q.file \in ProductFiles /\ t \in ProductTasks(q.file)
      BY <1>1, <1>3, <2>1 DEF JobSound, Tasks
    <3> QED BY <3>1, ProductFile, ProductTask
  <2>2. CASE q.kind = "invoices"
    <3>1. q.file \in InvoiceFiles /\ t \in InvoiceTasks(q.file)
      BY <1>1, <1>3, <2>2 DEF JobSound, Tasks
    <3> QED BY <3>1, InvoiceFile, InvoiceTask DEF Referenced, WithLine
  <2> QED BY <1>1, <2>1, <2>2 DEF JobRecs
<1>5. r.kind = q.kind /\ r.file = q.file
  BY DEF Done, Reported, Skipped, RowsKept, TablesTyped, JobRecs
<1>6. \/ r.todo = q.todo \ {t} /\ r.errors = q.errors
      \/ /\ r.todo = q.todo \ {t} /\ r.errors = q.errors \cup {t}
         /\ q.kind = "invoices" => t[2] > 0
      \/ r.todo = {u \in q.todo : u[1] # t[1]} /\ r.errors = q.errors \cup {<<t[1], 0>>}
  BY DEF Done, Reported, Skipped, RowsKept, TablesTyped, JobRecs
<1> HIDE DEF q, r
<1>7. ErrorsFit(r)
  <2>1. CASE r.errors = q.errors /\ r.todo \subseteq q.todo
    BY <1>1, <1>5, <2>1 DEF ErrorsFit
  <2>2. CASE /\ r.todo = q.todo \ {t} /\ r.errors = q.errors \cup {t}
             /\ q.kind = "invoices" => t[2] > 0
    BY <1>1, <1>4, <1>5, <2>2 DEF ErrorsFit
  <2>3. CASE r.todo = {u \in q.todo : u[1] # t[1]} /\ r.errors = q.errors \cup {<<t[1], 0>>}
    BY <1>1, <1>4, <1>5, <2>3 DEF ErrorsFit
  <2> QED BY <1>6, <2>1, <2>2, <2>3
<1> QED BY <1>2, <1>7 DEF UploadsTyped, r

LEMMA ErrorsStep ==
  ASSUME RowsKept, UploadsTyped, [CatalogueNext]_catalogueVars
  PROVE  \A b \in Admins : ErrorsFit(job'[b])
<1>1. CASE UNCHANGED job
  BY <1>1 DEF UploadsTyped
<1>2. ASSUME NEW a \in Admins, NEW q, job' = [job EXCEPT ![a] = q], ErrorsFit(q)
      PROVE  \A b \in Admins : ErrorsFit(job'[b])
  BY <1>2 DEF RowsKept, TablesTyped, UploadsTyped
<1>3. ErrorsFit(NoJob)
  BY DEF NoJob, ErrorsFit
<1>4. ASSUME NEW a \in Admins, NEW f \in ProductFiles, ImportProducts(a, f)
      PROVE  \A b \in Admins : ErrorsFit(job'[b])
  <2>1. ErrorsFit([kind |-> "products", file |-> f, todo |-> ProductTasks(f), errors |-> {}])
    BY DEF ErrorsFit
  <2> QED BY <1>2, <1>4, <2>1 DEF ImportProducts, Start
<1>5. ASSUME NEW a \in Admins, NEW f \in InvoiceFiles, ImportInvoices(a, f)
      PROVE  \A b \in Admins : ErrorsFit(job'[b])
  BY <1>2, <1>5, ErrorsOfStart DEF ImportInvoices, Start
<1>6. ASSUME NEW a \in Admins, EndUpload(a) \/ UploadDies(a)
      PROVE  \A b \in Admins : ErrorsFit(job'[b])
  BY <1>2, <1>3, <1>6 DEF EndUpload, UploadDies
<1>7. ASSUME NEW a \in Admins, ProductRow(a) \/ ProductRowFails(a)
      PROVE  \A b \in Admins : ErrorsFit(job'[b])
  <2>1. job[a].kind = "products" /\ \E t \in job[a].todo : Done(a, t) \/ Reported(a, t)
    BY <1>7 DEF ProductRow, ProductRowFails
  <2> QED BY <2>1, ErrorsOfTask
<1>8. ASSUME NEW a \in Admins, Header(a) \/ LineRow(a) \/ InvoiceFails(a)
      PROVE  \A b \in Admins : ErrorsFit(job'[b])
  <2>1. job[a].kind = "invoices"
        /\ \E t \in job[a].todo : Done(a, t) \/ (Reported(a, t) /\ t[2] > 0) \/ Skipped(a, t)
    BY <1>8 DEF Header, LineRow, InvoiceFails
  <2> QED BY <2>1, ErrorsOfTask
<1> QED BY <1>1, <1>4, <1>5, <1>6, <1>7, <1>8 DEF CatalogueNext, catalogueVars, SetStatus

(* When a line is written its invoice is there.                            *)
LEMMA LineHasInvoice ==
  ASSUME RowsKept, UploadsTyped, NEW a \in Admins, job[a].kind = "invoices",
         NEW t \in job[a].todo, IsNext(a, t), t[2] > 0
  PROVE  /\ t[2] \in WithLine(job[a].file) /\ job[a].file \in InvoiceFiles
         /\ invoice[job[a].file[t[2]].ref] # Blank
<1> DEFINE q == job[a]  f == job[a].file
<1>1. q \in JobRecs /\ JobSound(q) /\ ErrorsFit(q) /\ f \in InvoiceFiles /\ t \in InvoiceTasks(f)
  BY DEF RowsKept, TablesTyped, UploadsTyped, JobSound, Tasks
<1>2. /\ t[1] \in Nat /\ t[2] \in WithLine(f) /\ t[2] \in Referenced(f) /\ t[1] = First(f, t[2])
  BY <1>1, InvoiceTask DEF WithLine
<1>3. <<t[1], 0>> \notin q.todo
  <2>1. PICK h : h = <<t[1], 0>>
    OBVIOUS
  <2>2. h[1] = t[1] /\ h[2] = 0
    BY <2>1
  <2>3. h # t
    BY <2>2
  <2>4. ~(t[1] < h[1])
    BY <1>2, <2>2
  <2>5. ~(t[2] < h[2])
    BY <1>1, <1>2, <2>2, InvoiceFile DEF WithLine, Referenced
  <2>6. ~Before(t, h)
    BY <2>4, <2>5 DEF Before
  <2> QED BY <2>1, <2>3, <2>6 DEF IsNext
<1>4. <<t[1], 0>> \notin q.errors
  BY <1>1 DEF ErrorsFit
<1>5. invoice[f[t[2]].ref] # Blank
  BY <1>2, <1>3, <1>4 DEF RowsKept, HeadersKept
<1> QED BY <1>1, <1>2, <1>5

LEMMA CatalogueTypesStep ==
  ASSUME RowsKept, UploadsTyped, [CatalogueNext]_catalogueVars
  PROVE  CatalogueTypeOK'
<1> DEFINE ProductOK(x) == x = Blank \/ x \in [name : Titles, battery : BOOLEAN, by : Admins]
           InvoiceOK(x) == x = Blank \/
             x \in [status : InvoiceStatuses, type : {"CUSTOMER", "TRANSFER"},
                    from : Sites \cup {Blank}, to : Sites \cup {Blank}, by : Admins \cup {Blank}]
           LineOK(x) == x \in [code : Codes, qty : Nat \ {0}, by : Admins]
<1>1. \A b \in Admins : job'[b].errors \subseteq (DOMAIN job'[b].file) \X (0..Len(job'[b].file))
  BY ErrorsStep DEF ErrorsFit
<1>2. /\ \A c \in Codes : ProductOK(product[c])
      /\ \A r \in Invoices : InvoiceOK(invoice[r])
      /\ \A k \in Invoices \X LineNos : line[k] = Blank \/
           /\ LineOK(line[k]) /\ invoice[k[1]] # Blank /\ product[line[k].code] # Blank
  BY DEF UploadsTyped, CatalogueTypeOK
<1>3. ASSUME \A c \in Codes : ProductOK(product'[c]) /\ (product[c] # Blank => product'[c] # Blank),
             \A r \in Invoices : invoice[r] # Blank => invoice'[r] # Blank,
             \A k \in Invoices \X LineNos : line'[k] = line[k] \/
               /\ LineOK(line'[k]) /\ invoice[k[1]] # Blank /\ product[line'[k].code] # Blank
      PROVE  CatalogueTypeOK'
  <2>1. RowsKept'
    BY RowsStep
  <2>2. \A r \in Invoices : InvoiceOK(invoice'[r])
    <3>1. InvoiceStatuses \cup Moves = InvoiceStatuses
      BY CatalogueAssumption
    <3> QED BY <2>1, <3>1 DEF RowsKept, TablesTyped, InvoiceRecs
  <2>3. ASSUME NEW k \in Invoices \X LineNos, line'[k] # Blank
        PROVE  LineOK(line'[k]) /\ invoice'[k[1]] # Blank /\ product'[line'[k].code] # Blank
    <3>1. LineOK(line'[k]) /\ invoice[k[1]] # Blank /\ product[line'[k].code] # Blank
      <4> HIDE DEF LineOK
      <4> QED BY <1>2, <1>3, <2>3
    <3>2. k[1] \in Invoices /\ line'[k].code \in Codes
      BY <3>1
    <3> QED BY <1>3, <3>1, <3>2
  <2> HIDE DEF LineOK, InvoiceOK, ProductOK
  <2>4. QED
    BY <1>1, <1>3, <2>2, <2>3 DEF CatalogueTypeOK, LineOK, InvoiceOK, ProductOK
<1>4. CASE UNCHANGED <<product, invoice, line>>
  BY <1>2, <1>3, <1>4
<1>5. ASSUME NEW a \in Admins, ProductRow(a), ~UNCHANGED product PROVE CatalogueTypeOK'
  <2>1. PICK t \in job[a].todo : /\ job[a].kind = "products" /\ ProductAccepted(job[a].file[t[1]])
                                 /\ UpsertProduct(a, job[a].file[t[1]]) /\ UNCHANGED <<invoice, line>>
    BY <1>5 DEF ProductRow
  <2>2. PICK row : row = job[a].file[t[1]]
    OBVIOUS
  <2>3. job[a].file \in ProductFiles /\ t \in ProductTasks(job[a].file)
    BY <2>1 DEF RowsKept, TablesTyped, JobSound, Tasks
  <2>4. row.key \in Codes /\ row.name \in Titles /\ row.battery \in BOOLEAN
    <3>1. t[1] \in DOMAIN job[a].file
      BY <2>3, ProductTask
    <3>2. row.battery \in BOOLEAN
      BY <2>2, <2>3, <3>1, ProductFile DEF ProductRows
    <3> QED BY <2>1, <2>2, <2>3, <3>1, <3>2, CatalogueAssumption DEF ProductAccepted
  <2>5. PICK new : new = [name |-> row.name, battery |-> row.battery, by |-> a]
    OBVIOUS
  <2>6. new \in [name : Titles, battery : BOOLEAN, by : Admins] /\ new # Blank
    BY <2>4, <2>5, CatalogueAssumption
  <2>7. product' = [product EXCEPT ![row.key] = new]
    BY <2>1, <2>2, <2>5 DEF UpsertProduct
  <2>8. \A c \in Codes : product'[c] = new \/ product'[c] = product[c]
    BY <2>7 DEF RowsKept, TablesTyped
  <2> QED BY <1>2, <1>3, <2>1, <2>6, <2>8
<1>6. ASSUME NEW a \in Admins, Header(a), ~UNCHANGED invoice PROVE CatalogueTypeOK'
  <2>1. PICK t \in job[a].todo :
          /\ job[a].kind = "invoices" /\ t[2] = 0
          /\ RouteAccepted(job[a].file[t[1]]) /\ UpsertInvoice(a, job[a].file[t[1]])
    BY <1>6 DEF Header
  <2>2. job[a].file \in InvoiceFiles /\ t \in InvoiceTasks(job[a].file)
    BY <2>1 DEF RowsKept, TablesTyped, JobSound, Tasks
  <2>3. PICK row, new : /\ row = job[a].file[t[1]]
                        /\ new = [status |-> StatusOf(row), type |-> row.type, from |-> row.from,
                                  to |-> row.to, by |-> a]
    OBVIOUS
  <2>4. \A r \in Invoices : invoice[r] # Blank => invoice'[r] # Blank
    <3>1. row \in InvoiceRows
      BY <2>2, <2>3, InvoiceTask, InvoiceFile DEF Referenced
    <3>2. new # Blank
      BY <2>1, <2>3, <3>1, CatalogueAssumption
         DEF InvoiceRows, RouteAccepted, StatusOf, InvoiceStatuses
    <3>3. invoice' = [invoice EXCEPT ![row.ref] = new]
      BY <2>1, <2>3 DEF UpsertInvoice
    <3> QED BY <3>2, <3>3 DEF RowsKept, TablesTyped
  <2>5. UNCHANGED <<product, line>>
    BY <1>6 DEF Header
  <2> QED BY <1>2, <1>3, <2>4, <2>5
<1>7. ASSUME NEW a \in Admins, LineRow(a), ~UNCHANGED line PROVE CatalogueTypeOK'
  <2>1. PICK t \in job[a].todo : /\ job[a].kind = "invoices" /\ IsNext(a, t) /\ t[2] > 0
                                 /\ LineAccepted(job[a].file[t[2]])
                                 /\ UpsertInvoiceLine(a, job[a].file[t[2]]) /\ UNCHANGED <<product, invoice>>
    BY <1>7 DEF LineRow
  <2>2. PICK row : row = job[a].file[t[2]]
    OBVIOUS
  <2>3. /\ t[2] \in WithLine(job[a].file) /\ job[a].file \in InvoiceFiles /\ invoice[row.ref] # Blank
    BY <2>1, <2>2, LineHasInvoice
  <2>4. row.code \in Codes /\ row.qty \in Nat \ {0} /\ product[row.code] # Blank
    <3>1. t[2] \in DOMAIN job[a].file /\ row.code # Blank
      BY <2>2, <2>3 DEF WithLine, Referenced
    <3>2. row.code \in Codes \cup {Blank} /\ row.qty \in Nat
      BY <2>2, <2>3, <3>1, InvoiceFile DEF InvoiceRows
    <3> QED BY <2>1, <2>2, <3>1, <3>2 DEF LineAccepted
  <2>5. PICK new : new = [code |-> row.code, qty |-> row.qty, by |-> a]
    OBVIOUS
  <2>6. LineOK(new) /\ new.code = row.code
    BY <2>4, <2>5
  <2>7. line' = [line EXCEPT ![<<row.ref, row.no>>] = new]
    BY <2>1, <2>2, <2>5 DEF UpsertInvoiceLine
  <2>8. \A k \in Invoices \X LineNos : line'[k] = line[k] \/ (line'[k] = new /\ k[1] = row.ref)
    BY <2>7 DEF RowsKept, TablesTyped
  <2> HIDE DEF LineOK
  <2> QED BY <1>2, <1>3, <2>1, <2>3, <2>4, <2>6, <2>8
<1>8. ASSUME NEW n \in Invoices, NEW s \in Moves, SetStatus(n, s) PROVE CatalogueTypeOK'
  <2>1. PICK new : new = [invoice[n] EXCEPT !.status = s, !.by = Blank]
    OBVIOUS
  <2>2. new # Blank
    <3>1. invoice[n] \in InvoiceRecs
      BY <1>8 DEF SetStatus, RowsKept, TablesTyped
    <3>2. new \in InvoiceRecs
      BY <2>1, <3>1 DEF InvoiceRecs
    <3> QED BY <3>2, CatalogueAssumption DEF InvoiceRecs
  <2>3. invoice' = [invoice EXCEPT ![n] = new] /\ UNCHANGED <<product, line>>
    BY <1>8, <2>1 DEF SetStatus
  <2>4. \A r \in Invoices : invoice'[r] = new \/ invoice'[r] = invoice[r]
    BY <2>3 DEF RowsKept, TablesTyped
  <2> QED BY <1>2, <1>3, <2>2, <2>3, <2>4
<1> HIDE DEF ProductOK, InvoiceOK, LineOK
<1> QED
  BY <1>4, <1>5, <1>6, <1>7, <1>8 DEF CatalogueNext, catalogueVars, ImportProducts, ImportInvoices, Start,
     ProductRow, ProductRowFails, Header, LineRow, InvoiceFails, EndUpload, UploadDies

LEMMA CatalogueTypesStart == CatalogueInit => UploadsTyped
<1> SUFFICES ASSUME CatalogueInit PROVE UploadsTyped
  OBVIOUS
<1>1. \A a \in Admins : job[a] = NoJob
  BY DEF CatalogueInit
<1>2. CatalogueTypeOK
  BY <1>1 DEF CatalogueInit, NoJob, CatalogueTypeOK
<1>3. \A a \in Admins : ErrorsFit(job[a])
  BY <1>1 DEF NoJob, ErrorsFit
<1> QED BY <1>2, <1>3 DEF UploadsTyped

LEMMA CatalogueStep == RowsKept /\ UploadsTyped /\ [CatalogueNext]_catalogueVars => UploadsTyped'
BY CatalogueTypesStep, ErrorsStep DEF UploadsTyped

(* Products, invoices and lines are well formed whatever files are         *)
(* uploaded, and a line has its invoice and its product: the table of      *)
(* lines never gets ahead of the other two (invoices.js:190-270).          *)
THEOREM CatalogueTypesHold == CatalogueSpec => []CatalogueTypeOK
<1>1. UploadsTyped => CatalogueTypeOK
  BY DEF UploadsTyped
<1> QED
  BY <1>1, RowsStart, RowsStep, CatalogueTypesStart, CatalogueStep, PTL DEF CatalogueSpec

-----------------------------------------------------------------------------
(* Ageing.  Whatever day it is and wherever the units are, the view holds  *)
(* whole numbers of days that are not negative, or no age; for these the   *)
(* two tables of buckets say the same.                                     *)

BucketCodes == {"B0_30", "B31_60", "B61_90", "B91_PLUS", "MISSING_RECEIVED_AT"}
StockTyped ==
  /\ day \in Int
  /\ onHand \in [Items -> {Unset} \cup [room : Rooms, since : Int \cup {Unset}]]
  /\ \A r \in snapshot : r.age \in Nat \cup {Unset}

LEMMA AgesAreNatural ==
    ASSUME day \in Int, onHand \in [Items -> {Unset} \cup [room : Rooms, since : Int \cup {Unset}]]
    PROVE  \A r \in View(onHand, day) : r.age \in Nat \cup {Unset}
<1>1. ASSUME NEW i \in Items, onHand[i] # Unset PROVE AgeDays(onHand[i].since, day) \in Nat \cup {Unset}
  <2>1. onHand[i].since \in Int \cup {Unset}
    BY <1>1
  <2>2. QED
    BY <2>1 DEF AgeDays
<1>2. QED
  BY <1>1 DEF View

\* A request of a reader changes nothing but the last answer.
Asking ==
  \E v \in Viewers : \/ \E asked \in Rooms \cup {Unset} : GetExport(v, asked)
                     \/ \E w \in Rooms : GetAgeingReport(v, w)
                     \/ \E w \in Rooms, code \in DOMAIN BucketRanges : GetProductsInBucket(v, w, code)
LEMMA AskingReads == Asking => UNCHANGED <<onHand, day, snapshot, refreshed>>
BY DEF Asking, GetExport, GetAgeingReport, GetProductsInBucket, Responds

LEMMA StockStep == StockTyped /\ [AgeingNext]_ageingVars => StockTyped'
<1> SUFFICES ASSUME StockTyped, [AgeingNext]_ageingVars PROVE StockTyped'
  OBVIOUS
<1>1. CASE RefreshSnapshot
  BY <1>1, AgesAreNatural DEF RefreshSnapshot, StockTyped
<1>2. ASSUME NEW i \in Items, NEW w \in Rooms, ComeIn(i, w) PROVE StockTyped'
  BY <1>2 DEF ComeIn, StockTyped
<1>3. ASSUME NEW i \in Items, GoOut(i) PROVE StockTyped'
  BY <1>3 DEF GoOut, StockTyped
<1>4. CASE NextDay
  BY <1>4 DEF NextDay, StockTyped
<1>5. ASSUME Asking PROVE StockTyped'
  BY <1>5, AskingReads DEF StockTyped
<1>6. CASE UNCHANGED ageingVars
  BY <1>6 DEF ageingVars, StockTyped
<1>7. QED
  BY <1>1, <1>2, <1>3, <1>4, <1>5, <1>6 DEF AgeingNext, Asking

LEMMA ViewHasRows ==
  ASSUME StockTyped
  PROVE  View(onHand, day) \subseteq Row
<1>1. ASSUME NEW i \in Items, onHand[i] # Unset
      PROVE  [item |-> i, room |-> onHand[i].room, age |-> AgeDays(onHand[i].since, day)] \in Row
  <2>1. onHand[i] \in [room : Rooms, since : Int \cup {Unset}]
    BY <1>1 DEF StockTyped
  <2>2. AgeDays(onHand[i].since, day) \in Nat \cup {Unset}
    BY <2>1 DEF AgeDays, StockTyped
  <2> QED BY <2>1, <2>2 DEF Row
<1> QED BY <1>1 DEF View

LEMMA AgeingStart == AgeingInit => StockTyped /\ AgeingTypeOK
<1> SUFFICES ASSUME AgeingInit PROVE StockTyped /\ AgeingTypeOK
  OBVIOUS
<1>1. day \in Int /\ day \in Today..LastDay /\ snapshot = View(onHand, day)
  BY AgeingAssumption DEF AgeingInit
<1>2. onHand \in [Items -> {Unset} \cup [room : Rooms, since : Int \cup {Unset}]]
  BY AgeingAssumption DEF AgeingInit
<1>3. StockTyped
  BY <1>1, <1>2, AgesAreNatural DEF StockTyped
<1> QED BY <1>1, <1>2, <1>3, ViewHasRows DEF AgeingInit, AgeingTypeOK

\* The bucket of an age, from DefaultAgeingBuckets.
LEMMA BucketOfAge ==
    ASSUME NEW age \in Nat
    PROVE  BucketForAgeDays(age) = IF age <= 30 THEN "B0_30" ELSE IF age <= 60 THEN "B31_60"
                                   ELSE IF age <= 90 THEN "B61_90" ELSE "B91_PLUS"
<1> DEFINE want == IF age <= 30 THEN "B0_30" ELSE IF age <= 60 THEN "B31_60"
                   ELSE IF age <= 90 THEN "B61_90" ELSE "B91_PLUS"
<1>1. Unset \notin Int
  BY AgeingAssumption
<1>2. \A b \in DefaultAgeingBuckets : Holds(b, age) => b.code = want
  BY <1>1 DEF DefaultAgeingBuckets, Holds
<1>3. \E b \in DefaultAgeingBuckets : Holds(b, age)
  <2>1. CASE age <= 30
    BY <2>1 DEF DefaultAgeingBuckets, Holds
  <2>2. CASE age > 30 /\ age <= 60
    BY <2>2 DEF DefaultAgeingBuckets, Holds
  <2>3. CASE age > 60 /\ age <= 90
    BY <2>3 DEF DefaultAgeingBuckets, Holds
  <2>4. CASE age > 90
    BY <2>4 DEF DefaultAgeingBuckets, Holds
  <2>5. QED
    BY <2>1, <2>2, <2>3, <2>4
<1>4. LET b == CHOOSE b \in DefaultAgeingBuckets : Holds(b, age)
      IN  b \in DefaultAgeingBuckets /\ Holds(b, age)
  BY <1>3
<1>5. (CHOOSE b \in DefaultAgeingBuckets : Holds(b, age)).code = want
  BY <1>2, <1>4
<1>6. age # Unset
  BY <1>1
<1>7. QED
  BY <1>3, <1>5, <1>6 DEF BucketForAgeDays

\* The rows selected for a bucket are those it is named for, code by code.
LEMMA SelectedIsNamed ==
    ASSUME NEW code \in BucketCodes, NEW age \in Nat \cup {Unset}, NEW range, range = BucketRanges[code]
    PROVE  (BucketForAgeDays(age) = code) <=>
             IF range = Span(Unset, Unset) THEN age = Unset
             ELSE age # Unset /\ (range.min = Unset \/ age >= range.min)
                              /\ (range.max = Unset \/ age <= range.max)
<1>1. Unset \notin Int
  BY AgeingAssumption
<1>2. CASE age = Unset
  <2>1. BucketForAgeDays(age) = "MISSING_RECEIVED_AT"
    BY <1>2 DEF BucketForAgeDays
  <2>2. (range = Span(Unset, Unset)) <=> (code = "MISSING_RECEIVED_AT")
    BY <1>1 DEF BucketCodes, BucketRanges, Span
  <2>3. QED
    BY <1>2, <2>1, <2>2
<1>3. CASE age \in Nat
  <2>1. BucketForAgeDays(age) = IF age <= 30 THEN "B0_30" ELSE IF age <= 60 THEN "B31_60"
                                ELSE IF age <= 90 THEN "B61_90" ELSE "B91_PLUS"
    BY <1>3, BucketOfAge
  <2>2. CASE code = "MISSING_RECEIVED_AT"
    BY <1>1, <1>3, <2>1, <2>2 DEF BucketRanges, Span
  <2>3. CASE code = "B0_30"
    BY <1>1, <1>3, <2>1, <2>3 DEF BucketRanges, Span
  <2>4. CASE code = "B31_60"
    BY <1>1, <1>3, <2>1, <2>4 DEF BucketRanges, Span
  <2>5. CASE code = "B61_90"
    BY <1>1, <1>3, <2>1, <2>5 DEF BucketRanges, Span
  <2>6. CASE code = "B91_PLUS"
    BY <1>1, <1>3, <2>1, <2>6 DEF BucketRanges, Span
  <2>7. QED
    BY <2>2, <2>3, <2>4, <2>5, <2>6 DEF BucketCodes
<1>4. QED
  BY <1>2, <1>3

\* Of every page of the report, what is counted in a bucket is what is shown when it is opened.
THEOREM BucketsAgreeAtEveryAge == AgeingSpec => []BucketsAgree
<1>1. AgeingInit => StockTyped
  BY AgeingStart
<1>2. StockTyped => BucketsAgree
  <2> SUFFICES ASSUME StockTyped, NEW w \in Rooms, NEW page \in FindOnHandSerials(w)
               PROVE  /\ \A code \in DOMAIN BucketRanges :
                           /\ InBucket(page, code) = page \cap FindProductsInBucket(w, code)
                           /\ Cardinality(RowsIn(w)) <= PageLimit => InBucket(page, code) = FindProductsInBucket(w, code)
                      /\ \A r \in page : \E code \in DOMAIN BucketRanges : r \in InBucket(page, code)
    BY DEF BucketsAgree
  <2>1. page \subseteq RowsIn(w) /\ (Cardinality(RowsIn(w)) <= PageLimit => page = RowsIn(w))
    BY DEF FindOnHandSerials
  <2>2. DOMAIN BucketRanges = BucketCodes
    BY DEF BucketRanges, BucketCodes
  <2>3. ASSUME NEW code \in BucketCodes PROVE FindProductsInBucket(w, code) = InBucket(RowsIn(w), code)
    BY <2>3, SelectedIsNamed DEF StockTyped, FindProductsInBucket, InBucket, RowsIn
  <2>4. ASSUME NEW code \in BucketCodes
        PROVE  /\ InBucket(page, code) = page \cap FindProductsInBucket(w, code)
               /\ Cardinality(RowsIn(w)) <= PageLimit => InBucket(page, code) = FindProductsInBucket(w, code)
    BY <2>1, <2>3 DEF InBucket
  <2>5. ASSUME NEW r \in page PROVE \E code \in BucketCodes : r \in InBucket(page, code)
    <3>1. BucketForAgeDays(r.age) \in BucketCodes
      <4>1. CASE r.age = Unset
        BY <4>1 DEF BucketForAgeDays, BucketCodes
      <4>2. CASE r.age \in Nat
        BY <4>2, BucketOfAge DEF BucketCodes
      <4>3. QED
        BY <2>1, <4>1, <4>2 DEF StockTyped, RowsIn
    <3>2. QED
      BY <3>1 DEF InBucket
  <2>6. QED
    BY <2>2, <2>4, <2>5
<1>3. QED
  BY <1>1, <1>2, StockStep, PTL DEF AgeingSpec

\* In an export an empty list of warehouses means all of them, but only an administrator gets
\* there; and a report is refused of a warehouse that is not the reader's.
THEOREM ExportsKeepTheirScope == AgeingSpec => []ScopeIsNotWidened
<1>1. AgeingInit => ScopeIsNotWidened
  BY DEF AgeingInit, ScopeIsNotWidened
<1>2. ASSUME ScopeIsNotWidened, [AgeingNext]_ageingVars PROVE ScopeIsNotWidened'
  <2>1. CASE UNCHANGED answer
    BY <1>2, <2>1 DEF ScopeIsNotWidened
  <2>2. ASSUME NEW v \in Viewers, NEW asked, GetExport(v, asked) PROVE ScopeIsNotWidened'
    <3>1. PICK rows : answer' = [to |-> "export", who |-> v, rows |-> rows]
                      /\ rows = FindSerialsForExport(ResolveScope(v, asked).rooms)
      BY <2>2 DEF GetExport, Responds
    <3>2. ASSUME v.role # "admin", NEW r \in rows PROVE r.room \in v.rooms
      <4>1. /\ ResolveScope(v, asked).rooms # {}
            /\ ResolveScope(v, asked).rooms \subseteq v.rooms
        BY <2>2, <3>2 DEF GetExport, ResolveScope
      <4>2. QED
        BY <3>1, <3>2, <4>1 DEF FindSerialsForExport
    <3>3. QED
      BY <3>1, <3>2 DEF ScopeIsNotWidened
  <2>3. ASSUME NEW v \in Viewers, NEW w \in Rooms, GetAgeingReport(v, w) PROVE ScopeIsNotWidened'
    <3>1. PICK page \in FindOnHandSerials(w) : answer' = [to |-> "report", who |-> v, rows |-> page]
      BY <2>3 DEF GetAgeingReport, Responds
    <3>2. \A r \in page : r.room = w
      BY DEF FindOnHandSerials, RowsIn
    <3>3. QED
      BY <2>3, <3>1, <3>2 DEF GetAgeingReport, ScopeIsNotWidened
  <2>4. ASSUME NEW v \in Viewers, NEW w \in Rooms, NEW code, GetProductsInBucket(v, w, code)
        PROVE  ScopeIsNotWidened'
    BY <2>4 DEF GetProductsInBucket, Responds, ScopeIsNotWidened
  <2>5. QED
    BY <1>2, <2>1, <2>2, <2>3, <2>4 DEF AgeingNext, ageingVars, ComeIn, GoOut, NextDay, RefreshSnapshot
<1>3. QED
  BY <1>1, <1>2, PTL DEF AgeingSpec

LEMMA AgeingStep == StockTyped /\ AgeingTypeOK /\ [AgeingNext]_ageingVars => AgeingTypeOK'
<1> SUFFICES ASSUME StockTyped, AgeingTypeOK, [AgeingNext]_ageingVars PROVE AgeingTypeOK'
  OBVIOUS
<1>0. Asking \/ (\E i \in Items : (\E w \in Rooms : ComeIn(i, w)) \/ GoOut(i)) \/ NextDay \/ RefreshSnapshot
      \/ UNCHANGED ageingVars
  BY DEF AgeingNext, Asking
<1>1. \A i \in Items : onHand'[i] = Unset \/ onHand'[i] \in [room : Rooms, since : Int \cup {Unset}]
  BY StockStep DEF StockTyped
<1>2. day' \in Today..LastDay
  BY <1>0, AskingReads, AgeingAssumption DEF AgeingTypeOK, ageingVars, ComeIn, GoOut, NextDay, RefreshSnapshot
<1>3. snapshot' \subseteq Row /\ refreshed' \in {"never", "failed", "done"}
  <2>1. CASE RefreshSnapshot
    BY <2>1, ViewHasRows DEF RefreshSnapshot, AgeingTypeOK
  <2>2. CASE UNCHANGED <<snapshot, refreshed>>
    BY <2>2 DEF AgeingTypeOK
  <2> QED BY <1>0, <2>1, <2>2, AskingReads DEF ageingVars, ComeIn, GoOut, NextDay
<1>4. answer' # Unset => answer'.who \in Viewers /\ answer'.rows \subseteq Row
  <2>1. CASE UNCHANGED answer
    BY <2>1 DEF AgeingTypeOK
  <2>2. CASE Asking
    <3>1. PICK v \in Viewers, found \in SUBSET snapshot, to \in {"export", "report", "products"} :
            answer' = [to |-> to, who |-> v, rows |-> found]
      BY <2>2 DEF Asking, GetExport, GetAgeingReport, GetProductsInBucket, Responds, FindSerialsForExport,
         FindOnHandSerials, RowsIn, FindProductsInBucket
    <3>2. answer'.who = v /\ answer'.rows = found
      BY <3>1
    <3>3. QED
      BY <3>2 DEF AgeingTypeOK
  <2> QED BY <1>0, <2>1, <2>2 DEF ageingVars, ComeIn, GoOut, NextDay, RefreshSnapshot
<1> QED BY <1>1, <1>2, <1>3, <1>4 DEF AgeingTypeOK

(* Whatever the view held when it was filled, rows and answers are well    *)
(* formed and no age is negative (V027, ageingReportService.js:12-30).     *)
THEOREM AgeingTypesHold == AgeingSpec => []AgeingTypeOK
BY AgeingStart, StockStep, AgeingStep, PTL DEF AgeingSpec

-----------------------------------------------------------------------------
(* The browser's session (Access).  As long as signing in or out has not   *)
(* crossed another call, at most one of the calls is on its way with it;   *)
(* what an answer says of the user was so when it was given (Truthful),    *)
(* and a user who is shown without a call about him on its way is one the  *)
(* server knew then (Believed).                                            *)

NothingAsked == \A k \in {"initial", "refresh", "logout"} : ~OnItsWay(k)
Truthful == \A k \in Talks :
  /\ talk[k].who # Nobody => talk[k].at = "answered"
  /\ talk[k].at = "answered" /\ talk[k].who # Nobody /\ ~crossed => alive \/ lapsed
Believed == ~crossed /\ NothingAsked /\ user # Nobody => alive \/ lapsed
Alone == ~crossed =>
  \A k \in {"login", "logout"}, j \in Talks : OnItsWay(k) /\ OnItsWay(j) => j = k
Awaited ==
  /\ waiting => OnItsWay("initial")
  /\ refreshing <=> OnItsWay("refresh")
TalkTyped == /\ talk \in [Talks -> [at : {"idle", "sent", "answered", "refused", "failed"},
                                    who : Members \cup {Nobody}]]
             /\ standing \in Members /\ alive \in BOOLEAN /\ lapsed \in BOOLEAN /\ crossed \in BOOLEAN
             /\ refreshing \in BOOLEAN
IndAccess == TalkTyped /\ Truthful /\ Believed /\ Alone /\ Awaited

LEMMA NoCrossing ==
    ASSUME NEW t, ~Crossing(t), NEW k \in {"login", "logout"}, NEW j \in Talks,
           t[k].at # "idle", t[j].at # "idle"
    PROVE  j = k
<1> SUFFICES ASSUME j # k PROVE FALSE
  OBVIOUS
<1> DEFINE busy == {i \in Talks : t[i].at # "idle"}
<1>1. IsFiniteSet(Talks)
  <2>1. Talks = {"initial", "refresh", "login"} \cup {"logout"}
    BY DEF Talks
  <2>2. IsFiniteSet({"initial"}) /\ IsFiniteSet({"logout"})
    BY FS_Singleton
  <2>3. IsFiniteSet({"initial"} \cup {"refresh"})
    BY <2>2, FS_AddElement
  <2>4. IsFiniteSet({"initial"} \cup {"refresh"} \cup {"login"})
    BY <2>3, FS_AddElement
  <2>5. IsFiniteSet({"initial"} \cup {"refresh"} \cup {"login"} \cup {"logout"})
    BY <2>4, FS_AddElement
  <2>6. Talks = {"initial"} \cup {"refresh"} \cup {"login"} \cup {"logout"}
    BY <2>1
  <2>7. QED
    BY <2>5, <2>6
<1>2. busy \subseteq Talks /\ k \in busy /\ j \in busy
  BY DEF Talks
<1>3. IsFiniteSet(busy)
  BY <1>1, <1>2, FS_Subset
<1> HIDE DEF busy
<1>4. Cardinality({k}) = 1 /\ IsFiniteSet({k}) /\ Cardinality({k} \cup {j}) = 2
  <2>1. Cardinality({k}) = 1 /\ IsFiniteSet({k})
    BY FS_Singleton
  <2>2. Cardinality({k} \cup {j}) = Cardinality({k}) + 1
    BY <2>1, FS_AddElement
  <2>3. QED
    BY <2>1, <2>2
<1>5. {k} \cup {j} \subseteq busy
  BY <1>2
<1>6. Cardinality({k} \cup {j}) <= Cardinality(busy) /\ Cardinality(busy) \in Nat
  BY <1>3, <1>5, FS_Subset, FS_CardinalityType
<1>7. Cardinality(busy) > 1 /\ busy \cap {"login", "logout"} # {}
  BY <1>2, <1>4, <1>6
<1>8. QED
  BY <1>7 DEF Crossing, busy

LEMMA SendKeepsAccess ==
    ASSUME IndAccess, NEW k \in Talks \ {"initial"}, Send(k), ~OnItsWay(k),
           UNCHANGED <<alive, standing, user, waiting, lapsed>>,
           refreshing' = (refreshing \/ k = "refresh")
    PROVE  IndAccess'
<1>1. /\ talk' = [talk EXCEPT ![k].at = "sent"]
      /\ crossed' = (Crossing(talk') \/ (crossed /\ (k = "login" \/ \E j \in Talks : OnItsWay(j))))
  BY DEF Send
<1>2. TalkTyped' /\ OnItsWay(k)' /\ talk'[k].who = talk[k].who /\ talk'[k].at = "sent"
      /\ \A j \in Talks : j # k => talk'[j] = talk[j]
  <2>1. Crossing(talk') \in BOOLEAN
    BY DEF Crossing
  <2>2. crossed' \in BOOLEAN
    BY <1>1, <2>1
  <2>3. QED
    BY <1>1, <2>2 DEF IndAccess, TalkTyped, OnItsWay
<1>3. talk[k].who = Nobody
  BY DEF IndAccess, Truthful, OnItsWay
<1>4. Truthful'
  <2>1. ASSUME NEW j \in Talks, j # k, talk[j].who # Nobody, ~crossed' PROVE alive \/ lapsed
    <3>1. talk[j].at = "answered" /\ OnItsWay(j)
      BY <2>1 DEF IndAccess, Truthful, OnItsWay
    <3>2. ~crossed
      BY <1>1, <2>1, <3>1
    <3>3. QED
      BY <2>1, <3>1, <3>2 DEF IndAccess, Truthful
  <2>2. QED
    BY <1>2, <1>3, <2>1 DEF IndAccess, Truthful
<1>5. Alone'
  <2>1. SUFFICES ASSUME ~crossed', NEW i \in {"login", "logout"}, NEW j \in Talks,
                        talk'[i].at # "idle", talk'[j].at # "idle"
                 PROVE  j = i
    BY DEF Alone, OnItsWay
  <2>2. ~Crossing(talk')
    BY <1>1, <2>1
  <2>3. QED
    BY <2>1, <2>2, NoCrossing
<1>6. Believed'
  <2>1. CASE k = "login"
    <3>1. crossed' \/ ~crossed
      BY <1>1, <2>1
    <3>2. NothingAsked' => NothingAsked
      BY <1>2, <2>1 DEF NothingAsked, OnItsWay, Talks
    <3>3. QED
      BY <3>1, <3>2 DEF IndAccess, Believed
  <2>2. CASE k # "login"
    <3>1. k \in {"refresh", "logout"}
      BY <2>2 DEF Talks
    <3>2. ~NothingAsked'
      BY <1>2, <3>1 DEF NothingAsked
    <3>3. QED
      BY <3>2 DEF Believed
  <2>3. QED
    BY <2>1, <2>2
<1>7. Awaited'
  BY <1>2 DEF IndAccess, Awaited, OnItsWay, Talks
<1>8. QED
  BY <1>2, <1>4, <1>5, <1>6, <1>7 DEF IndAccess

LEMMA ReplyKeepsAccess ==
    ASSUME IndAccess, NEW k \in Talks, Reply(k)
    PROVE  IndAccess'
<1>1. PICK ok \in IF k = "login" THEN BOOLEAN ELSE {k = "logout" \/ alive} :
        /\ talk' = [talk EXCEPT ![k] = [at |-> IF ok THEN "answered" ELSE "refused",
                                        who |-> IF ok /\ k # "logout" THEN standing ELSE Nobody]]
        /\ alive' = IF ok THEN k # "logout" ELSE alive
        /\ lapsed' = (lapsed /\ ~alive')
  BY DEF Reply
<1>2. talk[k].at = "sent" /\ OnItsWay(k) /\ UNCHANGED <<standing, user, waiting, refreshing, crossed>>
  BY DEF Reply, OnItsWay
<1>3. /\ ok \in BOOLEAN
      /\ ok /\ k # "logout" => alive'
      /\ ~ok => alive' = alive
      /\ k # "logout" => (alive => alive')
  BY <1>1 DEF IndAccess, TalkTyped
<1>4. /\ talk'[k].at = (IF ok THEN "answered" ELSE "refused")
      /\ talk'[k].who = (IF ok /\ k # "logout" THEN standing ELSE Nobody)
      /\ \A j \in Talks : j # k => talk'[j] = talk[j]
  BY <1>1 DEF IndAccess, TalkTyped
<1>5. \A j \in Talks : OnItsWay(j)' <=> OnItsWay(j)
  BY <1>2, <1>3, <1>4 DEF OnItsWay
<1>6. TalkTyped'
  BY <1>1, <1>2, <1>3 DEF IndAccess, TalkTyped
<1>7. ASSUME alive \/ lapsed, k # "logout" PROVE alive' \/ lapsed'
  BY <1>1, <1>3, <1>7 DEF IndAccess, TalkTyped
<1>8. Truthful'
  <2>1. ASSUME NEW j \in Talks, j # k, talk[j].who # Nobody, ~crossed PROVE alive' \/ lapsed'
    <3>1. OnItsWay(j) /\ (alive \/ lapsed)
      BY <2>1 DEF IndAccess, Truthful, OnItsWay
    <3>2. k # "logout"
      BY <1>2, <2>1, <3>1 DEF IndAccess, Alone
    <3>3. QED
      BY <1>7, <3>1, <3>2
  <2>2. QED
    BY <1>2, <1>3, <1>4, <2>1 DEF IndAccess, Truthful
<1>9. Believed'
  <2>1. SUFFICES ASSUME ~crossed, NothingAsked, user # Nobody PROVE alive' \/ lapsed'
    BY <1>2, <1>5 DEF Believed, NothingAsked, Talks
  <2>2. k # "logout" /\ (alive \/ lapsed)
    BY <1>2, <2>1 DEF NothingAsked, IndAccess, Believed
  <2>3. QED
    BY <1>7, <2>2
<1>10. Alone' /\ Awaited'
  BY <1>2, <1>5 DEF IndAccess, Alone, Awaited, Talks
<1>11. QED
  BY <1>6, <1>8, <1>9, <1>10 DEF IndAccess

LEMMA FailsKeepsAccess ==
    ASSUME IndAccess, NEW k \in Talks, Fails(k)
    PROVE  IndAccess'
<1>1. /\ talk' = [talk EXCEPT ![k] = [Hushed EXCEPT !.at = "failed"]] /\ OnItsWay(k)
      /\ UNCHANGED <<alive, standing, user, waiting, refreshing, crossed, lapsed>>
  BY DEF Fails, OnItsWay
<1>2. /\ TalkTyped' /\ talk'[k].at = "failed" /\ talk'[k].who = Nobody
      /\ \A j \in Talks : j # k => talk'[j] = talk[j]
  BY <1>1 DEF IndAccess, TalkTyped, Hushed
<1>3. \A j \in Talks : OnItsWay(j)' <=> OnItsWay(j)
  BY <1>1, <1>2 DEF OnItsWay
<1>4. Truthful'
  BY <1>1, <1>2 DEF IndAccess, Truthful
<1>5. Believed' /\ Alone' /\ Awaited'
  BY <1>1, <1>3 DEF IndAccess, Believed, NothingAsked, Alone, Awaited, Talks
<1>6. QED
  BY <1>2, <1>4, <1>5 DEF IndAccess

LEMMA ReceiveKeepsAccess ==
    ASSUME IndAccess, NEW k \in Talks, Receive(k)
    PROVE  IndAccess'
<1>1. /\ talk' = [talk EXCEPT ![k] = Hushed] /\ talk[k].at \in {"answered", "refused", "failed"}
      /\ user' = UserAfter(k) /\ refreshing' = Refreshing(k)
      /\ waiting' = (waiting /\ k # "initial" /\ talk[k].at # "refused")
      /\ UNCHANGED <<alive, standing, crossed, lapsed>>
  BY DEF Receive
<1>2. /\ TalkTyped' /\ talk'[k].at = "idle" /\ talk'[k].who = Nobody
      /\ \A j \in Talks : j # k => talk'[j] = talk[j]
  <2>1. Hushed \in [at : {"idle", "sent", "answered", "refused", "failed"}, who : Members \cup {Nobody}]
        /\ Hushed.at = "idle" /\ Hushed.who = Nobody
    BY DEF Hushed
  <2>2. QED
    BY <1>1, <2>1 DEF IndAccess, TalkTyped, Refreshing
<1>3. OnItsWay(k) /\ ~OnItsWay(k)' /\ \A j \in Talks : j # k => (OnItsWay(j)' <=> OnItsWay(j))
  BY <1>1, <1>2 DEF OnItsWay
<1>4. Truthful'
  BY <1>1, <1>2 DEF IndAccess, Truthful
<1>5. Alone'
  <2>1. SUFFICES ASSUME ~crossed, NEW i \in {"login", "logout"}, NEW j \in Talks, OnItsWay(i)', OnItsWay(j)'
                 PROVE  j = i
    BY <1>1 DEF Alone
  <2>2. i \in Talks /\ OnItsWay(i) /\ OnItsWay(j)
    BY <1>3, <2>1 DEF Talks
  <2>3. QED
    BY <2>1, <2>2 DEF IndAccess, Alone
<1>6. Awaited'
  BY <1>1, <1>3 DEF IndAccess, Awaited, Refreshing, Talks
<1>7. Believed'
  <2>1. SUFFICES ASSUME ~crossed, NothingAsked', user' # Nobody PROVE alive \/ lapsed
    BY <1>1 DEF Believed
  <2>2. CASE talk[k].at = "failed" /\ k = "login"
    <3>1. user' = user /\ NothingAsked
      BY <1>1, <1>3, <2>1, <2>2 DEF UserAfter, NothingAsked, Talks
    <3>2. QED
      BY <2>1, <3>1 DEF IndAccess, Believed
  <2>3. CASE ~(talk[k].at = "failed" /\ k = "login")
    <3>1. user' = talk[k].who
      BY <1>1, <2>3 DEF UserAfter
    <3>2. QED
      BY <2>1, <3>1 DEF IndAccess, Truthful
  <2>4. QED
    BY <2>2, <2>3
<1>8. QED
  BY <1>2, <1>4, <1>5, <1>6, <1>7 DEF IndAccess

LEMMA AccessStep == IndAccess /\ [AccessNext]_accessVars => IndAccess'
<1> SUFFICES ASSUME IndAccess, [AccessNext]_accessVars PROVE IndAccess'
  OBVIOUS
<1>1. ASSUME UNCHANGED <<alive, talk, waiting, refreshing, crossed, lapsed>>, user' = user \/ user' = Nobody,
             standing' \in Members
      PROVE  IndAccess'
  BY <1>1 DEF IndAccess, TalkTyped, Truthful, Believed, NothingAsked, Alone, Awaited, OnItsWay
<1>2. CASE Follow \/ (\E p \in Visits : Click(p)) \/ AuthExpired \/ (\E m \in Members : ChangeRights(m))
  BY <1>1, <1>2 DEF Follow, Click, AuthExpired, ChangeRights, IndAccess, TalkTyped
<1>3. CASE Revalidate
  <2>1. ~OnItsWay("refresh") /\ "refresh" \in Talks \ {"initial"} /\ refreshing' = TRUE /\ Send("refresh")
        /\ UNCHANGED <<alive, standing, user, waiting, lapsed>>
    BY <1>3 DEF Revalidate, IndAccess, Awaited, Talks
  <2>2. QED
    BY <2>1, SendKeepsAccess
<1>4. CASE HandleSubmit
  <2>1. ~OnItsWay("login") /\ "login" \in Talks \ {"initial"} /\ Send("login")
        /\ UNCHANGED <<alive, standing, user, waiting, lapsed, refreshing>> /\ refreshing \in BOOLEAN
    BY <1>4 DEF HandleSubmit, IndAccess, TalkTyped, Talks
  <2>2. QED
    BY <2>1, SendKeepsAccess
<1>5. CASE LogOut
  <2>1. ~OnItsWay("logout") /\ "logout" \in Talks \ {"initial"} /\ Send("logout")
        /\ UNCHANGED <<alive, standing, user, waiting, lapsed, refreshing>> /\ refreshing \in BOOLEAN
    BY <1>5 DEF LogOut, IndAccess, TalkTyped, Talks
  <2>2. QED
    BY <2>1, SendKeepsAccess
<1>6. CASE Lapse
  BY <1>6 DEF Lapse, IndAccess, TalkTyped, Truthful, Believed, NothingAsked, Alone, Awaited, OnItsWay
<1>7. ASSUME NEW p \in Visits, LoadPage(p) PROVE IndAccess'
  BY <1>7 DEF LoadPage, IndAccess, TalkTyped, Truthful, Believed, NothingAsked, Alone, Awaited, OnItsWay,
              Talks, Hushed
<1>8. CASE UNCHANGED accessVars
  BY <1>1, <1>8 DEF accessVars, IndAccess, TalkTyped
<1>9. QED
  BY <1>2, <1>3, <1>4, <1>5, <1>6, <1>7, <1>8, ReplyKeepsAccess, FailsKeepsAccess, ReceiveKeepsAccess
     DEF AccessNext

LEMMA AccessStart == AccessInit => IndAccess
<1>1. SUFFICES ASSUME AccessInit PROVE IndAccess
  OBVIOUS
<1>2. PICK sent : sent = [Hushed EXCEPT !.at = "sent"]
  OBVIOUS
<1>3. sent.at = "sent" /\ sent.who = Nobody /\ Hushed.at = "idle" /\ Hushed.who = Nobody
      /\ {sent, Hushed} \subseteq [at : {"idle", "sent", "answered", "refused", "failed"},
                                  who : Members \cup {Nobody}]
  BY <1>2 DEF Hushed
<1>4. talk = [k \in Talks |-> IF k = "initial" THEN sent ELSE Hushed]
  BY <1>1, <1>2 DEF AccessInit
<1>5. \A k \in Talks : talk[k].who = Nobody /\ (OnItsWay(k) <=> k = "initial") /\ talk[k].at # "answered"
  BY <1>3, <1>4 DEF OnItsWay
<1>6. TalkTyped
  BY <1>1, <1>3, <1>4 DEF AccessInit, TalkTyped
<1>7. QED
  BY <1>1, <1>5, <1>6 DEF AccessInit, IndAccess, Truthful, Believed, Alone, Awaited, Talks

\* The tables of the routes and of the navigation, whoever is signed in.
LEMMA OfferedAreAllowed ==
    ASSUME user # Nobody, ~waiting, NEW p \in Offered
    PROVE  Onward(p) = p
<1>1. CASE p = "dashboard"
  BY <1>1 DEF Onward, Gated, AdminPages, FreePages
<1>2. CASE p \in DOMAIN NavItems /\ HasPermission(NavItems[p])
  <2>1. /\ DOMAIN NavItems = {"grn", "battery", "dispatch", "fulfilment", "srn", "condition", "exceptions",
                              "ageing", "serials", "invoices"} \cup AdminPages
        /\ \A q \in AdminPages : NavItems[q] = "admin:access"
        /\ NavItems["condition"] = "condition:correct" /\ NavItems["invoices"] = "invoice:read"
    BY DEF NavItems, AdminPages
  <2>2. CASE p \in Gated
    <3>1. RouteNeeds(p) = NavItems[p]
      BY <2>1, <2>2 DEF RouteNeeds, Gated, AdminPages
    <3>2. QED
      BY <1>2, <2>2, <3>1 DEF Onward, Gated, AdminPages, FreePages
  <2>3. CASE p \notin Gated
    <3>1. p \in FreePages
      BY <1>2, <2>1, <2>3 DEF Gated, FreePages, AdminPages
    <3>2. QED
      BY <3>1 DEF Onward, Gated, AdminPages, FreePages
  <2>4. QED
    BY <2>2, <2>3
<1>3. QED
  BY <1>1, <1>2 DEF Offered

LEMMA RedirectsEnd ==
    ASSUME ~waiting, NEW p \in Addresses, NEW q, q = Onward(Onward(p))
    PROVE  Onward(q) = q
<1>1. Onward("login") = "login"
  BY DEF Onward
<1>2. CASE user = Nobody
  <2>1. Onward(p) = "login"
    BY <1>2 DEF Onward
  <2>2. QED
    BY <1>1, <2>1
<1>3. CASE user # Nobody
  <2>1. \A x \in FreePages : Onward(x) = x
    BY <1>3 DEF Onward, Gated, AdminPages, FreePages
  <2>2. Onward("dashboard") = "dashboard"
    BY <2>1 DEF FreePages
  <2>3. \A x \in Gated : Onward(x) = x \/ Onward(x) = "dashboard"
    BY <1>3 DEF Onward, Gated, AdminPages
  <2>4. \A x \in {"root", "imports"} : Onward(x) = "dashboard"
    BY <1>3 DEF Onward, Gated, AdminPages, FreePages
  <2>5. Onward("admin") = "warehouses" /\ "warehouses" \in Gated
    BY <1>3 DEF Onward, Gated, AdminPages, FreePages
  <2>6. Onward(q) = q
    <3>1. CASE p \in FreePages
      BY <2>1, <3>1
    <3>2. CASE p \in Gated
      BY <2>2, <2>3, <3>2
    <3>3. CASE p \in {"root", "imports"}
      BY <2>2, <2>4, <3>3
    <3>4. CASE p = "admin"
      BY <2>2, <2>3, <2>5, <3>4
    <3>5. CASE p = "login"
      BY <1>1, <3>5
    <3>6. QED
      BY <3>1, <3>2, <3>3, <3>4, <3>5 DEF Addresses
  <2>7. QED
    BY <2>6
<1>4. QED
  BY <1>2, <1>3

\* The browser and the server disagree on who is signed in only while an answer is to
\* come, or after calls that crossed; and the browser's own tables never disagree.
THEOREM TheBrowserIsRight == AccessSpec => []GuardsAgree
<1>1. AccessInit => IndAccess
  BY AccessStart
<1>2. IndAccess => GuardsAgree
  <2>1. SUFFICES ASSUME IndAccess PROVE GuardsAgree
    OBVIOUS
  <2>2. (\A k \in Talks : ~OnItsWay(k)) /\ ~crossed /\ user # Nobody => alive \/ lapsed
    BY <2>1 DEF IndAccess, Believed, NothingAsked, Talks
  <2>3. (waiting => OnItsWay("initial")) /\ (refreshing => OnItsWay("refresh"))
    BY <2>1 DEF IndAccess, Awaited
  <2>4. InShell => \A p \in Offered : Onward(p) = p
    BY OfferedAreAllowed DEF InShell
  <2>5. ~waiting => \A p \in Addresses : LET q == Onward(Onward(p)) IN Onward(q) = q
    BY RedirectsEnd
  <2>6. QED
    BY <2>2, <2>3, <2>4, <2>5 DEF GuardsAgree
<1>3. QED
  BY <1>1, <1>2, AccessStep, PTL DEF AccessSpec

BelievedOf == user \in Members \cup {Nobody} /\ waiting \in BOOLEAN

LEMMA BelievedStep == IndAccess /\ BelievedOf /\ [AccessNext]_accessVars => BelievedOf'
<1> SUFFICES ASSUME IndAccess, BelievedOf, [AccessNext]_accessVars PROVE BelievedOf'
  OBVIOUS
<1>1. CASE UNCHANGED <<user, waiting>>
  BY <1>1 DEF BelievedOf
<1>2. ASSUME NEW k \in Talks, Receive(k) PROVE BelievedOf'
  <2>1. user' \in Members \cup {Nobody}
    BY <1>2 DEF Receive, UserAfter, BelievedOf, IndAccess, TalkTyped
  <2>2. waiting' \in BOOLEAN
    BY <1>2 DEF Receive
  <2> QED BY <2>1, <2>2 DEF BelievedOf
<1>3. ASSUME NEW p \in Visits, LoadPage(p) PROVE BelievedOf'
  BY <1>3 DEF LoadPage, BelievedOf
<1>4. CASE AuthExpired
  BY <1>4 DEF AuthExpired, BelievedOf
<1> QED
  BY <1>1, <1>2, <1>3, <1>4
     DEF AccessNext, accessVars, Follow, Revalidate, HandleSubmit, LogOut, Lapse, Click, Reply, Fails,
         ChangeRights

(* The browser shows nobody the server has not named to it.                *)
THEOREM AccessTypesHold == AccessSpec => []AccessTypeOK
<1>1. AccessInit => BelievedOf
  BY DEF AccessInit, BelievedOf
<1>2. IndAccess /\ BelievedOf => AccessTypeOK
  BY DEF IndAccess, TalkTyped, BelievedOf, AccessTypeOK
<1> QED
  BY <1>1, <1>2, AccessStart, AccessStep, BelievedStep, PTL DEF AccessSpec
=============================================================================
