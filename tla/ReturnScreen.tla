---------------------------- MODULE ReturnScreen ----------------------------
(***************************************************************************)
(* The screen for customer returns (client): the form on which an operator *)
(* loads an invoice, flags the products that come back, declares how many  *)
(* and whether they may be foreign, and starts a return; then the session  *)
(* in which he scans them, one product at a time.                          *)
(*                                                                         *)
(* The form stays open while an invoice is looked up and while the return  *)
(* is created, and the invoice loaded before stays on it until another one *)
(* arrives, so that what is on its way can be overtaken by the operator.   *)
(* The serial and the condition of a scan are left out, and so is a second *)
(* scan beside the first (see Desk).                                       *)
(***************************************************************************)
EXTENDS Naturals

CONSTANTS
  Bills,            \* invoices the server knows
  Articles,         \* products
  ArticlesOn,       \* invoice -> the products of its lines
  Halls,            \* warehouses returns are received into
  Amounts,          \* what may be declared; 0 is nothing
  MaxReturned,      \* bound on the units counted in a session
  Nix               \* no value

ASSUME ReturnScreenAssumption ==
  /\ ArticlesOn \in [Bills -> SUBSET Articles] /\ Amounts \subseteq Nat /\ 0 \in Amounts
  /\ MaxReturned \in Nat
  /\ Nix \notin Bills \cup Articles \cup Halls
                \cup [bill : Bills, goods : SUBSET Articles, declared : Amounts, foreign : BOOLEAN, into : Halls]

VARIABLES
  field,            \* the text in the field: an invoice, or one unknown
  lookup,           \* the text that is being looked up
  bill,             \* the invoice that was loaded last
  flagged,          \* the products that are ticked
  declared,         \* the quantity that is declared
  foreign,          \* the answer to the question about foreign stock
  into,             \* the warehouse
  creating,         \* the return that is being created
  srn,              \* the return, as the server has it, and its label
  article,          \* the product that is being scanned for
  scan,             \* the product the scan on its way was sent for; Unscoped if none
  cameBack,         \* the units counted
  hasty             \* history: the operator went on while something was on its way
formOfReturn == <<field, lookup, bill, flagged, declared, foreign, into, creating>>
sessionOfReturn == <<srn, article, scan, cameBack>>
returnVars == <<formOfReturn, sessionOfReturn, hasty>>

Unscoped == "unscoped"
Requested == [bill : Bills, goods : SUBSET Articles, declared : Amounts, foreign : BOOLEAN, into : Halls]
ReturnTypeOK ==
  /\ field \in Bills \cup {"mistyped", Nix} /\ lookup \in Bills \cup {"mistyped", Nix}
  /\ bill \in Bills \cup {Nix} /\ flagged \subseteq Articles
  /\ declared \in Amounts /\ foreign \in BOOLEAN \cup {Nix} /\ into \in Halls \cup {Nix}
  /\ creating = Nix \/ creating \in Requested
  /\ srn = Nix \/ srn \in [of : Requested, label : Bills]
  /\ article \in Articles \cup {Nix} /\ scan \in Articles \cup {Nix, Unscoped}
  /\ cameBack \in 0..MaxReturned /\ hasty \in BOOLEAN

(***************************************************************************)
(* The form.                                                               *)
(***************************************************************************)
OnForm == srn = Nix
Filling == OnForm /\ bill # Nix
OnItsWayOut == lookup # Nix \/ creating # Nix

TypeInvoice(q) ==
  /\ OnForm /\ field' = q
  /\ UNCHANGED <<lookup, bill, flagged, declared, foreign, into, creating, sessionOfReturn, hasty>>
ChooseHall(w) ==
  /\ OnForm /\ into' = w
  /\ UNCHANGED <<field, lookup, bill, flagged, declared, foreign, creating, sessionOfReturn, hasty>>
(* What was flagged and answered before is forgotten, the invoice is not.  *)
NothingForgotten == flagged   \* broken variant: the ticks stay
NothingFlagged == {}
HandleLoadInvoice ==
  /\ OnForm /\ field # Nix /\ lookup = Nix
  /\ lookup' = field /\ flagged' = NothingFlagged /\ foreign' = Nix /\ hasty' = (creating # Nix)
  /\ UNCHANGED <<field, bill, declared, into, creating, sessionOfReturn>>
(* One that is unknown, or was never dispatched, or whose lookup fails,    *)
(* leaves the one that was loaded before.  The answer may also come when   *)
(* the session has begun.                                                  *)
InvoiceLoaded ==
  /\ lookup # Nix /\ lookup' = Nix
  /\ bill' \in {bill} \cup ({lookup} \cap Bills)
  /\ UNCHANGED <<field, flagged, declared, foreign, into, creating, sessionOfReturn, hasty>>
HandleToggleProduct(p) ==
  /\ Filling /\ p \in ArticlesOn[bill]
  /\ flagged' = IF p \in flagged THEN flagged \ {p} ELSE flagged \cup {p}
  /\ hasty' = (hasty \/ OnItsWayOut)
  /\ UNCHANGED <<field, lookup, bill, declared, foreign, into, creating, sessionOfReturn>>
DeclareQuantity(n) ==
  /\ Filling /\ declared' = n /\ hasty' = (hasty \/ OnItsWayOut)
  /\ UNCHANGED <<field, lookup, bill, flagged, foreign, into, creating, sessionOfReturn>>
ForeignStockQuestion(yes) ==
  /\ Filling /\ foreign' = yes /\ hasty' = (hasty \/ OnItsWayOut)
  /\ UNCHANGED <<field, lookup, bill, flagged, declared, into, creating, sessionOfReturn>>

FilledIn == into # Nix /\ flagged # {} /\ foreign # Nix
StartReturn ==
  /\ Filling /\ creating = Nix /\ FilledIn
  /\ creating' = [bill |-> bill, goods |-> flagged, declared |-> declared, foreign |-> foreign, into |-> into]
  /\ hasty' = (hasty \/ lookup # Nix)
  /\ UNCHANGED <<field, lookup, bill, flagged, declared, foreign, into, sessionOfReturn>>
(* The session is labelled with the invoice the return was asked for.      *)
LabelAsked == creating.bill
ReturnStarted ==
  /\ creating # Nix /\ creating' = Nix
  /\ srn' \in {Nix, [of |-> creating, label |-> LabelAsked]}
  /\ UNCHANGED <<field, lookup, bill, flagged, declared, foreign, into, article, scan, cameBack, hasty>>

(***************************************************************************)
(* The session.                                                            *)
(***************************************************************************)
ScanProducts == IF bill = Nix THEN {} ELSE ArticlesOn[bill] \cap flagged
MustPick == ScanProducts # {} /\ article = Nix
LimitReached == declared # 0 /\ cameBack >= declared

PickArticle(p) ==
  /\ srn # Nix /\ p \in ScanProducts /\ article' = p
  /\ UNCHANGED <<formOfReturn, srn, scan, cameBack, hasty>>
ScanReturned ==
  /\ srn # Nix /\ scan = Nix /\ ~LimitReached /\ ~MustPick
  /\ scan' = IF article = Nix THEN Unscoped ELSE article
  /\ UNCHANGED <<formOfReturn, srn, article, cameBack, hasty>>
ReturnScanned ==
  /\ scan # Nix /\ scan' = Nix
  /\ cameBack' \in {cameBack} \cup ({cameBack + 1} \cap 0..MaxReturned)
  /\ UNCHANGED <<formOfReturn, srn, article, hasty>>

(* The page is left, and comes back as it was at first.                    *)
ReturnInit ==
  /\ field = Nix /\ lookup = Nix /\ bill = Nix /\ flagged = {} /\ declared = 0 /\ foreign = Nix
  /\ into = Nix /\ creating = Nix /\ srn = Nix /\ article = Nix /\ scan = Nix /\ cameBack = 0
  /\ hasty = FALSE
LeaveReturns ==
  /\ field' = Nix /\ lookup' = Nix /\ bill' = Nix /\ flagged' = {} /\ declared' = 0 /\ foreign' = Nix
  /\ into' = Nix /\ creating' = Nix /\ srn' = Nix /\ article' = Nix /\ scan' = Nix /\ cameBack' = 0
  /\ hasty' = FALSE

ReturnNext ==
  \/ \E q \in Bills \cup {"mistyped"} : TypeInvoice(q)
  \/ (\E w \in Halls : ChooseHall(w)) \/ HandleLoadInvoice \/ InvoiceLoaded
  \/ (\E p \in Articles : HandleToggleProduct(p)) \/ \E n \in Amounts : DeclareQuantity(n)
  \/ (\E yes \in BOOLEAN : ForeignStockQuestion(yes)) \/ StartReturn \/ ReturnStarted
  \/ (\E p \in Articles : PickArticle(p)) \/ ScanReturned \/ ReturnScanned \/ LeaveReturns
ReturnSpec == ReturnInit /\ [][ReturnNext]_returnVars

(***************************************************************************)
(* Properties.                                                             *)
(***************************************************************************)
(* An operator who waits for what he has asked for scans the return he has *)
(* filled in: what he flags is on the invoice that is loaded, also after a *)
(* lookup that led nowhere; the return was created for this invoice, with  *)
(* these products, this quantity and this answer; and every scan is sent   *)
(* for a product he has flagged (SRNPage.jsx:43-91, 127-131).              *)
ScreenIsTheReturn == ~hasty =>
  /\ flagged \subseteq (IF bill = Nix THEN {} ELSE ArticlesOn[bill])
  /\ \A r \in {creating, IF srn = Nix THEN Nix ELSE srn.of} \ {Nix} :
       r.bill = bill /\ r.goods = flagged /\ r.declared = declared /\ r.foreign = foreign
  /\ scan # Nix => scan \in srn.of.goods

(* Whatever the operator does meanwhile and in whatever order lookup and   *)
(* creation are answered, the invoice named above the scans is the one the *)
(* return is for, some product is flagged, and the question is answered    *)
(* (SRNPage.jsx:76-91).                                                    *)
LabelIsTrue == srn # Nix => srn.label = srn.of.bill /\ srn.of.goods # {}

(* The return on the screen is the one the server has: as filled in, for   *)
(* those who wait, and under its own label for everybody.                  *)
ReturnIsAsShown == ScreenIsTheReturn /\ LabelIsTrue
=============================================================================
