------------------------------ MODULE Numbering ------------------------------
(***************************************************************************)
(* What a scanned number stands for.  A unit is registered under a full    *)
(* number, the prefix of its product and the number stamped on it, and is  *)
(* scanned by either; two products may be stamped alike.  A number is a    *)
(* sequence of parts: <<x>> as it is stamped, <<p, x>> behind prefix p,    *)
(* <<>> one that is no number.  Every scan of goods receipt, dispatch,     *)
(* returns and pre-billing is answered by validateSerial, which leaves an  *)
(* exception when it refuses.                                              *)
(***************************************************************************)
EXTENDS Naturals, Sequences, FiniteSets

CONSTANTS
  Brands,           \* products
  Prefixes,         \* what a product's name may give: sequences of parts, <<>> too
  Stamps,           \* numbers stamped on units
  Yards,            \* warehouses
  Unknown,          \* no product picked, no warehouse
  MaxUnits, MaxRaised

VARIABLES
  prefix,           \* product -> what its name gives
  registry,         \* the units
  raised            \* exceptions of refused scans
numberingVars == <<prefix, registry, raised>>

(***************************************************************************)
(* The trigger that composes a number, and what there is to be scanned.    *)
(***************************************************************************)
Carries(s, p) == p # <<>> /\ Len(s) > Len(p) /\ SubSeq(s, 1, Len(p)) = p
BaseFrom(s, p) == IF Carries(s, p) THEN SubSeq(s, Len(p) + 1, Len(s)) ELSE s
Compose(s, p) == p \o BaseFrom(s, p)

BaseNumbers == {BaseFrom(s, p) : s \in Stamps, p \in Prefixes}
FullNumbers == {Compose(s, p) : s \in Stamps, p \in Prefixes}
Registrable == [kind : Brands, base : BaseNumbers, number : FullNumbers,
                gone : BOOLEAN, at : Yards \cup {Unknown}, bound : Yards \cup {Unknown}]
Contexts == {"GRN", "DISPATCH", "SRN"}
Scans(N) == [number : N, context : Contexts,
             yard : Yards \cup {Unknown}, kind : Brands \cup {Unknown}]
Numerals == Stamps \cup BaseNumbers \cup FullNumbers \cup {<<>>}
Rules == {"MALFORMED_SERIAL", "NOT_FOUND", "AMBIGUOUS_SERIAL", "ALREADY_DISPATCHED",
          "WRONG_WAREHOUSE", "PRODUCT_INVOICE_MISMATCH"}
NumberingTypeOK ==
  /\ prefix \in [Brands -> Prefixes] /\ \A u \in registry : u \in Registrable
  /\ raised \subseteq [number : Numerals, rule : Rules, context : Contexts]

(* A unit is registered within the two unique indexes.                     *)
Register(k, s, w) ==
  LET base == BaseFrom(s, prefix[k])  number == Compose(s, prefix[k]) IN
  /\ Cardinality(registry) < MaxUnits
  /\ \A u \in registry : u.number # number /\ <<u.kind, u.base>> # <<k, base>>
  /\ registry' = registry \cup {[kind |-> k, base |-> base, number |-> number,
                                 gone |-> FALSE, at |-> Unknown, bound |-> w]}
  /\ UNCHANGED <<prefix, raised>>
(* A product is uploaded again under another name: its units keep theirs.  *)
Rename(k, p) ==
  /\ p # prefix[k] /\ prefix' = [prefix EXCEPT ![k] = p] /\ UNCHANGED <<registry, raised>>
(* A unit is received into a warehouse, dispatched, returned.              *)
Move(u, w, gone) ==
  /\ registry' = (registry \ {u}) \cup {[u EXCEPT !.at = w, !.gone = gone]}
  /\ UNCHANGED <<prefix, raised>>

(***************************************************************************)
(* Resolving a number and judging the unit.                                *)
(***************************************************************************)
(* A full number first, whatever product is picked; then a stamped one, of *)
(* the product picked when there is one.                                   *)
Resolve(number, k) ==
  LET exact == {u \in registry : u.number = number} IN
  IF exact # {} THEN exact
  ELSE {u \in registry : u.base = number /\ k \in {u.kind, Unknown}}

(* Goods receipt asks where a unit is bound for, all others where it is.   *)
Place(u, context) == IF context = "GRN" /\ u.bound # Unknown THEN u.bound ELSE u.at
Misplaced(u, q) == q.yard # Unknown /\ Place(u, q.context) \notin {q.yard, Unknown}
AnyProduct(u, q) == FALSE   \* broken variant: the lookup has seen to it
OtherProduct(u, q) == q.kind \notin {u.kind, Unknown}

RuleBroken(q) ==
  LET found == Resolve(q.number, q.kind)  u == CHOOSE u \in found : TRUE IN
  IF q.number = <<>> THEN "MALFORMED_SERIAL"
  ELSE IF found = {} THEN "NOT_FOUND"
  ELSE IF Cardinality(found) > 1 THEN "AMBIGUOUS_SERIAL"
  ELSE IF u.gone /\ q.context # "SRN" THEN "ALREADY_DISPATCHED"
  ELSE IF Misplaced(u, q) THEN "WRONG_WAREHOUSE"
  ELSE IF OtherProduct(u, q) THEN "PRODUCT_INVOICE_MISMATCH"
  ELSE "none"
Valid(q) == RuleBroken(q) = "none"
Answered(q) == CHOOSE u \in Resolve(q.number, q.kind) : TRUE

(* A scan that is valid changes nothing here.                              *)
Refuse(q) ==
  /\ ~Valid(q) /\ Cardinality(raised) < MaxRaised
  /\ raised' = raised \cup {[number |-> q.number, rule |-> RuleBroken(q), context |-> q.context]}
  /\ UNCHANGED <<prefix, registry>>

NumberingInit == prefix \in [Brands -> Prefixes] /\ registry = {} /\ raised = {}
NumberingNext ==
  \/ \E k \in Brands : \/ \E p \in Prefixes : Rename(k, p)
                      \/ \E s \in Stamps, w \in Yards \cup {Unknown} : Register(k, s, w)
  \/ \E u \in registry, w \in Yards \cup {Unknown}, gone \in BOOLEAN : Move(u, w, gone)
  \/ \E q \in Scans(Numerals) : Refuse(q)
NumberingSpec == NumberingInit /\ [][NumberingNext]_numberingVars

(***************************************************************************)
(* Property.                                                               *)
(***************************************************************************)
(* No scan picks the wrong unit: one that is valid answers with a unit     *)
(* that bears the scanned number and is of the product picked, and it is   *)
(* the only one to be meant unless the number is its full one; one that is *)
(* not found is not there.  Of a unit with the product picked only another *)
(* unit's full number, spelt like its stamp, hides it                      *)
(* (validationService.js:72-107, serialRepository.js:265-310, V027:56-86). *)
ScansResolve == \A q \in Scans(UNION {{u.number, u.base} : u \in registry}) :
  LET bearers == {u \in registry : q.number \in {u.number, u.base}}
      meant == {u \in bearers : ~OtherProduct(u, q)}
      hidden == \E u \in bearers : u.number = q.number /\ u \notin meant IN
  /\ Valid(q) => /\ Answered(q) \in bearers
                 /\ q.kind \in {Answered(q).kind, Unknown}
                 /\ \A u \in meant : u = Answered(q) \/ q.number = Answered(q).number
  /\ RuleBroken(q) = "NOT_FOUND" => meant = {}
  /\ RuleBroken(q) = "PRODUCT_INVOICE_MISMATCH" => hidden
  /\ RuleBroken(q) = "AMBIGUOUS_SERIAL" => q.kind = Unknown /\ Cardinality(bearers) > 1
=============================================================================
