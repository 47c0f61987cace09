---------------------------- MODULE ScreenProofs ----------------------------
(***************************************************************************)
(* Proofs about the screens of the client: the one for returns             *)
(* (ReturnScreen), the one for transfers (TransferScreen), the one for     *)
(* dispatches, with its scans (Desk), the pages that show a selection      *)
(* (Pages) and their tables (Listing).  Each has state and invariants of   *)
(* its own.                                                                *)
(***************************************************************************)
EXTENDS ReturnScreen, TransferScreen, Desk, Pages, Listing, FiniteSetTheorems, TLAPS

-----------------------------------------------------------------------------
(* Returns (ReturnScreen).  An operator who waits has flagged nothing yet  *)
(* while an invoice is looked up, and nothing is looked up while a return  *)
(* is created or open (Waited): so no answer changes what he has filled    *)
(* in, and what is created is what is on the form.  The rest says in what  *)
(* order things come to be.                                                *)

OneAtATime ==
  /\ srn # Nix => creating = Nix
  /\ scan # Nix \/ article # Nix => srn # Nix
Waited == ~hasty =>
  /\ lookup # Nix => flagged = {} /\ creating = Nix /\ srn = Nix
  /\ article # Nix => article \in flagged
Entered == \A r \in {creating, IF srn = Nix THEN Nix ELSE srn.of} \ {Nix} : r.goods # {}
IndReturn == ReturnTypeOK /\ OneAtATime /\ Waited /\ Entered /\ ScreenIsTheReturn /\ LabelIsTrue

LEMMA ReturnStep == IndReturn /\ [ReturnNext]_returnVars => IndReturn'
<1> SUFFICES ASSUME IndReturn, [ReturnNext]_returnVars PROVE IndReturn'
  OBVIOUS
<1> USE ReturnScreenAssumption
    DEF IndReturn, OneAtATime, Waited, Entered, ScreenIsTheReturn, LabelIsTrue
<1>1. ASSUME NEW q \in Bills \cup {"mistyped"}, TypeInvoice(q) PROVE IndReturn'
  BY <1>1 DEF TypeInvoice, ReturnTypeOK, sessionOfReturn
<1>2. ASSUME NEW w \in Halls, ChooseHall(w) PROVE IndReturn'
  BY <1>2 DEF ChooseHall, ReturnTypeOK, sessionOfReturn
<1>3. ASSUME HandleLoadInvoice PROVE IndReturn'
  BY <1>3 DEF HandleLoadInvoice, NothingFlagged, OnForm, ReturnTypeOK, sessionOfReturn
<1>4. ASSUME InvoiceLoaded PROVE IndReturn'
  BY <1>4 DEF InvoiceLoaded, ReturnTypeOK, sessionOfReturn
<1>5. ASSUME NEW p \in Articles, HandleToggleProduct(p) PROVE IndReturn'
  BY <1>5 DEF HandleToggleProduct, Filling, OnForm, OnItsWayOut, ReturnTypeOK, sessionOfReturn
<1>6. ASSUME NEW n \in Amounts, DeclareQuantity(n) PROVE IndReturn'
  BY <1>6 DEF DeclareQuantity, Filling, OnForm, OnItsWayOut, ReturnTypeOK, sessionOfReturn
<1>7. ASSUME NEW yes \in BOOLEAN, ForeignStockQuestion(yes) PROVE IndReturn'
  BY <1>7 DEF ForeignStockQuestion, Filling, OnForm, OnItsWayOut, ReturnTypeOK, sessionOfReturn
<1>8. ASSUME StartReturn PROVE IndReturn'
  BY <1>8 DEF StartReturn, FilledIn, Filling, OnForm, Requested, ReturnTypeOK, sessionOfReturn
<1>9. ASSUME ReturnStarted PROVE IndReturn'
  BY <1>9 DEF ReturnStarted, LabelAsked, Requested, ReturnTypeOK
<1>10. ASSUME NEW p \in Articles, PickArticle(p) PROVE IndReturn'
  BY <1>10 DEF PickArticle, ScanProducts, ReturnTypeOK, formOfReturn
<1>11. ASSUME ScanReturned PROVE IndReturn'
  <2>1. ~hasty => srn.of.goods = flagged /\ flagged # {} /\ flagged \subseteq (IF bill = Nix THEN {} ELSE ArticlesOn[bill])
    BY <1>11 DEF ScanReturned, ReturnTypeOK, Requested
  <2>2. ~hasty => article \in flagged
    BY <2>1, <1>11 DEF ScanReturned, MustPick, ScanProducts, ReturnTypeOK
  <2>3. QED
    BY <2>1, <2>2, <1>11 DEF ScanReturned, ReturnTypeOK, formOfReturn
<1>12. ASSUME ReturnScanned PROVE IndReturn'
  BY <1>12 DEF ReturnScanned, ReturnTypeOK, formOfReturn
<1>13. ASSUME LeaveReturns PROVE IndReturn'
  <2>1. ReturnTypeOK'
    <3>1. 0 \in Amounts /\ 0 \in 0..MaxReturned
      OBVIOUS
    <3>2. QED
      BY <3>1, <1>13, Zenon DEF LeaveReturns, ReturnTypeOK
  <2>2. QED
    BY <2>1, <1>13 DEF LeaveReturns
<1>14. ASSUME UNCHANGED returnVars PROVE IndReturn'
  BY <1>14 DEF returnVars, formOfReturn, sessionOfReturn, ReturnTypeOK
<1>15. QED
  BY <1>1, <1>2, <1>3, <1>4, <1>5, <1>6, <1>7, <1>8, <1>9, <1>10, <1>11, <1>12, <1>13, <1>14 DEF ReturnNext

\* The three properties of the return screen are one inductive invariant with what it adds.
LEMMA ReturnScreenIsSound == ReturnSpec => [](ReturnTypeOK /\ ScreenIsTheReturn /\ LabelIsTrue)
<1>1. ReturnInit => IndReturn
  <2>1. 0 \in Amounts /\ 0 \in 0..MaxReturned
    BY ReturnScreenAssumption
  <2>2. QED
    BY <2>1, Zenon DEF ReturnInit, IndReturn, ReturnTypeOK, OneAtATime, Waited, Entered, ScreenIsTheReturn,
       LabelIsTrue
<1>2. QED
  BY <1>1, ReturnStep, PTL DEF ReturnSpec, IndReturn

\* Types; a return is only asked for by a form that is filled in.
THEOREM ReturnTypesHold == ReturnSpec => []ReturnTypeOK
<1> QED  BY ReturnScreenIsSound, PTL

\* An operator who waits for what he has asked for scans the return he has filled in, and
\* whoever does not wait at least scans under the right label.
THEOREM ReturnsFollowTheForm == ReturnSpec => []ReturnIsAsShown
<1>1. ScreenIsTheReturn /\ LabelIsTrue => ReturnIsAsShown
  BY DEF ReturnIsAsShown
<1> QED  BY <1>1, ReturnScreenIsSound, PTL

-----------------------------------------------------------------------------
(* Transfers (TransferScreen).  What is asked for is the stock of what is  *)
(* on the form, and nothing is asked for when it is not filled in or the   *)
(* session has begun (StockFollows); a product is picked in a session only,*)
(* and from the invoice on the screen (SessionFollows).                    *)

StockFollows ==
  /\ moving # Vacant \/ chosen = Vacant \/ source = Vacant => stockShown = Vacant /\ stockAsked = {}
  /\ stockAsked \subseteq {<<chosen, source>>}
  /\ stockShown # Vacant => stockShown = <<chosen, source>> \/ <<chosen, source>> \in stockAsked
RouteFollows == chosen # Vacant /\ ~touched => <<source, target>> = RouteOf[chosen]
SessionFollows ==
  /\ moving = Vacant => goodsPicked = Vacant /\ scanOut = Vacant
  /\ moving # Vacant => starting = Vacant
  /\ moving # Vacant /\ ~overtaken /\ goodsPicked # Vacant => goodsPicked \in FreightOn[moving.of]
IndTransfer == TransferTypeOK /\ StockFollows /\ RouteFollows /\ SessionFollows /\ SessionIsTheTransfer

\* The effect on the form asks for the stock of what is on it now, or for none.
LEMMA StockIsAskedAnew ==
    ASSUME TransferTypeOK, StockFollows, NEW i \in Papers \cup {Vacant}, NEW w \in Docks \cup {Vacant},
           AskForStock(i, w), chosen' = i, source' = w, moving' = moving
    PROVE  /\ StockFollows'
           /\ stockShown' \in (Papers \X Docks) \cup {Vacant} /\ stockAsked' \subseteq Papers \X Docks
<1>1. CASE <<i, w>> = <<chosen, source>>
  BY <1>1 DEF AskForStock, stockOf, StockFollows, TransferTypeOK
<1>2. CASE <<i, w>> # <<chosen, source>> /\ (i = Vacant \/ w = Vacant \/ moving # Vacant)
  BY <1>2 DEF AskForStock, StockFollows, TransferTypeOK
<1>3. CASE <<i, w>> # <<chosen, source>> /\ ~(i = Vacant \/ w = Vacant \/ moving # Vacant)
  <2>1. stockAsked' = {<<i, w>>} /\ stockShown' = stockShown
    BY <1>3 DEF AskForStock, stockOf
  <2>2. <<i, w>> \in Papers \X Docks
    BY <1>3
  <2>3. QED
    BY <1>3, <2>1, <2>2 DEF StockFollows, TransferTypeOK
<1>4. QED
  BY <1>1, <1>2, <1>3

LEMMA TransferStep == IndTransfer /\ [TransferNext]_transferVars => IndTransfer'
<1> SUFFICES ASSUME IndTransfer, [TransferNext]_transferVars PROVE IndTransfer'
  OBVIOUS
<1> USE TransferScreenAssumption DEF IndTransfer
<1>0. chosen # Vacant => FreightOn[chosen] \subseteq Freight
  BY DEF TransferTypeOK
<1>1. ASSUME NEW q \in Papers \cup {"mistyped"}, AskFor(q) PROVE IndTransfer'
  BY <1>1 DEF AskFor, stockOf, sessionOfTransfer, TransferTypeOK, StockFollows, RouteFollows, SessionFollows,
     SessionIsTheTransfer
<1>2. ASSUME NEW k \in Lookups, LoadTransfer(k) PROVE IndTransfer'
  BY <1>2 DEF LoadTransfer, Preparing, sessionOfTransfer, TransferTypeOK, StockFollows, RouteFollows, SessionFollows,
     SessionIsTheTransfer
<1>3. ASSUME NEW k \in Lookups, TransferLoaded(k) PROVE IndTransfer'
  <2>1. CASE UNCHANGED <<chosen, source, target, touched, stockOf, overtaken>>
    BY <1>3, <2>1 DEF TransferLoaded, stockOf, sessionOfTransfer, TransferTypeOK, StockFollows, RouteFollows,
       SessionFollows, SessionIsTheTransfer
  <2>2. CASE /\ lookingFor[k] \in Papers /\ chosen' = lookingFor[k]
             /\ source' = Brings(chosen')[1] /\ target' = Brings(chosen')[2] /\ touched' = FALSE
             /\ AskForStock(chosen', source')
             /\ overtaken' = (overtaken \/ (moving # Vacant /\ chosen' # moving.of))
    <3>1. /\ lookingFor' \in [Lookups -> Papers \cup {"mistyped", Vacant}]
          /\ chosen' \in Papers /\ <<source', target'>> = RouteOf[chosen']
          /\ source' \in Docks /\ target' \in Docks
          /\ UNCHANGED <<asking, starting, moving, goodsPicked, scanOut, lateScans, moved, accepted>>
      BY <1>3, <2>2 DEF TransferLoaded, Brings, sessionOfTransfer, TransferTypeOK
    <3>2. StockFollows' /\ stockShown' \in (Papers \X Docks) \cup {Vacant} /\ stockAsked' \subseteq Papers \X Docks
      BY <3>1, <2>2, StockIsAskedAnew
    <3>3. QED
      BY <3>1, <3>2, <2>2 DEF TransferTypeOK, RouteFollows, SessionFollows, SessionIsTheTransfer
  <2>3. QED
    BY <1>3, <2>1, <2>2 DEF TransferLoaded
<1>4. ASSUME NEW w \in Docks, ChooseSource(w) PROVE IndTransfer'
  <2>1. StockFollows' /\ stockShown' \in (Papers \X Docks) \cup {Vacant} /\ stockAsked' \subseteq Papers \X Docks
    <3>1. chosen' = chosen /\ source' = w /\ moving' = moving /\ AskForStock(chosen, w)
      BY <1>4 DEF ChooseSource, sessionOfTransfer
    <3>2. QED
      BY <3>1, StockIsAskedAnew DEF TransferTypeOK
  <2>2. QED
    BY <1>4, <2>1 DEF ChooseSource, Preparing, sessionOfTransfer, TransferTypeOK, RouteFollows, SessionFollows,
       SessionIsTheTransfer
<1>5. ASSUME NEW w \in Docks, ChooseTarget(w) PROVE IndTransfer'
  BY <1>5 DEF ChooseTarget, Preparing, stockOf, sessionOfTransfer, TransferTypeOK, StockFollows, RouteFollows,
     SessionFollows, SessionIsTheTransfer
<1>6. ASSUME NEW a \in stockAsked, StockArrived(a) PROVE IndTransfer'
  BY <1>6 DEF StockArrived, fields, sessionOfTransfer, TransferTypeOK, StockFollows, RouteFollows, SessionFollows,
     SessionIsTheTransfer
<1>7. ASSUME StartMoving PROVE IndTransfer'
  BY <1>7 DEF StartMoving, Preparing, Transfers, fields, stockOf, sessionOfTransfer, TransferTypeOK, StockFollows,
     RouteFollows, SessionFollows, SessionIsTheTransfer
<1>8. ASSUME MovingStarted PROVE IndTransfer'
  <2>1. TransferTypeOK'
    <3>1. lateScans' \in 0..MaxLate /\ moved' \in 0..MaxMoved /\ accepted' \in Nat
      BY <1>8 DEF MovingStarted, sessionOfTransfer, TransferTypeOK
    <3>2. QED
      BY <3>1, <1>8, Zenon DEF MovingStarted, Transfers, fields, stockOf, sessionOfTransfer, TransferTypeOK
  <2>2. QED
    BY <2>1, <1>8 DEF MovingStarted, Transfers, fields, stockOf, sessionOfTransfer, TransferTypeOK, StockFollows, RouteFollows, SessionFollows, SessionIsTheTransfer
<1>9. ASSUME NEW p \in Freight, PickGoods(p) PROVE IndTransfer'
  BY <1>9 DEF PickGoods, GoodsOffered, fields, stockOf, TransferTypeOK, StockFollows,
     RouteFollows, SessionFollows, SessionIsTheTransfer
<1>10. ASSUME ScanUnit PROVE IndTransfer'
  <2>1. ~overtaken => chosen = moving.of /\ chosen # Vacant
    BY <1>10 DEF ScanUnit, SessionIsTheTransfer, TransferTypeOK, Transfers
  <2>2. QED
    BY <1>0, <1>10, <2>1 DEF ScanUnit, GoodsOffered, fields, stockOf, TransferTypeOK, StockFollows,
       RouteFollows, SessionFollows, SessionIsTheTransfer
<1>11. ASSUME UnitScanned PROVE IndTransfer'
  BY <1>11 DEF UnitScanned, fields, stockOf, TransferTypeOK, StockFollows,
     RouteFollows, SessionFollows, SessionIsTheTransfer
<1>12. ASSUME LateScanAnswered PROVE IndTransfer'
  <2>1. TransferTypeOK'
    <3>1. lateScans' \in 0..MaxLate /\ moved' \in 0..MaxMoved /\ accepted' \in Nat
      BY <1>12 DEF LateScanAnswered, sessionOfTransfer, TransferTypeOK
    <3>2. /\ UNCHANGED <<fields, lookingFor, stockOf, starting, moving, goodsPicked, scanOut>>
          /\ overtaken' \in BOOLEAN
      BY <1>12 DEF LateScanAnswered, TransferTypeOK
    <3>3. QED
      BY <3>1, <3>2, Zenon DEF fields, stockOf, TransferTypeOK
  <2>2. QED
    BY <2>1, <1>12 DEF LateScanAnswered, fields, stockOf, TransferTypeOK, StockFollows, RouteFollows, SessionFollows, SessionIsTheTransfer
<1>13. ASSUME DoneMoving PROVE IndTransfer'
  <2>1. TransferTypeOK'
    <3>1. lateScans' \in 0..MaxLate /\ moved' \in 0..MaxMoved /\ accepted' \in Nat
      BY <1>13 DEF DoneMoving, sessionOfTransfer, TransferTypeOK
    <3>2. QED
      BY <3>1, <1>13, Zenon DEF DoneMoving, NothingPicked, TransferTypeOK
  <2>2. QED
    BY <2>1, <1>13 DEF DoneMoving, NothingPicked, TransferTypeOK, StockFollows, RouteFollows, SessionFollows, SessionIsTheTransfer
<1>14. ASSUME LeaveTransfers PROVE IndTransfer'
  <2>1. TransferTypeOK'
    <3>1. lateScans' \in 0..MaxLate /\ moved' \in 0..MaxMoved /\ accepted' \in Nat
      BY <1>14 DEF LeaveTransfers, sessionOfTransfer, TransferTypeOK
    <3>2. QED
      BY <3>1, <1>14, Zenon DEF LeaveTransfers, TransferTypeOK
  <2>2. QED
    BY <2>1, <1>14 DEF LeaveTransfers, TransferTypeOK, StockFollows, RouteFollows, SessionFollows, SessionIsTheTransfer
<1>15. ASSUME UNCHANGED transferVars PROVE IndTransfer'
  BY <1>15 DEF transferVars, fields, stockOf, sessionOfTransfer, TransferTypeOK, StockFollows, RouteFollows,
     SessionFollows, SessionIsTheTransfer
<1>16. QED
  BY <1>1, <1>2, <1>3, <1>4, <1>5, <1>6, <1>7, <1>8, <1>9, <1>10, <1>11, <1>12, <1>13, <1>14, <1>15 DEF TransferNext

\* The three properties of the transfer screen, from what its form, its route and its session
\* follow.
LEMMA TransferScreenIsSound == TransferSpec => [](TransferTypeOK /\ FormAgrees /\ SessionIsTheTransfer)
<1>1. TransferInit => IndTransfer
  <2>1. TransferInit => TransferTypeOK
    <3>1. 0 \in 0..MaxLate /\ 0 \in 0..MaxMoved /\ 0 \in Nat
      BY TransferScreenAssumption
    <3>2. QED
      BY <3>1, Zenon DEF TransferInit, TransferTypeOK
  <2>2. QED
    BY <2>1 DEF TransferInit, IndTransfer, StockFollows, RouteFollows, SessionFollows, SessionIsTheTransfer
<1>2. IndTransfer => TransferTypeOK /\ FormAgrees /\ SessionIsTheTransfer
  BY DEF IndTransfer, StockFollows, RouteFollows, FormAgrees
<1>3. QED
  BY <1>1, <1>2, TransferStep, PTL DEF TransferSpec

\* Types; stock is only asked for an invoice and a warehouse that are chosen.
THEOREM TransferTypesHold == TransferSpec => []TransferTypeOK
<1> QED  BY TransferScreenIsSound, PTL

\* On the form, the stock shown is that of its invoice and source or that pair's own is being
\* asked for, and the route is the invoice's unless a warehouse was chosen since; in a session no
\* answer has come late to, the scans and the count are the transfer's own.
THEOREM TransfersFollowTheForm == TransferSpec => []TransferIsAsShown
<1>1. FormAgrees /\ SessionIsTheTransfer => TransferIsAsShown
  BY DEF TransferIsAsShown
<1> QED  BY <1>1, TransferScreenIsSound, PTL

-----------------------------------------------------------------------------
(* Dispatches (Desk).  As on the screen for transfers, the stock asked for *)
(* is that of what is on the form (DeskStockFollows).                      *)

DeskStockFollows ==
  /\ session # Void \/ picked = Void \/ shop = Void => stockFor = Void /\ asked = {}
  /\ asked \subseteq {<<picked, shop>>}
  /\ stockFor # Void => stockFor = <<picked, shop>> \/ <<picked, shop>> \in asked

LEMMA DeskStockStep == DeskStockFollows /\ [DeskNext]_deskVars => DeskStockFollows'
<1> SUFFICES ASSUME DeskStockFollows, [DeskNext]_deskVars PROVE DeskStockFollows'
  OBVIOUS
<1> USE DEF DeskStockFollows
<1>1. ASSUME HandleLoad PROVE DeskStockFollows'
  BY <1>1 DEF HandleLoad
<1>2. ASSUME NEW l \in lookups, Loaded(l) PROVE DeskStockFollows'
  <2>1. CASE UNCHANGED <<picked, stockFor, asked>>
    BY <1>2, <2>1 DEF Loaded
  <2>2. CASE picked' = l.query /\ picked # l.query
             /\ asked' = Refetch(l.query, shop) /\ stockFor' = ShownAfter(l.query, shop)
    <3>1. UNCHANGED <<shop, session>>
      BY <1>2 DEF Loaded
    <3>2. CASE l.query = Void \/ shop = Void \/ session # Void
      BY <2>2, <3>1, <3>2 DEF Refetch, ShownAfter
    <3>3. CASE ~(l.query = Void \/ shop = Void \/ session # Void)
      BY <2>2, <3>1, <3>3 DEF Refetch, ShownAfter
    <3>4. QED
      BY <3>2, <3>3
  <2>3. QED
    BY <1>2, <2>1, <2>2 DEF Loaded
<1>3. ASSUME NEW w \in Shops, ChooseShop(w) PROVE DeskStockFollows'
  <2>1. UNCHANGED <<picked, session>> /\ shop' = w /\ asked' = Refetch(picked, w) /\ stockFor' = ShownAfter(picked, w)
    BY <1>3 DEF ChooseShop
  <2>2. CASE picked = Void \/ w = Void \/ session # Void
    BY <2>1, <2>2 DEF Refetch, ShownAfter
  <2>3. CASE ~(picked = Void \/ w = Void \/ session # Void)
    BY <2>1, <2>3 DEF Refetch, ShownAfter
  <2>4. QED
    BY <2>2, <2>3
<1>4. ASSUME NEW a \in asked, StockAnswered(a) PROVE DeskStockFollows'
  BY <1>4 DEF StockAnswered
<1>5. ASSUME Created PROVE DeskStockFollows'
  BY <1>5 DEF Created
<1>6. ASSUME HandleComplete PROVE DeskStockFollows'
  BY <1>6 DEF HandleComplete, InSession, form
<1>7. ASSUME LeavePage PROVE DeskStockFollows'
  BY <1>7 DEF LeavePage
<1>8. ASSUME UNCHANGED <<picked, shop, session, stockFor, asked>> PROVE DeskStockFollows'
  BY <1>8
<1>9. (\E q \in Orders \cup {"mistyped"} : TypeIn(q)) \/ HandleCreate
      \/ (\E w \in Wares : PickProduct(w)) \/ (\E yes \in BOOLEAN : SetPaused(yes))
      \/ (\E p \in Pieces : ScanByHand(p) \/ ScanAgain(p)) \/ StopCamera
      \/ (\E k \in Cameras : StartCamera(k) \/ CameraOn(k) \/ \E p \in Pieces : CameraScan(k, p))
      \/ (\E c \in calls : Serve(c) \/ Settle(c)) \/ UNCHANGED deskVars
      => UNCHANGED <<picked, shop, session, stockFor, asked>>
  BY DEF TypeIn, HandleCreate, PickProduct, SetPaused, ScanByHand, ScanAgain, StopCamera, StartCamera, CameraOn, CameraScan,
     Serve, Settle, deskVars, form, scanning
<1>10. QED
  BY <1>1, <1>2, <1>3, <1>4, <1>5, <1>6, <1>7, <1>8, <1>9 DEF DeskNext

\* The stock on the form is that of its invoice and warehouse, or that pair's own is still being
\* asked for.
THEOREM DispatchesFollowTheForm == DeskSpec => []StockIsCurrent
<1>1. DeskInit => DeskStockFollows
  BY DEF DeskInit, DeskStockFollows
<1>2. DeskStockFollows => StockIsCurrent
  BY DEF DeskStockFollows, StockIsCurrent
<1>3. QED
  BY <1>1, <1>2, DeskStockStep, PTL DEF DeskSpec

(* The count.  A scan the server has accepted is of a piece of its own,    *)
(* which it took after the session began and which is not counted yet      *)
(* (Landed); so the pieces counted and those that will be are among the    *)
(* pieces taken for the invoice, besides those taken before.               *)
Landed == {c \in calls : c.answer \in {"valid", "foreign"}}
LandedPieces == {c.piece : c \in Landed}
Sessioned == [order : Orders, status : {"PENDING", "DISPATCHED"}, base : Nat]
Answers == {"none", "valid", "foreign", "refused", "lost"}
DeskShape ==
  /\ holder \in [Pieces -> Orders \cup {Void}]
  /\ session \in Sessioned \cup {Void} /\ opening \in Orders \cup {Void} /\ picked \in Orders \cup {Void}
  /\ opening # Void => session = Void
  /\ session = Void => calls = {} /\ counted = {} /\ seen = {} /\ \A k \in Cameras : cam[k].pc = "off"
  /\ \A c \in calls : c \in [id : {c.id}, order : {session.order}, piece : Pieces, ware : {c.ware},
                             via : {c.via}, answer : Answers]
Tally == session # Void =>
  /\ counted \cup LandedPieces \subseteq TakenFor(session.order)
  /\ counted \cap LandedPieces = {} /\ seen \subseteq counted
  /\ \A c, d \in Landed : c.piece = d.piece => c = d
  /\ count = session.base + Cardinality(counted)
  /\ session.base + Cardinality(counted \cup LandedPieces) <= Cardinality(TakenFor(session.order))
IndCount == DeskShape /\ Tally

LEMMA TakenIsFinite == \A o : IsFiniteSet(TakenFor(o)) /\ Cardinality(TakenFor(o)) \in Nat
<1> TAKE o
<1>1. TakenFor(o) \subseteq Pieces
  BY DEF TakenFor
<1>2. QED
  BY <1>1, DeskAssumption, FS_Subset, FS_CardinalityType

\* What is sent is not accepted yet.
LEMMA SubmitKeepsTally ==
    ASSUME IndCount, session # Void, NEW p \in Pieces, NEW w, NEW k, Submit(p, w, k),
           UNCHANGED <<holder, session, opening, picked, counted, seen, count>>
    PROVE  IndCount'
<1>1. PICK c : c = [id |-> NewId(calls), order |-> session.order, piece |-> p, ware |-> w,
                    via |-> k, answer |-> "none"]
  OBVIOUS
<1>2. calls' = calls \cup {c} /\ c.answer = "none"
      /\ c \in [id : {c.id}, order : {session.order}, piece : Pieces, ware : {c.ware}, via : {c.via}, answer : Answers]
  BY <1>1 DEF Submit, Answers
<1>3. Landed' = Landed
  BY <1>2 DEF Landed
<1>4. LandedPieces' = LandedPieces
  BY <1>3 DEF LandedPieces
<1>5. \A o : TakenFor(o)' = TakenFor(o)
  BY DEF TakenFor
<1>6. DeskShape'
  BY <1>2 DEF IndCount, DeskShape
<1>7. Tally'
  BY <1>3, <1>4, <1>5 DEF IndCount, Tally
<1>8. QED
  BY <1>6, <1>7 DEF IndCount

\* An answer of the server.
LEMMA ServeKeepsTally == ASSUME IndCount, NEW c \in calls, Serve(c) PROVE IndCount'
<1> DEFINE o == session.order
<1>1. /\ session # Void /\ session \in Sessioned /\ o \in Orders /\ c.answer = "none"
      /\ c.order = o /\ c.piece \in Pieces /\ Void \notin Orders
  BY DeskAssumption DEF IndCount, DeskShape, Serve, Sessioned
<1>2. UNCHANGED <<session, opening, picked, counted, seen, count, cam>>
  BY DEF Serve, form, scanning
<1>3. PICK a \in Answers : calls' = (calls \ {c}) \cup {[c EXCEPT !.answer = a]}
                           /\ \/ holder[c.piece] = Void /\ holder' = [holder EXCEPT ![c.piece] = c.order]
                              \/ holder' = holder /\ a \in {"refused", "lost"}
  BY DEF Serve, Answers
<1>4. PICK d : d = [c EXCEPT !.answer = a]
  OBVIOUS
<1>5. /\ d.answer = a /\ d.piece = c.piece
      /\ d \in [id : {d.id}, order : {o}, piece : Pieces, ware : {d.ware}, via : {d.via}, answer : Answers]
  BY <1>1, <1>4 DEF IndCount, DeskShape
<1>6. calls' = (calls \ {c}) \cup {d}
  BY <1>3, <1>4
<1>7. DeskShape'
  <2>1. holder' \in [Pieces -> Orders \cup {Void}]
    BY <1>1, <1>3 DEF IndCount, DeskShape
  <2>2. QED
    BY <1>1, <1>2, <1>5, <1>6, <2>1 DEF IndCount, DeskShape
<1>8. CASE holder[c.piece] = Void /\ holder' = [holder EXCEPT ![c.piece] = c.order]
  <2>1. TakenFor(o)' = TakenFor(o) \cup {c.piece} /\ c.piece \notin TakenFor(o)
    BY <1>1, <1>2, <1>8 DEF TakenFor, IndCount, DeskShape
  <2>2. Cardinality(TakenFor(o)') = Cardinality(TakenFor(o)) + 1
    BY <2>1, TakenIsFinite, FS_AddElement
  <2>3. c.piece \notin counted \cup LandedPieces
    BY <1>1, <2>1 DEF IndCount, Tally
  <2>4. CASE a \in {"valid", "foreign"}
    <3>1. Landed' = Landed \cup {d}
      BY <1>1, <1>5, <1>6, <2>4 DEF Landed
    <3>2. LandedPieces' = LandedPieces \cup {c.piece}
      BY <1>5, <3>1 DEF LandedPieces
    <3>3. \A x \in Landed : x.piece # d.piece
      BY <1>5, <2>3 DEF LandedPieces
    <3>4. IsFiniteSet(counted \cup LandedPieces)
      BY <1>1, TakenIsFinite, FS_Subset DEF IndCount, Tally
    <3>5. /\ Cardinality((counted \cup LandedPieces) \cup {c.piece}) = Cardinality(counted \cup LandedPieces) + 1
          /\ Cardinality(counted \cup LandedPieces) \in Nat
      BY <2>3, <3>4, FS_AddElement, FS_CardinalityType
    <3>6. counted' \cup LandedPieces' = (counted \cup LandedPieces) \cup {c.piece}
      BY <1>2, <3>2
    <3>7. /\ session.base \in Nat /\ Cardinality(TakenFor(o)) \in Nat
          /\ session.base + Cardinality(counted \cup LandedPieces) <= Cardinality(TakenFor(o))
      BY <1>1, TakenIsFinite DEF IndCount, Tally, Sessioned
    <3>8. session'.base + Cardinality(counted' \cup LandedPieces') <= Cardinality(TakenFor(o)')
      <4>1. /\ session'.base = session.base
            /\ Cardinality(counted' \cup LandedPieces') = Cardinality(counted \cup LandedPieces) + 1
        BY <1>2, <3>5, <3>6
      <4>2. \A b, n, t \in Nat : b + n <= t => b + (n + 1) <= t + 1
        OBVIOUS
      <4>3. session.base + (Cardinality(counted \cup LandedPieces) + 1) <= Cardinality(TakenFor(o)) + 1
        BY <3>5, <3>7, <4>2
      <4>4. QED
        BY <2>2, <4>1, <4>3
    <3>9. QED
      BY <1>1, <1>2, <1>7, <2>1, <2>3, <3>1, <3>2, <3>3, <3>8 DEF IndCount, Tally
  <2>5. CASE a \notin {"valid", "foreign"}
    <3>1. Landed' = Landed
      BY <1>1, <1>5, <1>6, <2>5 DEF Landed
    <3>2. LandedPieces' = LandedPieces
      BY <3>1 DEF LandedPieces
    <3>3. IsFiniteSet(counted \cup LandedPieces)
      BY <1>1, TakenIsFinite, FS_Subset DEF IndCount, Tally
    <3>4. /\ Cardinality(counted \cup LandedPieces) \in Nat
          /\ session.base \in Nat /\ Cardinality(TakenFor(o)) \in Nat
          /\ session.base + Cardinality(counted \cup LandedPieces) <= Cardinality(TakenFor(o))
      BY <1>1, <3>3, TakenIsFinite, FS_CardinalityType DEF IndCount, Tally, Sessioned
    <3>5. session'.base + Cardinality(counted' \cup LandedPieces') <= Cardinality(TakenFor(o)')
      BY <1>2, <2>2, <3>2, <3>4
    <3>6. QED
      BY <1>1, <1>2, <1>7, <2>1, <3>1, <3>2, <3>5 DEF IndCount, Tally
  <2>6. QED
    BY <2>4, <2>5
<1>9. CASE holder' = holder /\ a \in {"refused", "lost"}
  <2>1. Landed' = Landed
    BY <1>1, <1>5, <1>6, <1>9 DEF Landed
  <2>2. LandedPieces' = LandedPieces
    BY <2>1 DEF LandedPieces
  <2>3. TakenFor(o)' = TakenFor(o)
    BY <1>2, <1>9 DEF TakenFor
  <2>4. QED
    BY <1>1, <1>2, <1>7, <2>1, <2>2, <2>3 DEF IndCount, Tally
<1>10. QED
  BY <1>3, <1>8, <1>9

\* What an answer counts for.
LEMMA SettleKeepsTally == ASSUME IndCount, NEW c \in calls, Settle(c) PROVE IndCount'
<1> DEFINE o == session.order
<1>1. /\ session # Void /\ session \in Sessioned /\ o \in Orders /\ c.piece \in Pieces
  BY DEF IndCount, DeskShape, Sessioned
<1>2. UNCHANGED <<session, opening, picked, holder>> /\ calls' = calls \ {c}
  BY DEF Settle, form
<1>3. DeskShape'
  BY <1>1, <1>2 DEF IndCount, DeskShape
<1>4. TakenFor(o)' = TakenFor(o)
  BY <1>2 DEF TakenFor
<1>5. IsFiniteSet(counted) /\ Cardinality(counted) \in Nat /\ session.base \in Nat
  BY <1>1, TakenIsFinite, FS_Subset, FS_CardinalityType DEF IndCount, Tally, Sessioned
<1>6. CASE c \in Landed
  <2>1. Landed' = Landed \ {c}
    BY <1>2 DEF Landed
  <2>2. LandedPieces' = LandedPieces \ {c.piece} /\ c.piece \in LandedPieces /\ c.piece \notin counted
    BY <1>1, <1>6, <2>1 DEF LandedPieces, IndCount, Tally
  <2>3. counted' = counted \cup {c.piece} /\ count' = count + 1
        /\ seen' \subseteq seen \cup {c.piece}
    BY <1>6 DEF Settle, Landed, UnitsIn, Accepts
  <2>4. Cardinality(counted') = Cardinality(counted) + 1
    BY <1>5, <2>2, <2>3, FS_AddElement
  <2>5. counted' \cup LandedPieces' = counted \cup LandedPieces /\ counted' \cap LandedPieces' = {}
    BY <1>1, <2>2, <2>3 DEF IndCount, Tally
  <2>6. count' = session'.base + Cardinality(counted')
    BY <1>1, <1>2, <1>5, <2>3, <2>4 DEF IndCount, Tally
  <2>7. (counted \cup LandedPieces \subseteq TakenFor(o))'
    <3>1. counted \cup LandedPieces \subseteq TakenFor(o)
      BY <1>1 DEF IndCount, Tally
    <3>2. QED
      BY <3>1, <1>2, <1>4, <2>5
  <2>8. seen' \subseteq counted'
    <3>1. seen \subseteq counted
      BY <1>1 DEF IndCount, Tally
    <3>2. QED
      BY <3>1, <2>3
  <2>9. (\A d, e \in Landed : d.piece = e.piece => d = e)'
    <3>1. \A d, e \in Landed : d.piece = e.piece => d = e
      BY <1>1 DEF IndCount, Tally
    <3>2. QED
      BY <3>1, <2>1
  <2>10. (session.base + Cardinality(counted \cup LandedPieces) <= Cardinality(TakenFor(o)))'
    <3>1. session.base + Cardinality(counted \cup LandedPieces) <= Cardinality(TakenFor(o))
      BY <1>1 DEF IndCount, Tally
    <3>2. QED
      BY <3>1, <1>2, <1>4, <2>5
  <2>11. Tally'
    BY <2>5, <2>6, <2>7, <2>8, <2>9, <2>10 DEF Tally
  <2>12. QED
    BY <1>3, <2>11 DEF IndCount
<1>7. CASE c \notin Landed
  <2>1. Landed' = Landed
    BY <1>2, <1>7 DEF Landed
  <2>2. LandedPieces' = LandedPieces
    BY <2>1 DEF LandedPieces
  <2>3. counted' = counted /\ count' = count /\ seen' = seen
    BY <1>1, <1>5, <1>7 DEF Settle, Landed, UnitsIn, Accepts, Remembered, IndCount, Tally
  <2>4. Tally'
    BY <1>1, <1>2, <1>4, <2>1, <2>2, <2>3 DEF IndCount, Tally
  <2>5. QED
    BY <1>3, <2>4 DEF IndCount
<1>8. QED
  BY <1>6, <1>7

\* A session begins with the pieces that are there already, and no others on their way.
LEMMA CreatedKeepsTally == ASSUME IndCount, Created PROVE IndCount'
<1>1. /\ opening \in Orders /\ session = Void /\ calls = {} /\ counted = {} /\ seen = {}
      /\ opening' = Void /\ UNCHANGED <<picked, holder, calls, counted, seen, cam>>
  BY DEF IndCount, DeskShape, Created
<1>2. LandedPieces' = {} /\ Landed' = {}
  BY <1>1 DEF LandedPieces, Landed
<1>3. CASE UNCHANGED session
  BY <1>1, <1>3 DEF IndCount, DeskShape, Tally
<1>4. CASE /\ session' = [order |-> opening, status |-> "PENDING", base |-> Cardinality(TakenFor(opening))]
           /\ count' = Cardinality(TakenFor(opening))
  <2>1. session' \in Sessioned /\ session'.order = opening /\ session'.base = Cardinality(TakenFor(opening))
    BY <1>1, <1>4, TakenIsFinite DEF Sessioned
  <2>2. session' # Void
    BY <2>1, DeskAssumption DEF Sessioned
  <2>3. DeskShape'
    BY <1>1, <2>1, <2>2 DEF IndCount, DeskShape
  <2>4. TakenFor(session.order)' = TakenFor(opening)
    BY <1>1, <2>1 DEF TakenFor
  <2>5. Cardinality({}) = 0 /\ Cardinality(TakenFor(opening)) \in Nat
    BY TakenIsFinite, FS_EmptySet
  <2>6. Tally'
    BY <1>1, <1>2, <1>4, <2>1, <2>4, <2>5 DEF Tally
  <2>7. QED
    BY <2>3, <2>6 DEF IndCount
<1>5. QED
  BY <1>3, <1>4 DEF Created

\* What the count depends on stands still; a camera moves in a session only.
LEMMA OthersKeepTally ==
    ASSUME IndCount, UNCHANGED <<holder, calls, counted, seen, count>>,
           session' \in Sessioned \cup {Void}, (session' = Void) <=> (session = Void),
           session # Void => session'.order = session.order /\ session'.base = session.base,
           session = Void => \A k \in Cameras : cam'[k].pc = "off",
           opening' \in Orders \cup {Void}, opening' # Void => session = Void,
           picked' \in Orders \cup {Void}
    PROVE  IndCount'
<1>1. Landed' = Landed
  BY DEF Landed
<1>2. LandedPieces' = LandedPieces
  BY <1>1 DEF LandedPieces
<1>3. session # Void => TakenFor(session.order)' = TakenFor(session.order)
  BY DEF TakenFor
<1>4. DeskShape'
  BY DEF IndCount, DeskShape
<1>5. Tally'
  BY <1>1, <1>2, <1>3 DEF IndCount, Tally
<1>6. QED
  BY <1>4, <1>5 DEF IndCount

LEMMA CountStep == IndCount /\ [DeskNext]_deskVars => IndCount'
<1> SUFFICES ASSUME IndCount, [DeskNext]_deskVars PROVE IndCount'
  OBVIOUS
<1>0. /\ session \in Sessioned \cup {Void} /\ opening \in Orders \cup {Void} /\ picked \in Orders \cup {Void}
      /\ opening # Void => session = Void
      /\ session = Void => \A k \in Cameras : cam[k].pc = "off"
      /\ \A p \in Pieces : holder[p] \in Orders \cup {Void}
  BY DEF IndCount, DeskShape
<1>1. ASSUME NEW p \in Pieces, ScanByHand(p) PROVE IndCount'
  <2>1. Submit(p, ware, Void) /\ session # Void
        /\ UNCHANGED <<holder, session, opening, picked, counted, seen, count>>
    BY <1>1 DEF ScanByHand, InSession, form
  <2>2. QED
    BY <2>1, SubmitKeepsTally
<1>2. ASSUME NEW k \in Cameras, NEW p \in Pieces, CameraScan(k, p) PROVE IndCount'
  <2>1. Submit(p, cam[k].ware, k) /\ session # Void
        /\ UNCHANGED <<holder, session, opening, picked, counted, seen, count>>
    BY <1>0, <1>2 DEF CameraScan, form
  <2>2. QED
    BY <2>1, SubmitKeepsTally
<1>3. ASSUME HandleComplete PROVE IndCount'
  <2>1. PICK s \in {"PENDING", "DISPATCHED"} : session' = [session EXCEPT !.status = s]
    BY <1>3 DEF HandleComplete
  <2>2. session # Void /\ session \in Sessioned
    BY <1>0, <1>3 DEF HandleComplete, InSession
  <2>3. session' \in Sessioned /\ session'.order = session.order /\ session'.base = session.base
    BY <2>1, <2>2 DEF Sessioned
  <2>4. session' # Void
    BY <2>3, DeskAssumption DEF Sessioned
  <2>5. UNCHANGED <<holder, calls, counted, seen, count, cam, opening, picked>>
    BY <1>3 DEF HandleComplete, form, scanning
  <2>6. QED
    BY <1>0, <2>2, <2>3, <2>4, <2>5, OthersKeepTally
<1>4. ASSUME LeavePage PROVE IndCount'
  <2>1. /\ session' = Void /\ calls' = {} /\ counted' = {} /\ seen' = {} /\ opening' = Void /\ picked' = Void
        /\ \A k \in Cameras : cam'[k].pc = "off"
    BY <1>4 DEF LeavePage, Dark
  <2>2. PICK S \in SUBSET calls : holder' = [p \in Pieces |->
           IF holder[p] = Void /\ \E c \in S : c.piece = p /\ c.answer = "none" /\ c.ware = WareOf[p]
           THEN session.order ELSE holder[p]]
    BY <1>4 DEF LeavePage
  <2>3. S # {} => session.order \in Orders
    BY <2>2 DEF IndCount, DeskShape, Sessioned
  <2>4. holder' \in [Pieces -> Orders \cup {Void}]
    BY <1>0, <2>2, <2>3
  <2>5. QED
    BY <2>1, <2>4 DEF IndCount, DeskShape, Tally
<1>5. ASSUME (\E q \in Orders \cup {"mistyped"} : TypeIn(q)) \/ HandleLoad \/ (\E l \in lookups : Loaded(l))
             \/ (\E w \in Shops : ChooseShop(w)) \/ (\E a \in asked : StockAnswered(a)) \/ HandleCreate
      PROVE  IndCount'
  <2>1. UNCHANGED <<holder, calls, counted, seen, count, cam, session>>
    BY <1>5 DEF TypeIn, HandleLoad, Loaded, ChooseShop, StockAnswered, HandleCreate, scanning
  <2>2. picked' \in Orders \cup {Void}
    BY <1>0, <1>5 DEF TypeIn, HandleLoad, Loaded, ChooseShop, StockAnswered, HandleCreate
  <2>3. opening' \in Orders \cup {Void} /\ (opening' # Void => session = Void)
    BY <1>0, <1>5 DEF TypeIn, HandleLoad, Loaded, ChooseShop, StockAnswered, HandleCreate
  <2>4. QED
    BY <1>0, <2>1, <2>2, <2>3, OthersKeepTally
<1>6. ASSUME (\E w \in Wares : PickProduct(w)) \/ (\E yes \in BOOLEAN : SetPaused(yes)) \/ StopCamera
             \/ (\E p \in Pieces : ScanAgain(p)) \/ (\E k \in Cameras : StartCamera(k) \/ CameraOn(k))
             \/ UNCHANGED deskVars
      PROVE  IndCount'
  <2>1. UNCHANGED <<holder, calls, counted, seen, count, session, opening, picked>>
    BY <1>6 DEF PickProduct, SetPaused, ScanAgain, StopCamera, StartCamera, CameraOn, deskVars, scanning, form
  <2>2. session = Void => cam' = cam
    BY <1>0, <1>6 DEF PickProduct, SetPaused, ScanAgain, StopCamera, StartCamera, CameraOn, InSession, deskVars, scanning
  <2>3. QED
    BY <1>0, <2>1, <2>2, OthersKeepTally
<1>7. QED
  BY <1>1, <1>2, <1>3, <1>4, <1>5, <1>6, ServeKeepsTally, SettleKeepsTally, CreatedKeepsTally DEF DeskNext

(* The list of scans.  It has a line for every piece that is counted and   *)
(* one for every scan that accepted nothing.                               *)
ListKept ==
  /\ lines \in Nat /\ fruitless \in Nat
  /\ session = Void => lines = 0 /\ fruitless = 0
  /\ session # Void => lines = Cardinality(counted) + fruitless

LEMMA CountedIsFinite == IndCount => IsFiniteSet(counted) /\ Cardinality(counted) \in Nat
<1> SUFFICES ASSUME IndCount PROVE IsFiniteSet(counted)
  BY FS_CardinalityType
<1>1. CASE session = Void
  BY <1>1, FS_EmptySet DEF IndCount, DeskShape
<1>2. CASE session # Void
  BY <1>2, TakenIsFinite, FS_Subset DEF IndCount, Tally
<1> QED BY <1>1, <1>2

LEMMA ListStep == IndCount /\ ListKept /\ [DeskNext]_deskVars => ListKept'
<1> SUFFICES ASSUME IndCount, ListKept, [DeskNext]_deskVars PROVE ListKept'
  OBVIOUS
<1>0. Cardinality(counted) \in Nat
  BY CountedIsFinite
<1>1. ASSUME list' = list, counted' = counted, (session' = Void) <=> (session = Void) PROVE ListKept'
  BY <1>1 DEF list, ListKept
<1>2. ASSUME NEW c \in calls, Settle(c) PROVE ListKept'
  <2>1. session # Void /\ session' = session /\ lines' = lines + 1
    BY <1>2 DEF Settle, IndCount, DeskShape
  <2>2. CASE Accepts(c)
    <3>1. c \in Landed /\ c.piece \in LandedPieces
      BY <2>2 DEF Accepts, Landed, LandedPieces
    <3>2. c.piece \notin counted
      BY <2>1, <3>1 DEF IndCount, Tally
    <3>3. counted' = counted \cup {c.piece} /\ fruitless' = fruitless
      BY <1>2, <2>2 DEF Settle
    <3>4. Cardinality(counted') = Cardinality(counted) + 1
      BY <3>2, <3>3, CountedIsFinite, FS_AddElement
    <3> QED BY <1>0, <2>1, <3>3, <3>4 DEF ListKept
  <2>3. CASE ~Accepts(c)
    <3>1. counted' = counted /\ fruitless' = fruitless + 1
      BY <1>2, <2>3 DEF Settle
    <3> QED BY <1>0, <2>1, <3>1 DEF ListKept
  <2> QED BY <2>2, <2>3
<1>3. ASSUME NEW p \in Pieces, ScanAgain(p) PROVE ListKept'
  BY <1>0, <1>3 DEF ScanAgain, InSession, ListKept
<1>4. CASE Created
  <2>1. session = Void /\ counted = {} /\ Cardinality({}) = 0
    BY <1>4, FS_EmptySet DEF Created, IndCount, DeskShape
  <2>2. list' = list /\ counted' = counted
    BY <1>4 DEF Created
  <2> QED BY <2>1, <2>2 DEF list, ListKept
<1>5. CASE HandleComplete
  <2>1. PICK s \in {"PENDING", "DISPATCHED"} : session' = [session EXCEPT !.status = s]
    BY <1>5 DEF HandleComplete
  <2>2. session # Void /\ session \in Sessioned
    BY <1>5 DEF HandleComplete, InSession, IndCount, DeskShape
  <2>3. session' \in Sessioned
    BY <2>1, <2>2 DEF Sessioned
  <2>4. session' # Void
    BY <2>3, DeskAssumption DEF Sessioned
  <2> QED BY <1>1, <1>5, <2>2, <2>4 DEF HandleComplete, scanning
<1>6. CASE LeavePage
  BY <1>6 DEF LeavePage, ListKept
<1>7. (\E q \in Orders \cup {"mistyped"} : TypeIn(q)) \/ HandleLoad \/ (\E l \in lookups : Loaded(l))
      \/ (\E w \in Shops : ChooseShop(w)) \/ (\E a \in asked : StockAnswered(a)) \/ HandleCreate
      \/ (\E w \in Wares : PickProduct(w)) \/ (\E yes \in BOOLEAN : SetPaused(yes))
      \/ (\E p \in Pieces : ScanByHand(p)) \/ StopCamera
      \/ (\E k \in Cameras : StartCamera(k) \/ CameraOn(k) \/ \E p \in Pieces : CameraScan(k, p))
      \/ (\E c \in calls : Serve(c)) \/ UNCHANGED deskVars
      => UNCHANGED <<list, counted, session>>
  BY DEF TypeIn, HandleLoad, Loaded, ChooseShop, StockAnswered, HandleCreate, PickProduct, SetPaused, ScanByHand,
     StopCamera, StartCamera, CameraOn, CameraScan, Serve, deskVars, scanning
<1> QED BY <1>1, <1>2, <1>3, <1>4, <1>5, <1>6, <1>7 DEF DeskNext

LEMMA ScanningStart == DeskInit => IndCount /\ ListKept
BY DEF DeskInit, IndCount, DeskShape, Tally, Dark, ListKept

\* The count of the session is the number of pieces the server has accepted, as far as it has
\* answered, and never more than it has taken; the number on the screen is that count unless the
\* scans that accepted nothing are more than the pieces the session was begun with.
THEOREM ScansAreCountedOnce == DeskSpec => []CountIsTrue
<1>1. IndCount /\ ListKept => CountIsTrue
  <2>1. SUFFICES ASSUME IndCount, ListKept, session # Void
        PROVE  /\ count = session.base + Cardinality(counted) /\ count <= Cardinality(TakenFor(session.order))
               /\ seen \subseteq TakenFor(session.order)
               /\ EffectiveScanCount = IF fruitless > session.base THEN Cardinality(counted) + fruitless ELSE count
    BY DEF CountIsTrue, InSession
  <2>2. IsFiniteSet(counted \cup LandedPieces)
    BY <2>1, TakenIsFinite, FS_Subset DEF IndCount, Tally
  <2>3. /\ Cardinality(counted) <= Cardinality(counted \cup LandedPieces)
        /\ Cardinality(counted) \in Nat /\ Cardinality(counted \cup LandedPieces) \in Nat
    BY <2>2, FS_Subset, FS_CardinalityType
  <2>4. session.base \in Nat /\ Cardinality(TakenFor(session.order)) \in Nat
    BY <2>1, TakenIsFinite DEF IndCount, DeskShape, Sessioned
  <2>5. /\ count = session.base + Cardinality(counted) /\ count <= Cardinality(TakenFor(session.order))
        /\ seen \subseteq TakenFor(session.order)
    BY <2>1, <2>3, <2>4 DEF IndCount, Tally
  <2>6. EffectiveScanCount = IF fruitless > session.base THEN Cardinality(counted) + fruitless ELSE count
    BY <2>1, <2>3, <2>4, <2>5 DEF EffectiveScanCount, ListKept
  <2>7. QED
    BY <2>5, <2>6
<1>2. QED
  BY <1>1, ScanningStart, CountStep, ListStep, PTL DEF DeskSpec

(* Types of the screen: stock is asked for before a session begins, and a  *)
(* camera is in one of its five states, whatever it sends.                 *)
FormTyped ==
  /\ shop \in Shops \cup {Void}
  /\ stockFor = Void \/ stockFor \in Orders \X Shops
  /\ asked \subseteq Orders \X Shops /\ (asked # {} => session = Void)
CamerasTyped ==
  /\ ware \in Wares \cup {Void}
  /\ cam \in [Cameras -> [pc : {"off", "asking", "on", "busy", "ending"}, ware : Wares \cup {Void}]]
  /\ native \in BOOLEAN
IndScreen == IndCount /\ ListKept /\ FormTyped /\ CamerasTyped

LEMMA FormStep == IndScreen /\ [DeskNext]_deskVars => FormTyped'
<1> SUFFICES ASSUME IndScreen, [DeskNext]_deskVars PROVE FormTyped'
  OBVIOUS
<1>0. FormTyped /\ picked \in Orders \cup {Void}
  BY DEF IndScreen, IndCount, DeskShape
<1>1. CASE UNCHANGED <<shop, stockFor, asked, session>>
  BY <1>0, <1>1 DEF FormTyped
<1>2. ASSUME NEW o \in Orders \cup {Void}, NEW w \in Shops \cup {Void}
      PROVE  /\ Refetch(o, w) \subseteq Orders \X Shops /\ (Refetch(o, w) # {} => session = Void)
             /\ ShownAfter(o, w) = Void \/ ShownAfter(o, w) \in Orders \X Shops
  BY <1>0 DEF Refetch, ShownAfter, FormTyped
<1>3. CASE HandleLoad
  BY <1>0, <1>3 DEF HandleLoad, FormTyped
<1>4. ASSUME NEW l \in lookups, Loaded(l) PROVE FormTyped'
  <2>1. UNCHANGED <<shop, session>>
    BY <1>4 DEF Loaded
  <2>2. CASE UNCHANGED <<stockFor, asked>>
    BY <1>0, <2>1, <2>2 DEF FormTyped
  <2>3. CASE l.query \in Orders /\ asked' = Refetch(l.query, shop) /\ stockFor' = ShownAfter(l.query, shop)
    <3>1. l.query \in Orders \cup {Void} /\ shop \in Shops \cup {Void}
      BY <1>0, <2>3 DEF FormTyped
    <3> QED BY <1>2, <2>1, <2>3, <3>1 DEF FormTyped
  <2> QED BY <1>4, <2>2, <2>3 DEF Loaded
<1>5. ASSUME NEW w \in Shops, ChooseShop(w) PROVE FormTyped'
  BY <1>0, <1>2, <1>5 DEF ChooseShop, FormTyped
<1>6. ASSUME NEW a \in asked, StockAnswered(a) PROVE FormTyped'
  BY <1>0, <1>6 DEF StockAnswered, FormTyped
<1>7. CASE Created
  BY <1>0, <1>7 DEF Created, FormTyped
<1>8. CASE HandleComplete
  BY <1>0, <1>8 DEF HandleComplete, InSession, form, FormTyped
<1>9. CASE LeavePage
  BY <1>9 DEF LeavePage, FormTyped
<1>10. (\E q \in Orders \cup {"mistyped"} : TypeIn(q)) \/ HandleCreate
       \/ (\E w \in Wares : PickProduct(w)) \/ (\E yes \in BOOLEAN : SetPaused(yes))
       \/ (\E p \in Pieces : ScanByHand(p) \/ ScanAgain(p)) \/ StopCamera
       \/ (\E k \in Cameras : StartCamera(k) \/ CameraOn(k) \/ \E p \in Pieces : CameraScan(k, p))
       \/ (\E c \in calls : Serve(c) \/ Settle(c)) \/ UNCHANGED deskVars
       => UNCHANGED <<shop, stockFor, asked, session>>
  BY DEF TypeIn, HandleCreate, PickProduct, SetPaused, ScanByHand, ScanAgain, StopCamera, StartCamera, CameraOn, CameraScan,
     Serve, Settle, deskVars, form, scanning
<1> QED BY <1>1, <1>3, <1>4, <1>5, <1>6, <1>7, <1>8, <1>9, <1>10 DEF DeskNext

LEMMA CamerasStep == CamerasTyped /\ [DeskNext]_deskVars => CamerasTyped'
<1> SUFFICES ASSUME CamerasTyped, [DeskNext]_deskVars PROVE CamerasTyped'
  OBVIOUS
<1> DEFINE States == {"off", "asking", "on", "busy", "ending"}
           Recs == [pc : States, ware : Wares \cup {Void}]
<1>0. native' = native
  BY DEF DeskNext, TypeIn, HandleLoad, Loaded, ChooseShop, StockAnswered, HandleCreate, Created, PickProduct, SetPaused,
     ScanByHand, ScanAgain, StopCamera, StartCamera, CameraOn, CameraScan, Serve, Settle, HandleComplete, LeavePage, deskVars
<1>1. CASE UNCHANGED <<ware, cam>>
  BY <1>0, <1>1 DEF CamerasTyped
<1>2. Dark \in Recs
  BY DEF Dark
<1>3. ASSUME NEW w \in Wares, PickProduct(w) PROVE CamerasTyped'
  BY <1>0, <1>3 DEF PickProduct, CamerasTyped
<1>4. ASSUME NEW k \in Cameras, NEW c \in Recs, cam' = [cam EXCEPT ![k] = c], ware' = ware PROVE CamerasTyped'
  BY <1>0, <1>4 DEF CamerasTyped
<1>5. ASSUME NEW k \in Cameras, NEW pc \in States, cam' = [cam EXCEPT ![k].pc = pc], ware' = ware
      PROVE  CamerasTyped'
  <2>1. [cam[k] EXCEPT !.pc = pc] \in Recs
    BY DEF CamerasTyped
  <2> QED BY <1>4, <1>5, <2>1
<1>6. ASSUME NEW k \in Cameras, StartCamera(k) PROVE CamerasTyped'
  BY <1>4, <1>6 DEF StartCamera, CamerasTyped
<1>7. ASSUME NEW k \in Cameras, CameraOn(k) PROVE CamerasTyped'
  <2>1. PICK on \in BOOLEAN : cam' = [cam EXCEPT ![k] = IF on THEN [@ EXCEPT !.pc = "on"] ELSE Dark]
    BY <1>7 DEF CameraOn
  <2>2. ware' = ware
    BY <1>7 DEF CameraOn
  <2>3. (IF on THEN [cam[k] EXCEPT !.pc = "on"] ELSE Dark) \in Recs
    BY <1>2 DEF CamerasTyped
  <2> QED BY <1>4, <2>1, <2>2, <2>3
<1>8. ASSUME NEW k \in Cameras, NEW p \in Pieces, CameraScan(k, p) PROVE CamerasTyped'
  BY <1>1, <1>5, <1>8 DEF CameraScan
<1>9. CASE StopCamera
  <2>1. /\ \A k \in Cameras : cam'[k] \in {Dark, [cam[k] EXCEPT !.pc = "ending"], cam[k]}
        /\ DOMAIN cam' = Cameras /\ cam' = [k \in Cameras |-> cam'[k]] /\ ware' = ware
    BY <1>9 DEF StopCamera
  <2>2. \A k \in Cameras : cam[k] \in Recs /\ [cam[k] EXCEPT !.pc = "ending"] \in Recs
    BY DEF CamerasTyped
  <2> QED BY <1>0, <1>2, <2>1, <2>2 DEF CamerasTyped
<1>10. ASSUME NEW c \in calls, Settle(c) PROVE CamerasTyped'
  <2>1. ware' = ware /\ (cam' = cam \/ (c.via \in Cameras /\ cam' = [cam EXCEPT ![c.via] = Onwards(c.via)]))
    BY <1>10 DEF Settle
  <2>2. c.via \in Cameras => Onwards(c.via) \in Recs
    BY <1>2 DEF Onwards, CamerasTyped
  <2> QED BY <1>1, <1>4, <2>1, <2>2
<1>11. CASE LeavePage
  BY <1>0, <1>2, <1>11 DEF LeavePage, CamerasTyped
<1>12. (\E q \in Orders \cup {"mistyped"} : TypeIn(q)) \/ HandleLoad \/ (\E l \in lookups : Loaded(l))
       \/ (\E w \in Shops : ChooseShop(w)) \/ (\E a \in asked : StockAnswered(a)) \/ HandleCreate \/ Created
       \/ (\E yes \in BOOLEAN : SetPaused(yes)) \/ (\E p \in Pieces : ScanByHand(p) \/ ScanAgain(p))
       \/ (\E c \in calls : Serve(c)) \/ HandleComplete \/ UNCHANGED deskVars
       => UNCHANGED <<ware, cam>>
  BY DEF TypeIn, HandleLoad, Loaded, ChooseShop, StockAnswered, HandleCreate, Created, SetPaused, ScanByHand, ScanAgain,
     Serve, HandleComplete, deskVars, form, scanning
<1> QED BY <1>1, <1>3, <1>6, <1>7, <1>8, <1>9, <1>10, <1>11, <1>12 DEF DeskNext

LEMMA ScreenStart == DeskInit => IndScreen
<1> SUFFICES ASSUME DeskInit PROVE IndScreen
  OBVIOUS
<1>1. IndCount /\ ListKept
  BY ScanningStart
<1>2. FormTyped /\ CamerasTyped
  BY DEF DeskInit, FormTyped, CamerasTyped, Dark
<1> QED BY <1>1, <1>2 DEF IndScreen

LEMMA ScreenStep == IndScreen /\ [DeskNext]_deskVars => IndScreen'
BY CountStep, ListStep, FormStep, CamerasStep DEF IndScreen

LEMMA ScreenTypes == IndScreen => DeskTypeOK
<1> SUFFICES ASSUME IndScreen PROVE DeskTypeOK
  OBVIOUS
<1>1. \A c \in calls : c.answer \in Answers
  BY DEF IndScreen, IndCount, DeskShape
<1>2. seen \subseteq counted
  BY DEF IndScreen, IndCount, DeskShape, Tally
<1> QED BY <1>1, <1>2 DEF IndScreen, IndCount, ListKept, DeskShape, Sessioned, Answers, FormTyped, CamerasTyped, DeskTypeOK

(* A page asks for stock only while no session is on, and what is         *)
(* remembered of the scans has been accepted                              *)
(* (CustomerDispatchPanel.jsx:104-160, useScanSession.js:60-110).          *)
THEOREM DeskTypesHold == DeskSpec => []DeskTypeOK
BY ScreenStart, ScreenStep, ScreenTypes, PTL DEF DeskSpec

-----------------------------------------------------------------------------
(* Pages.  What a selection has asked for is aborted by the next one: what *)
(* is on its way, no retry made, is asked for what is selected now         *)
(* (AsksFollow).  A correction is made on one page only.                   *)
AskShape == \A a \in asks : a \in [id : {a.id}, role : {a.role}, of : {a.of}, tied : {a.tied}, tries : {a.tries},
                                   at : {a.at}]
AsksFollow == screen # "exceptions" =>
  /\ \A a \in asks : a.role # "mend"
  /\ ~retried => \A a \in asks : a.role = "list" => a.tied /\ a.of = want
IndPage == AskShape /\ AsksFollow /\ ScreenSettles

\* A selection that is made.
LEMMA SelectionSettles ==
    ASSUME IndPage, NEW w, want' = w, LoadFor(w), UNCHANGED <<screen, retried>>
    PROVE  IndPage'
<1>1. PICK n : n = [id |-> NewAsk(Unabandoned), role |-> "list", of |-> w, tied |-> (screen # "exceptions"), tries |-> 0,
                    at |-> None]
  OBVIOUS
<1>2. /\ asks' = Unabandoned \cup {n} /\ spinning' = TRUE
      /\ n \in [id : {n.id}, role : {n.role}, of : {n.of}, tied : {n.tied}, tries : {n.tries}, at : {n.at}]
      /\ n.role = "list" /\ n.of = w /\ (screen # "exceptions" => n.tied)
  BY <1>1 DEF LoadFor, Sent
<1>3. AskShape'
  BY <1>2 DEF AskShape, IndPage, Unabandoned
<1>4. AsksFollow'
  BY <1>2 DEF AsksFollow, IndPage, Unabandoned
<1>5. QED
  BY <1>2, <1>3, <1>4 DEF IndPage, ScreenSettles

\* A request that is sent beside those on their way.
LEMMA SendingSettles ==
    ASSUME IndPage, NEW S \in SUBSET asks, NEW role, NEW of, asks' = Sent(S, role, of, FALSE),
           \A a \in asks : a.role = "list" => a \in S,
           UNCHANGED <<screen, want, shown>>,
           \/ role = "detail" /\ UNCHANGED <<spinning, failed, retried>>
           \/ role = "mend" /\ screen = "exceptions" /\ UNCHANGED <<spinning, failed, retried>>
           \/ role = "list" /\ spinning' = TRUE /\ (retried' = TRUE \/ screen = "exceptions")
    PROVE  IndPage'
<1>1. PICK n : n = [id |-> NewAsk(S), role |-> role, of |-> of, tied |-> FALSE, tries |-> 0,
                    at |-> IF role = "mend" THEN want ELSE None]
  OBVIOUS
<1>2. /\ asks' = S \cup {n} /\ n.role = role
      /\ n \in [id : {n.id}, role : {n.role}, of : {n.of}, tied : {n.tied}, tries : {n.tries}, at : {n.at}]
  BY <1>1 DEF Sent
<1>3. AskShape'
  BY <1>2 DEF AskShape, IndPage
<1>4. AsksFollow'
  BY <1>2 DEF AsksFollow, IndPage
<1>5. CASE role = "list"
  BY <1>2, <1>3, <1>4, <1>5 DEF IndPage, ScreenSettles
<1>6. CASE role # "list"
  <2>1. UNCHANGED <<screen, want, shown, spinning, failed, retried>> /\ \A a \in asks : a.role = "list" => a \in asks'
    BY <1>2, <1>6
  <2>2. ScreenSettles'
    BY <2>1 DEF IndPage, ScreenSettles
  <2>3. QED
    BY <1>3, <1>4, <2>2 DEF IndPage
<1>7. QED
  BY <1>5, <1>6

LEMMA PageStep == IndPage /\ [PagesNext]_pageVars => IndPage'
<1> SUFFICES ASSUME IndPage, [PagesNext]_pageVars PROVE IndPage'
  OBVIOUS
<1>1. ASSUME NEW c, ChooseCategory(c) \/ ChooseWarehouse(c) \/ FilterStatus(c) \/ ChooseSubCategory(c)
      PROVE  IndPage'
  <2>1. LoadFor(want') /\ UNCHANGED <<screen, retried>>
    BY <1>1 DEF ChooseCategory, ChooseWarehouse, FilterStatus, ChooseSubCategory
  <2>2. QED
    BY <2>1, SelectionSettles
<1>2. CASE Retry
  BY <1>2, SendingSettles DEF Retry
<1>3. ASSUME NEW d, HandleBarClick(d) \/ HandleViewDetail(d) PROVE IndPage'
  BY <1>3, SendingSettles DEF HandleBarClick, HandleViewDetail
<1>4. CASE DoCorrect
  BY <1>4, SendingSettles DEF DoCorrect
<1>5. ASSUME NEW a \in asks, Corrected(a) PROVE IndPage'
  <2>1. screen = "exceptions" /\ a.role = "mend"
    BY <1>5 DEF Corrected, IndPage, AsksFollow
  <2>2. asks' = Sent(asks \ {a}, "list", a.at, FALSE) /\ spinning' = TRUE /\ UNCHANGED <<screen, want, shown>>
    BY <1>5 DEF Corrected
  <2>3. QED
    BY <2>1, <2>2, SendingSettles
<1>6. ASSUME NEW a \in asks, Resend(a) PROVE IndPage'
  <2>1. PICK n : n = [a EXCEPT !.tries = 1]
    OBVIOUS
  <2>2. /\ n \in [id : {n.id}, role : {n.role}, of : {n.of}, tied : {n.tied}, tries : {n.tries}, at : {n.at}]
        /\ n.role = a.role /\ n.of = a.of /\ n.tied = a.tied
    BY <2>1 DEF IndPage, AskShape
  <2>3. asks' = (asks \ {a}) \cup {n} /\ UNCHANGED <<screen, want, shown, spinning, failed, retried>>
    BY <1>6, <2>1 DEF Resend
  <2>4. QED
    BY <2>2, <2>3 DEF IndPage, AskShape, AsksFollow, ScreenSettles
<1>7. ASSUME NEW a \in asks, ListAnswered(a) \/ ListFailed(a) PROVE IndPage'
  BY <1>7 DEF ListAnswered, ListFailed, IndPage, AskShape, AsksFollow, ScreenSettles
<1>8. ASSUME NEW a \in asks, DetailAnswered(a) \/ DetailFailed(a) \/ CorrectionFails(a) PROVE IndPage'
  <2>1. asks' = asks \ {a} /\ a.role # "list" /\ UNCHANGED <<screen, want, shown, spinning, failed, retried>>
    BY <1>8 DEF DetailAnswered, DetailFailed, CorrectionFails
  <2>2. QED
    BY <2>1 DEF IndPage, AskShape, AsksFollow, ScreenSettles
<1>9. CASE CloseDrillDown \/ UNCHANGED pageVars
  BY <1>9 DEF CloseDrillDown, pageVars, IndPage, AskShape, AsksFollow, ScreenSettles
<1>10. QED
  BY <1>1, <1>2, <1>3, <1>4, <1>5, <1>6, <1>7, <1>8, <1>9 DEF PagesNext

LEMMA PageStart == PagesInit => IndPage
<1> SUFFICES ASSUME PagesInit PROVE IndPage
  OBVIOUS
<1>1. CASE screen = "ageing"
  BY <1>1 DEF PagesInit, IndPage, AskShape, AsksFollow, ScreenSettles
<1>2. CASE screen # "ageing"
  <2>1. PICK n : n = [id |-> NewAsk({}), role |-> "list", of |-> want, tied |-> (screen = "dashboard"), tries |-> 0,
                      at |-> None]
    OBVIOUS
  <2>2. asks = {n} /\ n.role = "list" /\ n.of = want /\ (screen = "dashboard" => n.tied)
        /\ n \in [id : {n.id}, role : {n.role}, of : {n.of}, tied : {n.tied}, tries : {n.tries}, at : {n.at}]
    BY <1>2, <2>1 DEF PagesInit, Sent
  <2>3. QED
    BY <1>2, <2>2 DEF PagesInit, IndPage, AskShape, AsksFollow, ScreenSettles
<1>3. QED
  BY <1>1, <1>2

\* A page that has stopped loading shows the answer for the selection made last.
THEOREM SelectionsSettle == PagesSpec => []ScreenSettles
BY PageStart, PageStep, PTL DEF PagesSpec, IndPage

(* Types of a page: a request for a list is for a selection, one for a     *)
(* detail or a correction of something that can be opened; a correction    *)
(* is of what has been opened before (OpenedFirst).                        *)
AskFits(a) ==
  /\ a.role \in {"list", "detail", "mend"} /\ a.tries \in 0..1
  /\ IF a.role = "list" THEN a.of \in Selections ELSE a.of \in Details
  /\ a.role = "mend" => a.at \in Selections
OpenedFirst == screen = "exceptions" /\ (detail # None \/ \E a \in asks : a.role # "list") =>
  opened \in Details
IndPages == AskShape /\ (\A a \in asks : AskFits(a)) /\ OpenedFirst /\ PagesTypeOK

LEMMA AskIsSent ==
  ASSUME NEW S, \A a \in S : AskFits(a), NEW role \in {"list", "detail", "mend"}, NEW of, NEW tied,
         of \in IF role = "list" THEN Selections ELSE Details, want \in Selections
  PROVE  \A a \in Sent(S, role, of, tied) : AskFits(a) /\ (a \in S \/ a.role = role)
<1>1. PICK n : n = [id |-> NewAsk(S), role |-> role, of |-> of, tied |-> tied, tries |-> 0,
                    at |-> IF role = "mend" THEN want ELSE None]
  OBVIOUS
<1>2. Sent(S, role, of, tied) = S \cup {n} /\ n.role = role
  BY <1>1 DEF Sent
<1>3. AskFits(n)
  BY <1>1 DEF AskFits
<1> QED BY <1>2, <1>3

LEMMA PageTypesStep ==
  ASSUME IndPages, [PagesNext]_pageVars
  PROVE  (\A a \in asks' : AskFits(a)) /\ OpenedFirst' /\ PagesTypeOK'
<1> DEFINE Good == (\A a \in asks' : AskFits(a)) /\ OpenedFirst' /\ PagesTypeOK'
<1> SUFFICES Good
  OBVIOUS
<1>0. /\ \A a \in asks : AskFits(a)
      /\ screen \in {"dashboard", "ageing", "exceptions"} /\ screen' = screen
      /\ want \in Selections /\ (screen # "dashboard" => want[2] = None)
      /\ shown = None \/ shown \in Selections
      /\ opened \in Details \cup {None} /\ mended \subseteq Details
      /\ detail = None \/ detail \in [of : Details \cup {None}, open : BOOLEAN]
      /\ screen = "exceptions" /\ (detail # None \/ \E a \in asks : a.role # "list") => opened \in Details
  BY DEF IndPages, PagesTypeOK, OpenedFirst, PagesNext, pageVars, ChooseCategory, ChooseSubCategory,
     ChooseWarehouse, FilterStatus, Retry, HandleBarClick, HandleViewDetail, CloseDrillDown, DoCorrect,
     ListAnswered, ListFailed, DetailAnswered, DetailFailed, Corrected, CorrectionFails, Resend
<1>1. ASSUME NEW c, NEW n, want' \in Selections, screen # "dashboard" => want'[2] = None, LoadFor(want'),
             UNCHANGED <<screen, shown, opened, detail, mended>>
      PROVE  Good
  <2>1. PICK w : w = want'
    OBVIOUS
  <2>2. PICK n2 : n2 = [id |-> NewAsk(Unabandoned), role |-> "list", of |-> w, tied |-> (screen # "exceptions"),
                    tries |-> 0, at |-> None]
    OBVIOUS
  <2>3. asks' = Unabandoned \cup {n2} /\ n2.role = "list" /\ AskFits(n2)
    BY <1>1, <2>1, <2>2 DEF LoadFor, Sent, AskFits
  <2>4. \A a \in asks' : AskFits(a) /\ (a \in asks \/ a.role = "list")
    BY <1>0, <2>3 DEF Unabandoned
  <2>5. OpenedFirst'
    BY <1>0, <1>1, <2>4 DEF OpenedFirst
  <2> QED BY <1>0, <1>1, <2>4, <2>5 DEF PagesTypeOK, AskFits
<1>2. ASSUME NEW c \in Choices \cup {None}, ChooseCategory(c) \/ ChooseWarehouse(c) \/ FilterStatus(c) PROVE Good
  <2>1. want' = <<c, None>> /\ LoadFor(want') /\ UNCHANGED <<screen, shown, opened, detail, mended>>
    BY <1>2 DEF ChooseCategory, ChooseWarehouse, FilterStatus
  <2>2. want' \in Selections /\ want'[2] = None
    BY <2>1 DEF Selections
  <2> QED BY <1>1, <2>1, <2>2
<1>3. ASSUME NEW n \in Narrower \cup {None}, ChooseSubCategory(n) PROVE Good
  <2>1. want' = <<want[1], n>> /\ LoadFor(want') /\ UNCHANGED <<screen, shown, opened, detail, mended>>
        /\ screen = "dashboard"
    BY <1>3 DEF ChooseSubCategory
  <2>2. want' \in Selections
    BY <1>0, <2>1 DEF Selections
  <2> QED BY <1>1, <2>1, <2>2
<1>4. ASSUME \A a \in asks' : AskFits(a) /\ (a \in asks \/ a.role = "list"),
             UNCHANGED <<screen, want, shown, opened, mended>>, detail' = detail
      PROVE  Good
  <2>1. OpenedFirst'
    BY <1>0, <1>4 DEF OpenedFirst
  <2> QED BY <1>0, <1>4, <2>1 DEF PagesTypeOK, AskFits
<1>5. CASE Retry
  <2>1. \A a \in asks' : AskFits(a) /\ (a \in asks \/ a.role = "list")
    BY <1>0, <1>5, AskIsSent DEF Retry
  <2> QED BY <1>4, <1>5, <2>1 DEF Retry
<1>6. ASSUME NEW d \in Details, HandleBarClick(d) \/ HandleViewDetail(d) PROVE Good
  <2>1. \A a \in asks' : AskFits(a)
    <3>1. \A a \in Sent(asks, "detail", d, FALSE) : AskFits(a)
      BY <1>0, AskIsSent
    <3> QED BY <1>6, <3>1 DEF HandleBarClick, HandleViewDetail
  <2>2. opened' = d /\ detail' = None /\ UNCHANGED <<screen, want, shown, mended>>
    BY <1>6 DEF HandleBarClick, HandleViewDetail
  <2> QED BY <1>0, <2>1, <2>2 DEF OpenedFirst, PagesTypeOK, AskFits
<1>7. CASE CloseDrillDown
  <2>1. screen = "ageing" /\ opened' = None /\ detail' = None /\ UNCHANGED <<screen, want, shown, asks, mended>>
    BY <1>7 DEF CloseDrillDown
  <2> QED BY <1>0, <2>1 DEF OpenedFirst, PagesTypeOK, AskFits
<1>8. CASE DoCorrect
  <2>1. opened \in Details
    BY <1>0, <1>8 DEF DoCorrect
  <2>2. \A a \in asks' : AskFits(a) /\ (a \in asks \/ a.role = "mend")
    BY <1>0, <1>8, <2>1, AskIsSent DEF DoCorrect
  <2>3. UNCHANGED <<screen, want, shown, opened, detail, mended>>
    BY <1>8 DEF DoCorrect
  <2> QED BY <1>0, <2>1, <2>2, <2>3 DEF OpenedFirst, PagesTypeOK, AskFits
<1>9. ASSUME NEW a \in asks, ListAnswered(a) \/ ListFailed(a) PROVE Good
  <2>1. /\ asks' = asks \ {a} /\ shown' \in {a.of, shown, None}
        /\ UNCHANGED <<screen, want, opened, detail, mended>>
    BY <1>9 DEF ListAnswered, ListFailed
  <2>2. a.of \in Selections
    BY <1>0, <1>9 DEF ListAnswered, ListFailed, AskFits
  <2>3. OpenedFirst'
    BY <1>0, <2>1 DEF OpenedFirst
  <2> QED BY <1>0, <2>1, <2>2, <2>3 DEF PagesTypeOK, AskFits
<1>10. ASSUME NEW a \in asks, DetailAnswered(a) \/ DetailFailed(a) PROVE Good
  <2>1. asks' = asks \ {a} /\ a.role = "detail" /\ UNCHANGED <<screen, want, shown, opened, mended>>
    BY <1>10 DEF DetailAnswered, DetailFailed
  <2>2. a.of \in Details
    BY <1>0, <2>1 DEF AskFits
  <2>3. detail' = detail \/ detail' = [of |-> a.of, open |-> a.of \notin mended]
                         \/ detail' = [of |-> None, open |-> FALSE]
    BY <1>10 DEF DetailAnswered, DetailFailed
  <2>4. detail' = None \/ detail' \in [of : Details \cup {None}, open : BOOLEAN]
    <3>1. (a.of \notin mended) \in BOOLEAN
      OBVIOUS
    <3>2. PICK o \in BOOLEAN : o = (a.of \notin mended)
      BY <3>1, Zenon
    <3>3. [of |-> a.of, open |-> o] \in [of : Details \cup {None}, open : BOOLEAN]
      BY <2>2
    <3>4. [of |-> a.of, open |-> a.of \notin mended] = [of |-> a.of, open |-> o]
      BY <3>2, Zenon
    <3>5. CASE detail' = [of |-> a.of, open |-> a.of \notin mended]
      BY <3>3, <3>4, <3>5, Zenon
    <3>6. CASE detail' = detail
      BY <1>0, <3>6, Zenon
    <3>7. CASE detail' = [of |-> None, open |-> FALSE]
      BY <3>7
    <3> QED BY <2>3, <3>5, <3>6, <3>7
  <2>5. OpenedFirst'
    BY <1>0, <2>1 DEF OpenedFirst
  <2> QED BY <1>0, <2>1, <2>4, <2>5 DEF PagesTypeOK, AskFits
<1>11. ASSUME NEW a \in asks, Corrected(a) PROVE Good
  <2>1. a.of \in Details /\ a.at \in Selections /\ a.role = "mend"
    BY <1>0, <1>11 DEF Corrected, AskFits
  <2>2. \A b \in asks' : AskFits(b) /\ (b \in asks \ {a} \/ b.role = "list")
    BY <1>0, <1>11, <2>1, AskIsSent DEF Corrected
  <2>3. /\ detail' = [of |-> a.of, open |-> FALSE] /\ mended' = mended \cup {a.of}
        /\ UNCHANGED <<screen, want, shown, opened>>
    BY <1>11 DEF Corrected
  <2>4. detail' \in [of : Details \cup {None}, open : BOOLEAN]
    BY <2>1, <2>3
  <2> QED BY <1>0, <2>1, <2>2, <2>3, <2>4 DEF OpenedFirst, PagesTypeOK, AskFits
<1>12. ASSUME NEW a \in asks, CorrectionFails(a) PROVE Good
  <2>1. a.of \in Details
    BY <1>0, <1>12 DEF CorrectionFails, AskFits
  <2>2. /\ asks' = asks \ {a} /\ mended' \in {mended, mended \cup {a.of}}
        /\ UNCHANGED <<screen, want, shown, opened, detail>>
    BY <1>12 DEF CorrectionFails
  <2>3. OpenedFirst'
    BY <1>0, <2>2 DEF OpenedFirst
  <2> QED BY <1>0, <2>1, <2>2, <2>3 DEF PagesTypeOK, AskFits
<1>13. ASSUME NEW a \in asks, Resend(a) PROVE Good
  <2>1. PICK n : n = [a EXCEPT !.tries = 1]
    OBVIOUS
  <2>2. n.role = a.role /\ n.of = a.of /\ n.at = a.at /\ n.tries = 1
    BY <2>1 DEF IndPages, AskShape
  <2>3. asks' = (asks \ {a}) \cup {n} /\ UNCHANGED <<screen, want, shown, opened, detail, mended>>
    BY <1>13, <2>1 DEF Resend
  <2>4. AskFits(n)
    BY <1>0, <2>2 DEF AskFits
  <2>5. OpenedFirst'
    BY <1>0, <2>2, <2>3 DEF OpenedFirst
  <2> QED BY <1>0, <2>3, <2>4, <2>5 DEF PagesTypeOK, AskFits
<1>14. CASE UNCHANGED pageVars
  BY <1>4, <1>0, <1>14 DEF pageVars
<1> HIDE DEF Good
<1> QED BY <1>2, <1>3, <1>5, <1>6, <1>7, <1>8, <1>9, <1>10, <1>11, <1>12, <1>13, <1>14 DEF PagesNext

LEMMA PagesStart == PagesInit => IndPages
<1> SUFFICES ASSUME PagesInit PROVE IndPages
  OBVIOUS
<1>1. want \in Selections /\ want[2] = None
  BY DEF PagesInit, Selections
<1>2. AskShape
  BY PageStart DEF IndPage
<1>3. \A a \in asks : AskFits(a) /\ a.role = "list"
  <2>1. PICK tied : tied = (screen = "dashboard")
    OBVIOUS
  <2>2. \A a \in Sent({}, "list", want, screen = "dashboard") : AskFits(a) /\ a.role = "list"
    BY <1>1, AskIsSent
  <2> QED BY <2>2 DEF PagesInit
<1> QED BY <1>1, <1>2, <1>3 DEF PagesInit, IndPages, OpenedFirst, PagesTypeOK, AskFits

LEMMA PagesStep == IndPage /\ IndPages /\ [PagesNext]_pageVars => IndPages'
BY PageStep, PageTypesStep DEF IndPage, IndPages

(* What is opened, shown and corrected can be opened and selected, and     *)
(* nothing is corrected that was never opened                              *)
(* (ExceptionsPage.jsx:61-110, AgeingPage.jsx:134-160).                    *)
THEOREM PagesTypesHold == PagesSpec => []PagesTypeOK
<1>1. IndPages => PagesTypeOK
  BY DEF IndPages
<1> QED
  BY <1>1, PageStart, PageStep, PagesStart, PagesStep, PTL DEF PagesSpec

-----------------------------------------------------------------------------
(* Tables (Listing).  The order in which rows are shown is a strict total   *)
(* order of their positions, so that a row's rank is its place: each place  *)
(* below the number of matching rows is taken, by one row.                  *)
IndListing ==
  ListingTypeOK /\ page \in Nat /\ filters \in [Columns -> Int \cup {NoCell}]

(* What is needed of the sets a render computes.                           *)
LEMMA MatchingIsFinite ==
  ASSUME IndListing
  PROVE  /\ \A i \in DOMAIN rows : rows[i] \in DOMAIN CellOf
         /\ DOMAIN rows \subseteq Int
         /\ IsFiniteSet(Matching) /\ Cardinality(Matching) \in Nat
         /\ TotalPages \in Int
<1>1. rows \in Seq(DOMAIN CellOf) /\ PageSize \in Nat \ {0}
  BY ListingAssumption DEF IndListing, ListingTypeOK
<1>2. IsFiniteSet(1..Len(rows)) /\ DOMAIN rows = 1..Len(rows) /\ Len(rows) \in Nat
  BY <1>1, FS_Interval
<1>3. Matching \subseteq 1..Len(rows)
  BY <1>2 DEF Matching
<1>4. IsFiniteSet(Matching) /\ Cardinality(Matching) \in Nat
  BY <1>2, <1>3, FS_Subset, FS_CardinalityType
<1>5. TotalPages \in Int
  BY <1>1, <1>4 DEF TotalPages
<1> QED BY <1>1, <1>2, <1>4, <1>5

(* Positions are told apart by the order, and then by themselves.          *)
LEMMA AheadOrders ==
  ASSUME IndListing, NEW i \in DOMAIN rows, NEW j \in DOMAIN rows, NEW k \in DOMAIN rows
  PROVE  /\ ~Ahead(i, i)
         /\ i # j => Ahead(i, j) \/ Ahead(j, i)
         /\ Ahead(i, j) /\ Ahead(j, k) => Ahead(i, k)
<1>1. i \in Int /\ j \in Int /\ k \in Int
  BY MatchingIsFinite
<1>2. CASE order = NoCell
  BY <1>1, <1>2 DEF Ahead, Precedes
<1>3. CASE order # NoCell
  <2>1. order \in Columns \X {"asc", "desc"}
    BY <1>3 DEF IndListing, ListingTypeOK
  <2> DEFINE cell(p) == CellOf[rows[p]][order[1]]
  <2>2. \A p \in DOMAIN rows : cell(p) \in Int \cup {NoCell}
    BY <2>1, MatchingIsFinite, ListingAssumption
  <2>3. \A p, q \in DOMAIN rows : Precedes(rows[p], rows[q]) <=>
          /\ cell(p) # NoCell
          /\ cell(q) = NoCell \/ IF order[2] = "asc" THEN cell(p) < cell(q) ELSE cell(p) > cell(q)
    BY <1>3 DEF Precedes
  <2>4. NoCell \notin Int
    BY ListingAssumption
  <2> HIDE DEF cell
  <2>5. QED BY <1>1, <2>2, <2>3, <2>4 DEF Ahead
<1> QED BY <1>2, <1>3

(* Ranks differ, so there are as many as rows that match.                  *)
LEMMA RanksArePlaces ==
  ASSUME IndListing
  PROVE  /\ \A i \in Matching : Rank(i) \in 0..(Cardinality(Matching) - 1)
         /\ \A m \in 0..(Cardinality(Matching) - 1) : \E i \in Matching : Rank(i) = m
<1> DEFINE N == Cardinality(Matching)
           Before(i) == {j \in Matching : Ahead(j, i)}
           rank == [i \in Matching |-> Rank(i)]
<1>1. IsFiniteSet(Matching) /\ N \in Nat /\ Matching \subseteq DOMAIN rows
  BY MatchingIsFinite DEF Matching
<1>2. ASSUME NEW S \in SUBSET Matching, NEW T \in SUBSET S, NEW x \in S, x \notin T
      PROVE  Cardinality(T) \in Nat /\ Cardinality(S) \in Nat /\ Cardinality(T) < Cardinality(S)
  BY <1>1, <1>2, FS_Subset, FS_CardinalityType
<1>3. ASSUME NEW i \in Matching PROVE Rank(i) \in 0..(N - 1)
  <2>1. Before(i) \subseteq Matching /\ i \notin Before(i)
    BY <1>1, AheadOrders
  <2>2. Cardinality(Before(i)) \in Nat /\ Cardinality(Before(i)) < N
    BY <1>2, <2>1
  <2> QED BY <1>1, <2>2 DEF Rank
<1>4. ASSUME NEW i \in Matching, NEW j \in Matching, Ahead(i, j)
      PROVE  Rank(i) # Rank(j)
  <2>1. Before(i) \subseteq Before(j)
    BY <1>1, <1>4, AheadOrders
  <2>2. i \in Before(j) /\ i \notin Before(i) /\ Before(j) \subseteq Matching
    BY <1>1, <1>4, AheadOrders
  <2>3. Cardinality(Before(i)) \in Nat /\ Cardinality(Before(j)) \in Nat
        /\ Cardinality(Before(i)) < Cardinality(Before(j))
    BY <1>2, <2>1, <2>2
  <2> QED BY <2>3 DEF Rank
<1>5. \A i, j \in Matching : i # j => Rank(i) # Rank(j)
  BY <1>1, <1>4, AheadOrders
<1>6. rank \in Injection(Matching, 0..(N - 1))
  BY <1>3, <1>5 DEF Injection, IsInjective
<1>7. IsFiniteSet(0..(N - 1)) /\ Cardinality(0..(N - 1)) = N
  BY <1>1, FS_Interval
<1>8. rank \in Surjection(Matching, 0..(N - 1))
  BY <1>6, <1>7, FS_Injection
<1>9. \A m \in 0..(N - 1) : \E i \in Matching : Rank(i) = m
  BY <1>8 DEF Surjection
<1> QED BY <1>3, <1>9

(* The last page starts below the number of rows, and they end on it.      *)
LEMMA PagesCoverRows ==
  ASSUME NEW N \in Nat \ {0}, NEW s \in Nat \ {0}, NEW q \in Int, q = (N + s - 1) \div s
  PROVE  /\ q >= 1
         /\ \A p \in 1..q : (p - 1) * s \in 0..(N - 1) /\ (p - 1) * s < p * s
         /\ \A m \in 0..(N - 1) :
              /\ (m \div s) + 1 \in 1..q
              /\ (m \div s) * s <= m /\ m < ((m \div s) + 1) * s
<1>1. q * s <= N + s - 1 /\ N + s - 1 < q * s + s
  OBVIOUS
<1>2. q >= 1
  <2>1. SUFFICES ASSUME q <= 0 PROVE FALSE
    OBVIOUS
  <2>2. q * s <= 0
    BY <2>1
  <2> QED BY <1>1, <2>2
<1>3. ASSUME NEW p \in 1..q PROVE (p - 1) * s \in 0..(N - 1) /\ (p - 1) * s < p * s
  <2>1. (p - 1) * s >= 0
    OBVIOUS
  <2>2. (p - 1) * s = p * s - s
    OBVIOUS
  <2>3. p * s <= q * s
    OBVIOUS
  <2> QED BY <1>1, <2>1, <2>2, <2>3
<1>4. ASSUME NEW m \in 0..(N - 1)
      PROVE  /\ (m \div s) + 1 \in 1..q
             /\ (m \div s) * s <= m /\ m < ((m \div s) + 1) * s
  <2> DEFINE d == m \div s
  <2>1. d \in Int /\ d >= 0 /\ d * s <= m /\ m < d * s + s
    OBVIOUS
  <2> HIDE DEF d
  <2>2. (d + 1) * s = d * s + s
    BY <2>1
  <2>3. d + 1 <= q
    <3>1. SUFFICES ASSUME d >= q PROVE FALSE
      BY <2>1
    <3>2. q * s <= d * s
      BY <2>1, <3>1
    <3> QED BY <1>1, <2>1, <3>2
  <2>4. QED BY <2>1, <2>2, <2>3 DEF d
<1> QED BY <1>2, <1>3, <1>4

LEMMA RanksAreShown == IndListing => RowsReachable
<1> SUFFICES ASSUME IndListing, Matching # {}
             PROVE  /\ Paginated # {}
                    /\ \A i \in Matching : \E n \in 1..TotalPages : i \in PageOf(n)
  BY DEF RowsReachable
<1> DEFINE N == Cardinality(Matching)
<1>1. IsFiniteSet(Matching) /\ N \in Nat \ {0} /\ PageSize \in Nat \ {0} /\ TotalPages \in Int
  BY MatchingIsFinite, FS_EmptySet, ListingAssumption
<1>2. TotalPages = (N + PageSize - 1) \div PageSize
  BY DEF TotalPages
<1>3. page \in Nat \ {0}
  BY DEF IndListing, ListingTypeOK
<1> HIDE DEF N
<1>4. /\ TotalPages >= 1
      /\ \A p \in 1..TotalPages : (p - 1) * PageSize \in 0..(N - 1) /\ (p - 1) * PageSize < p * PageSize
      /\ \A m \in 0..(N - 1) :
           /\ (m \div PageSize) + 1 \in 1..TotalPages
           /\ (m \div PageSize) * PageSize <= m /\ m < ((m \div PageSize) + 1) * PageSize
  BY <1>1, <1>2, PagesCoverRows
<1>5. Paginated # {}
  <2>1. SafePage \in 1..TotalPages
    BY <1>1, <1>3, <1>4 DEF SafePage
  <2>2. PICK i \in Matching : Rank(i) = (SafePage - 1) * PageSize
    BY <1>4, <2>1, RanksArePlaces DEF N
  <2>3. i \in PageOf(SafePage)
    <3>1. (SafePage - 1) * PageSize \in Int /\ (SafePage - 1) * PageSize < SafePage * PageSize
      BY <1>4, <2>1
    <3> QED BY <2>2, <3>1 DEF PageOf
  <2> QED BY <2>3 DEF Paginated
<1>6. ASSUME NEW i \in Matching PROVE \E n \in 1..TotalPages : i \in PageOf(n)
  <2>1. Rank(i) \in 0..(N - 1)
    BY RanksArePlaces DEF N
  <2> DEFINE d == Rank(i) \div PageSize
  <2>2. d \in Int /\ d + 1 \in 1..TotalPages /\ d * PageSize <= Rank(i) /\ Rank(i) < (d + 1) * PageSize
    BY <1>1, <1>4, <2>1
  <2> HIDE DEF d
  <2>3. i \in PageOf(d + 1)
    <3>1. (d + 1) - 1 = d
      BY <2>2
    <3> QED BY <2>2, <3>1 DEF PageOf
  <2> QED BY <2>2, <2>3
<1> QED BY <1>5, <1>6

(* None of the steps leaves a page that does not exist to be asked for, or *)
(* a filter that no row has.                                               *)
LEMMA ListingStep ==
  ASSUME IndListing, [ListingNext]_listingVars
  PROVE  IndListing'
<1> USE DEF IndListing, ListingTypeOK
<1>1. CASE UNCHANGED listingVars
  BY <1>1 DEF listingVars
<1>2. ASSUME NEW c \in Columns, HandleSort(c) PROVE IndListing'
  BY <1>2 DEF HandleSort, NextOrder
<1>3. ASSUME NEW c \in Columns, NEW v, HandleFilterChange(c, v) PROVE IndListing'
  <2>1. v = NoCell \/ \E r \in DOMAIN CellOf : v = CellOf[r][c]
    BY <1>3, MatchingIsFinite DEF HandleFilterChange, FilterOptions
  <2>2. v \in Int \cup {NoCell}
    BY <2>1, ListingAssumption
  <2> QED BY <1>3, <2>1, <2>2 DEF HandleFilterChange
<1>4. CASE ClearFilters
  BY <1>4 DEF ClearFilters
<1>5. ASSUME NEW t \in Terms \cup {NoCell}, Search(t) PROVE IndListing'
  BY <1>5 DEF Search
<1>6. ASSUME NEW n, HandlePageChange(n) PROVE IndListing'
  BY <1>6, MatchingIsFinite DEF HandlePageChange
<1>7. CASE BackToFirst
  <2>1. dirty' = FALSE /\ page' = 1 /\ UNCHANGED <<rows, view, filters, query, order>>
    BY <1>7 DEF BackToFirst
  <2>2. page' \in Nat /\ page' >= 1
    BY <2>1
  <2> QED BY <2>1, <2>2, Zenon
<1>8. CASE Reload
  BY <1>8 DEF Reload
<1>9. CASE RenderPage
  BY <1>9 DEF RenderPage
<1>10. ASSUME NEW s \in Lists, Arrive(s) PROVE IndListing'
  BY <1>10 DEF Arrive
<1> QED BY <1>1, <1>2, <1>3, <1>4, <1>5, <1>6, <1>7, <1>8, <1>9, <1>10 DEF ListingNext

LEMMA ListingInvariant == ListingSpec => []IndListing
<1>1. ListingInit => IndListing
  BY DEF ListingInit, IndListing, ListingTypeOK
<1> QED BY <1>1, ListingStep, PTL DEF ListingSpec

(* The table filters by values its rows can have and sorts by its columns. *)
THEOREM ListingTypesHold == ListingSpec => []ListingTypeOK
BY ListingInvariant, PTL DEF IndListing

(* Whatever is listed, filtered, searched and sorted, by whatever number   *)
(* of rows a page holds: the page shown is not empty while rows match, and *)
(* each of them is on one of the pages (DataTable).                        *)
THEOREM RowsCanBeReached == ListingSpec => []RowsReachable
BY ListingInvariant, RanksAreShown, PTL
=============================================================================
