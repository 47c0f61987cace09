--------------------------- MODULE MCOfficeProofs ---------------------------
(***************************************************************************)
(* The services around fulfilment together.  They share no variable, so a  *)
(* behaviour of all of them is one of each (OfficeImplements), and what is *)
(* proved of each holds of all; here it is put together for the types.     *)
(***************************************************************************)
EXTENDS MCOffice, AccountProofs, OfficeProofs, ScreenProofs

(* A step of the office is a step of one service, and leaves the variables *)
(* of the others alone.                                                    *)
LEMMA OfficeSteps ==
  ASSUME [OfficeNext]_officeVars
  PROVE  /\ [ImportNext]_importVars /\ [FollowUpNext]_followUpVars /\ [CatalogueNext]_catalogueVars
         /\ [AgeingNext]_ageingVars /\ [AccountNext]_accountVars /\ [AttemptNext]_attemptVars
         /\ [DeskNext]_deskVars /\ [ListingNext]_listingVars /\ [PagesNext]_pageVars
         /\ [NumberingNext]_numberingVars /\ [AccessNext]_accessVars /\ [MigrationNext]_migrationVars
         /\ [ReturnNext]_returnVars /\ [TransferNext]_transferVars
<1>1. CASE UNCHANGED officeVars
  BY <1>1 DEF officeVars
<1>2. CASE OfficeNext
  <2>1. [ImportNext]_importVars /\ [FollowUpNext]_followUpVars /\ [CatalogueNext]_catalogueVars
        /\ [AgeingNext]_ageingVars
    BY <1>2 DEF OfficeNext, Still
  <2>2. [AccountNext]_accountVars /\ [AttemptNext]_attemptVars /\ [DeskNext]_deskVars
        /\ [ListingNext]_listingVars
    BY <1>2 DEF OfficeNext, Still
  <2>3. [PagesNext]_pageVars /\ [NumberingNext]_numberingVars /\ [AccessNext]_accessVars
        /\ [MigrationNext]_migrationVars
    BY <1>2 DEF OfficeNext, Still
  <2>4. [ReturnNext]_returnVars /\ [TransferNext]_transferVars
    BY <1>2 DEF OfficeNext, Still
  <2> QED BY <2>1, <2>2, <2>3, <2>4
<1> QED BY <1>1, <1>2

(* Every service does in the office what its own module says.              *)
THEOREM OfficeImplements ==
  OfficeSpec => /\ ImportSpec /\ FollowUpSpec /\ CatalogueSpec /\ AgeingSpec /\ AccountSpec /\ AttemptSpec
                /\ DeskSpec /\ ListingSpec /\ PagesSpec /\ NumberingSpec /\ AccessSpec /\ MigrationSpec
                /\ ReturnSpec /\ TransferSpec
<1>1. OfficeInit => /\ ImportInit /\ FollowUpInit /\ CatalogueInit /\ AgeingInit /\ AccountInit /\ AttemptInit
                    /\ DeskInit /\ ListingInit /\ PagesInit /\ NumberingInit /\ AccessInit /\ MigrationInit
                    /\ ReturnInit /\ TransferInit
  BY DEF OfficeInit
<1> QED
  BY <1>1, OfficeSteps, PTL
     DEF OfficeSpec, ImportSpec, FollowUpSpec, CatalogueSpec, AgeingSpec, AccountSpec, AttemptSpec, DeskSpec,
         ListingSpec, PagesSpec, NumberingSpec, AccessSpec, MigrationSpec, ReturnSpec, TransferSpec

(* The turn is always that of a service.                                   *)
TurnKnown == service \in Services

LEMMA TurnStaysKnown == OfficeSpec => []TurnKnown
<1>1. OfficeInit => TurnKnown
  BY DEF OfficeInit, TurnKnown
<1>2. TurnKnown /\ [OfficeNext]_officeVars => TurnKnown'
  BY DEF OfficeNext, Still, officeVars, TurnKnown
<1> QED BY <1>1, <1>2, PTL DEF OfficeSpec

(* The state of every service is well formed, whichever of them is at      *)
(* work: the type invariants of all their modules.                         *)
THEOREM OfficeTypesHold == OfficeSpec => []OfficeTypeOK
<1>1. /\ TurnKnown /\ ImportTypeOK /\ FollowUpTypeOK /\ CatalogueTypeOK /\ AgeingTypeOK
      /\ AccountTypeOK /\ AttemptTypeOK /\ DeskTypeOK /\ ListingTypeOK /\ PagesTypeOK /\ NumberingTypeOK
      /\ AccessTypeOK /\ MigrationTypeOK /\ ReturnTypeOK /\ TransferTypeOK
      => OfficeTypeOK
  BY DEF OfficeTypeOK, TurnKnown, Services
<1> QED
  BY <1>1, TurnStaysKnown, OfficeImplements, ImportTypesHold, FollowUpTypesHold, CatalogueTypesHold, AgeingTypesHold,
     AccountTypesHold, AttemptTypesHold, DeskTypesHold, ListingTypesHold, PagesTypesHold, NumberingTypesHold,
     AccessTypesHold, MigrationTypesHold, ReturnTypesHold, TransferTypesHold, PTL
=============================================================================
