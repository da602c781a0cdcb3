---------------------------- MODULE ScreensProofs ----------------------------
(***************************************************************************)
(* Proofs about MCScreens, the union of the screens: the invariants of     *)
(* FormsProofs and ConsoleProofs hold together, since a step of one screen *)
(* leaves the others alone.                                                *)
(***************************************************************************)
EXTENDS MCScreens, FormsProofs, ConsoleProofs

ScreensInv ==
  /\ FormInv /\ ListInv /\ ContentInv /\ DmlTypeOK /\ MatrixInv /\ UsersInv /\ PeekInv
  /\ EditInv /\ RowFormInv /\ rowOthers \in Nat

LEMMA ScreensStart == Init => ScreensInv
<1> SUFFICES ASSUME Init PROVE ScreensInv
  OBVIOUS
<1>1. /\ FormInit /\ ListInit /\ ContentInit /\ MatrixInit /\ UsersInit /\ PeekInit /\ EditInit
      /\ RowFormInit
  BY Zenon DEF Init
<1>2. DmlTypeOK
  <2>1. CASE part = "dml"
    BY <2>1 DEF Init, DmlInit, DmlTypeOK
  <2>2. CASE part # "dml"
    <3>1. /\ policy = [extra |-> {}, exempt |-> {}, pk |-> "", required |-> {}]
          /\ dmlRows = [i \in DmlIds |-> [c \in NameSet |-> 0]] /\ asked = {}
      BY <2>2 DEF Init
    <3>2. policy \in Policies
      BY <3>1 DEF Policies
    <3>3. dmlRows \in Contents
      <4>1. [c \in NameSet |-> 0] \in [NameSet -> DmlValues]
        BY DmlAssumption DEF DmlAssumption
      <4> QED BY <3>1, <4>1 DEF Contents
    <3> QED BY <3>1, <3>2, <3>3 DEF DmlTypeOK
  <2> QED BY <2>1, <2>2
<1>3. rowOthers \in Nat
  BY <1>1 DEF RowFormInit
<1> QED BY <1>1, <1>2, <1>3, FormStarts, ListStarts, ContentStarts, MatrixStarts, UsersStart,
           PeekStarts, EditStarts, RowFormStarts, Zenon DEF ScreensInv

\* A step is a step of every screen, or leaves it alone.
LEMMA PartsStep ==
  [Next]_vars =>
    /\ [FormNext]_formVars /\ [ListNext]_listVars /\ [ContentNext]_contentVars
    /\ [DmlNext]_dmlVars /\ [MatrixNext]_matrixVars /\ [UsersNext]_drawerVars
    /\ [PeekNext]_peekVars /\ [EditNext]_editVars /\ [RowFormNext]_rowFormVars
<1>1. CASE Next
  BY <1>1, Zenon DEF Next
<1>2. CASE UNCHANGED vars
  <2>1. /\ UNCHANGED formVars /\ UNCHANGED listVars /\ UNCHANGED contentVars
        /\ UNCHANGED dmlVars /\ UNCHANGED matrixVars /\ UNCHANGED drawerVars
        /\ UNCHANGED peekVars /\ UNCHANGED editVars /\ UNCHANGED rowFormVars
    BY <1>2 DEF vars
  <2> QED BY <2>1
<1> QED BY <1>1, <1>2

LEMMA ScreensStep == ScreensInv /\ [Next]_vars => ScreensInv'
BY PartsStep, FormStep, ListStep, ContentStep, DmlKeeps, MatrixStepKeeps, UsersStep, PeekStep,
   EditStep, RowFormStep, RowTroubles, Zenon DEF ScreensInv

\* The screens keep their invariants whatever steps the others take.
THEOREM ScreensInvariant == Spec => []ScreensInv
BY ScreensStart, ScreensStep, PTL DEF Spec

\* TypeOK (MCScreens): what the nine screens are made of.
THEOREM ScreensTyped == Spec => []TypeOK
<1>1. ScreensInv => TypeOK
  BY FormTyped, ListTyped, ContentTyped, MatrixTyped, UsersTyped, PeekTyped, EditTyped,
     RowFormTyped, Zenon DEF ScreensInv, TypeOK
<1> QED BY <1>1, ScreensInvariant, PTL

\* What a list, a foreign key's card and a picker show at rest answers what they ask
\* for now (hooks.ts:182, FkPeek.tsx:70, RowDrawer.tsx:431), whatever the order of the
\* answers.
THEOREM ScreensAnswer == Spec => []AnswersFitTheScreen
<1>1. ScreensInv => AnswersFitTheScreen
  BY ListTyped, PeekTyped, RowFormTyped, Zenon DEF ScreensInv, AnswersFitTheScreen
<1> QED BY <1>1, ScreensInvariant, PTL

\* A record form (hooks.ts:360) or a matrix (RolesAdmin.tsx:165) with nothing to save
\* shows what is stored.
THEOREM CleanMeansStored == Spec => []NothingToSaveMeansStored
<1>1. ScreensInv => NothingToSaveMeansStored
  BY FormTyped, MatrixTyped, Zenon DEF ScreensInv, NothingToSaveMeansStored
<1> QED BY <1>1, ScreensInvariant, PTL

\* What is saved of a user (UsersAdmin.tsx:283) or applied to a column
\* (ColumnEditor.tsx:45) was typed for it.
THEOREM TypedForIt == Spec => []EditsWereTyped
<1>1. ScreensInv => EditsWereTyped
  BY UsersTyped, EditTyped, Zenon DEF ScreensInv, EditsWereTyped
<1> QED BY <1>1, ScreensInvariant, PTL

\* A row drawer shows a row of the table on screen, and a save goes to the table its
\* row is of, unless the URL moved under it (ContentBrowser.tsx:134).
THEOREM StraysMoved == Spec => []StraysNeedAMove
<1>1. ScreensInv => StraysNeedAMove
  BY ContentTyped, Zenon DEF ScreensInv
<1> QED BY <1>1, ScreensInvariant, PTL

\* No answer about a table depends on what its masked columns hold, and no request
\* changes it (lib/masking.ts:5, lib/dml.ts).
THEOREM MaskedStaysMasked == Spec => []SecretsStaySecret
<1>1. ScreensInv => SecretsStaySecret
  BY DmlSafe, Zenon DEF ScreensInv
<1> QED BY <1>1, ScreensInvariant, PTL

\* A save of a record (hooks.ts:346) or of a row (RowDrawer.tsx:198) changes what was
\* set in its form; of the links offered, those toggled.  Links never shown are spared
\* by a save that toggles none and taken by any other (resolver.ts:1130).  A save of a
\* matrix leaves what it sent, and at most a grant more that a save it overlapped
\* put in (api/roles/permissions/route.ts:84).
THEOREM SavesSpare == Spec => SavesSpareTheRest
<1> DEFINE Spares == /\ part = "form" => RecordSaveSpares
                     /\ part = "row" => RowSaveSpares
                     /\ part = "matrix" => SaveIsWhole
<1>1. ScreensInv /\ [Next]_vars => Spares
  BY PartsStep, FormSavesSpare, RowSavesSpare, MatrixSavesAreWhole, Zenon DEF ScreensInv
<1>2. ScreensInv /\ [Next]_vars => [Spares]_vars
  BY <1>1
<1> HIDE DEF Spares
<1>3. Spec => [][Spares]_vars
  BY <1>2, ScreensInvariant, PTL DEF Spec
<1> QED BY <1>3 DEF SavesSpareTheRest, Spares
=============================================================================
