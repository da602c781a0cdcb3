------------------------------ MODULE MCScreens ------------------------------
(***************************************************************************)
(* The screens, each on its own: `part` says which one a behaviour opens.  *)
(* They share no state, so their behaviours are the union of these.        *)
(***************************************************************************)
EXTENDS AdminForm, AdminList, ContentBrowser, ContentDml, RoleMatrix, UserDrawer,
        FkPeek, ColumnEditor, RowForm

VARIABLE part

Parts == {"form", "list", "content", "dml", "matrix", "users", "peek", "column", "row"}

CatalogOrder == <<"orders", "users">>
MaskedColumns == <<"token", "secret_count">>
NamedColumns == <<"token">>
FlagColumns == <<"secret_count">>

\* The screens that are not open start in one state.
Any(S) == CHOOSE x \in S : TRUE

Init ==
  /\ part \in Parts
  /\ FormInit /\ (part # "form" => formId = Blank)
  /\ ListInit
  /\ ContentInit /\ (part # "content" => url.page = 1)
  /\ IF part = "dml" THEN DmlInit
     ELSE /\ policy = [extra |-> {}, exempt |-> {}, pk |-> "", required |-> {}]
          /\ dmlRows = [i \in DmlIds |-> [c \in NameSet |-> 0]] /\ asked = {}
  /\ MatrixInit /\ (part # "matrix" => grants = Empty)
  /\ UsersInit /\ (part # "users" => \A p \in People : people[p].roles = {})
  /\ PeekInit /\ (part # "peek" => \A c \in Cells : cards[c].key = Any(PeekValues))
  /\ EditInit /\ (part # "column" =>
       /\ selected = {Any(Owners)}
       /\ \A t \in Owners, c \in ColumnNames :
            c \in DOMAIN columns[t] /\ \A x \in ColumnAttrs : columns[t][c].at[x] = Any(AttrValues))
  /\ RowFormInit /\ (part # "row" => \A c \in FormColumns : dbRow[c] = Any(Texts))

Next ==
  /\ UNCHANGED part
  /\ IF part = "form" THEN FormNext ELSE UNCHANGED formVars
  /\ IF part = "list" THEN ListNext ELSE UNCHANGED listVars
  /\ IF part = "content" THEN ContentNext ELSE UNCHANGED contentVars
  /\ IF part = "dml" THEN DmlNext ELSE UNCHANGED dmlVars
  /\ IF part = "matrix" THEN MatrixNext ELSE UNCHANGED matrixVars
  /\ IF part = "users" THEN UsersNext ELSE UNCHANGED drawerVars
  /\ IF part = "peek" THEN PeekNext ELSE UNCHANGED peekVars
  /\ IF part = "column" THEN EditNext ELSE UNCHANGED editVars
  /\ IF part = "row" THEN RowFormNext ELSE UNCHANGED rowFormVars

vars == <<part, formVars, listVars, contentVars, dmlVars, matrixVars, drawerVars,
          peekVars, editVars, rowFormVars>>

Fairness ==
  /\ WF_formVars(part = "form" /\ Network)
  /\ WF_listVars(part = "list" /\ ViewArrives) /\ WF_listVars(part = "list" /\ TimerFires)
  /\ WF_listVars(part = "list" /\ Answering)
  /\ WF_contentVars(part = "content" /\ Settling)
  /\ WF_peekVars(part = "peek" /\ PeekSettles)

Spec == Init /\ [][Next]_vars /\ Fairness

-----------------------------------------------------------------------------
\* The types of the nine screens' states.
TypeOK ==
  /\ FormTypeOK /\ ListTypeOK /\ ContentTypeOK /\ DmlTypeOK /\ MatrixTypeOK /\ UsersTypeOK
  /\ PeekTypeOK /\ EditTypeOK /\ RowFormTypeOK

\* What a screen at rest shows is the answer to what it asks for now, whatever order
\* the answers came in: a list its query (hooks.ts:182), a foreign key's card the
\* row its link points at (FkPeek.tsx:70), a picker its term (RowDrawer.tsx:431).
\* No list rests on a page that is gone (hooks.ts:214).
AnswersFitTheScreen ==
  RowsAnswerTheQuery /\ NoEmptyPage /\ CardsShowTheirLink /\ PickerShowsMatches

\* What counts as saved is what is stored: a form with nothing to save shows its
\* record (hooks.ts:360), a matrix with nothing to save its role (RolesAdmin.tsx:165).
NothingToSaveMeansStored == CleanFormMatchesRow /\ DirtyBarTellsTruth

\* A save changes only what was set in the form it comes from, and others' writes to
\* the rest stay: of a record (hooks.ts:346), of a row (RowDrawer.tsx:198).  Links are
\* one field: a save that toggled none leaves them all, one that toggled an option
\* leaves the other options offered alone, and takes every link the form never showed
\* (resolver.ts:1130).  A save of a matrix leaves all of it or nothing, or, if another
\* overlapped it, a grant more that the other put in (api/roles/permissions/route.ts:41).
SavesSpareTheRest ==
  [][/\ part = "form" => RecordSaveSpares
     /\ part = "row" => RowSaveSpares
     /\ part = "matrix" => SaveIsWhole]_vars

\* What is saved was typed for what it is saved to: a user's fields (UsersAdmin.tsx:283),
\* a column's operations (ColumnEditor.tsx:45).
EditsWereTyped == IdentitySavesWhatWasTyped /\ AppliesWhatWasTyped

\* A form asked for a record stops loading, a list answers, a grid comes to rest on
\* a page that exists, and no card loads for ever, but one whose entry was trimmed
\* from the cache while its answer was on its way (hooks.ts:302, hooks.ts:182,
\* ContentBrowser.tsx:134, FkPeek.tsx:70).
ScreensComeToRest ==
  /\ part = "form" => FormStopsLoading
  /\ part = "list" => ListSettles
  /\ part = "content" => GridComesToRest
  /\ part = "peek" => PeeksComeToRest
=============================================================================
