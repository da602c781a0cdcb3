------------------------------- MODULE RowForm --------------------------------
(***************************************************************************)
(* The form in the content drawer and its relation picker                  *)
(* (app/content/RowDrawer.tsx), for one row that others write too.  The    *)
(* form starts from the row the grid read; a column that is set, even back *)
(* to what it was, is dirty until the form goes.  The picker is a search   *)
(* whose answers come in any order.                                        *)
(*                                                                         *)
(* ContentBrowser has the drawer's place in the screen; here it is open or *)
(* not.  What a type makes of a text is left to the database.              *)
(***************************************************************************)
EXTENDS Naturals, FiniteSets

CONSTANTS
  FormColumns,    \* the table's columns but its key
  PickColumns,    \* those that refer to another table: nullable, set by the picker
  HiddenColumns,  \* those that are masked: no input
  Texts,          \* values, and rows of the other table
  NoValue,        \* NULL
  Searches,          \* what is searched for
  MaxRowActs,     \* bound: clicks and keystrokes
  MaxRowOthers    \* bound: writes by others, answers that fail

ASSUME RowAssumption ==
  /\ PickColumns \subseteq FormColumns /\ HiddenColumns \subseteq FormColumns \ PickColumns
  /\ NoValue \notin Texts \cup {""} /\ MaxRowActs \in Nat /\ MaxRowOthers \in Nat

VARIABLES
  dbRow,       \* the row in the table
  gridRow,     \* as the grid read it last
  linkable,    \* rows of the other table
  form,        \* the drawer: its mode, its row, its fields
  inputsSet,       \* history: columns the operator set in this form
  picker, lookups,
  submits,     \* saves not yet answered
  rowActs, rowOthers

rowFormVars == <<dbRow, gridRow, linkable, form, inputsSet, picker, lookups, submits, rowActs, rowOthers>>
tableState == <<dbRow, gridRow, linkable>>

-----------------------------------------------------------------------------
CellValues == Texts \cup {"", NoValue}
Input == [text : Texts \cup {""}, isNull : BOOLEAN, dirty : BOOLEAN]

\* The label of a row holds the term.
FoundBy(term) == {v \in linkable : term \in {"", v}}

editable == FormColumns \ HiddenColumns
initialField(v) == [text |-> IF v = NoValue THEN "" ELSE v, isNull |-> v = NoValue, dirty |-> FALSE]
Fields0(row) == [c \in editable |-> initialField(row[c])]
NoRow == [c \in FormColumns |-> NoValue]
NewFields == [c \in editable |-> [initialField(NoValue) EXCEPT !.isNull = FALSE]]

\* A change of mode takes one form away and starts another.
Shows(mode, row, inputs) ==
  form' = [mode |-> mode, row |-> row, fields |-> inputs, no |-> form.no + 1, saving |-> FALSE]

ClosedPicker == [col |-> {}, q |-> "", rows |-> {}, state |-> "closed", timer |-> FALSE, no |-> 0]

\* A row of the grid has been clicked.
RowFormInit ==
  /\ dbRow \in [FormColumns -> Texts] /\ gridRow = dbRow /\ linkable = Texts
  /\ form = [mode |-> "view", row |-> gridRow, fields |-> NewFields, no |-> 0, saving |-> FALSE]
  /\ inputsSet = {} /\ picker = ClosedPicker /\ lookups = {} /\ submits = {}
  /\ rowActs = 0 /\ rowOthers = 0

RowAct == rowActs < MaxRowActs /\ rowActs' = rowActs + 1
RowTrouble == rowOthers < MaxRowOthers /\ rowOthers' = rowOthers + 1

\* The form is gone, and its picker with it.
Leaves == inputsSet' = {} /\ picker' = [ClosedPicker EXCEPT !.no = picker.no + 1]

-----------------------------------------------------------------------------
(* The drawer.                                                             *)

ShowRow ==
  /\ picker.state = "closed" /\ RowAct /\ Shows("view", gridRow, NewFields) /\ Leaves
  /\ UNCHANGED tableState /\ UNCHANGED <<lookups, submits, rowOthers>>

EditShown ==
  /\ form.mode = "view" /\ RowAct /\ Shows("edit", form.row, Fields0(form.row)) /\ Leaves
  /\ UNCHANGED tableState /\ UNCHANGED <<lookups, submits, rowOthers>>

NewRow ==
  /\ picker.state = "closed" /\ form.mode # "new" /\ RowAct /\ Shows("new", NoRow, NewFields)
  /\ Leaves
  /\ UNCHANGED tableState /\ UNCHANGED <<lookups, submits, rowOthers>>

\* Cancel, or the panel's close and Escape: which also closes under an open picker.
CloseForm ==
  /\ form.mode # "closed" /\ RowAct /\ Leaves
  /\ \/ Shows("closed", NoRow, NewFields)
     \/ /\ form.mode = "edit" /\ ~form.saving /\ picker.state = "closed"
        /\ Shows("view", form.row, NewFields)
  /\ UNCHANGED tableState /\ UNCHANGED <<lookups, submits, rowOthers>>

Writing == form.mode \in {"edit", "new"}

setField(c, text, isNull) ==
  /\ form' = [form EXCEPT !.fields[c] = [text |-> text, isNull |-> isNull, dirty |-> TRUE]]
  /\ inputsSet' = inputsSet \cup {c}

\* An input, or the box that makes it null and leaves its text.
SetInput(c) ==
  /\ Writing /\ picker.state = "closed" /\ RowAct
  /\ LET f == form.fields[c] IN
       \/ /\ c \notin PickColumns
          /\ \E v \in (Texts \cup {""}) \ {f.text} : setField(c, v, FALSE)
       \/ c \in PickColumns /\ setField(c, f.text, ~f.isNull)
       \/ c \in PickColumns /\ setField(c, "", TRUE)
  /\ UNCHANGED tableState /\ UNCHANGED <<picker, lookups, submits, rowOthers>>

-----------------------------------------------------------------------------
(* The picker.                                                             *)

\* A search is asked for after a pause, and ignored when the term changes.
OpenPicker(c) ==
  /\ Writing /\ picker.state = "closed" /\ RowAct
  /\ picker' = [ClosedPicker EXCEPT !.col = {c}, !.state = "loading", !.timer = TRUE,
                                    !.no = picker.no + 1]
  /\ UNCHANGED tableState /\ UNCHANGED <<form, inputsSet, lookups, submits, rowOthers>>

TypeTerm(q) ==
  /\ picker.state # "closed" /\ picker.q # q /\ RowAct
  /\ picker' = [picker EXCEPT !.q = q, !.state = IF @ = "failed" THEN @ ELSE "loading",
                              !.timer = TRUE, !.no = @ + 1]
  /\ UNCHANGED tableState /\ UNCHANGED <<form, inputsSet, lookups, submits, rowOthers>>

LookupSent ==
  /\ picker.timer /\ picker' = [picker EXCEPT !.timer = FALSE]
  /\ lookups' = lookups \cup {[q |-> picker.q, no |-> picker.no, pc |-> "asked", rows |-> {}]}
  /\ UNCHANGED tableState /\ UNCHANGED <<form, inputsSet, submits, rowActs, rowOthers>>

LookupRead(l) ==
  /\ l.pc = "asked"
  /\ lookups' = (lookups \ {l}) \cup {[l EXCEPT !.pc = "read", !.rows = FoundBy(l.q)]}
  /\ UNCHANGED tableState /\ UNCHANGED <<form, inputsSet, picker, submits, rowActs, rowOthers>>

\* Mutation: a search that was typed over is not cancelled.
WantedAlways(l) == picker.state # "closed"

Wanted(l) == l.no = picker.no

\* An error stays until an answer comes that is none.
LookupArrives(l) ==
  /\ lookups' = lookups \ {l}
  /\ \/ /\ l.pc = "read" /\ UNCHANGED rowOthers
        /\ picker' = IF Wanted(l) THEN [picker EXCEPT !.rows = l.rows, !.state = "shown"] ELSE picker
     \/ /\ RowTrouble /\ picker' = IF Wanted(l) THEN [picker EXCEPT !.state = "failed"] ELSE picker
  /\ UNCHANGED tableState /\ UNCHANGED <<form, inputsSet, submits, rowActs>>

\* A row is picked, or the picker closed.
ClosePicker ==
  /\ picker.state # "closed" /\ RowAct /\ picker' = [ClosedPicker EXCEPT !.no = picker.no + 1]
  /\ \/ UNCHANGED <<form, inputsSet>>
     \/ /\ picker.state = "shown"
        /\ \E c \in picker.col, v \in picker.rows : setField(c, v, FALSE)
  /\ UNCHANGED tableState /\ UNCHANGED <<lookups, submits, rowOthers>>

-----------------------------------------------------------------------------
(* Saving.                                                                 *)

wireValue(f) == IF f.isNull THEN NoValue ELSE f.text

\* Mutation: every input is sent.
SentAll(inputs) == [c \in editable |-> wireValue(inputs[c])]

\* The dirty columns; an input never filled in is an empty text.
Sent(inputs) == [c \in {d \in editable : inputs[d].dirty} |-> wireValue(inputs[c])]

Submit ==
  /\ Writing /\ ~form.saving /\ picker.state = "closed" /\ RowAct
  /\ \E c \in editable : form.fields[c].dirty
  /\ submits' = submits \cup {[mode |-> form.mode, values |-> Sent(form.fields), no |-> form.no,
                               set |-> inputsSet, row |-> NoRow, pc |-> "sent"]}
  /\ form' = [form EXCEPT !.saving = TRUE]
  /\ UNCHANGED tableState /\ UNCHANGED <<inputsSet, picker, lookups, rowOthers>>

Merged(old, sent) == [c \in FormColumns |-> IF c \in DOMAIN sent THEN sent[c] ELSE old[c]]

\* insertRow and updateRow, one statement each: the database refuses a link to
\* a row that is gone, and a request may fail after it was carried out.
RunSubmit(s) ==
  /\ s.pc = "sent"
  /\ LET row == Merged(IF s.mode = "new" THEN NoRow ELSE dbRow, s.values)
         possible == \A c \in PickColumns \cap DOMAIN s.values :
                       s.values[c] \in linkable \cup {NoValue}
         ends(pc) == submits' = (submits \ {s}) \cup {[s EXCEPT !.pc = pc, !.row = row]}
     IN \/ /\ possible /\ dbRow' = IF s.mode = "new" THEN dbRow ELSE row
           /\ \/ ends("done") /\ UNCHANGED rowOthers
              \/ ends("failed") /\ RowTrouble
        \/ /\ UNCHANGED dbRow /\ ends("failed")
           /\ IF possible THEN RowTrouble ELSE UNCHANGED rowOthers
  /\ UNCHANGED <<gridRow, linkable, form, inputsSet, picker, lookups, rowActs>>

\* onSaved opens the drawer on the row that came back, whatever is open by then.
SubmitArrives(s) ==
  /\ s.pc # "sent" /\ submits' = submits \ {s}
  /\ IF s.pc = "done" THEN Shows("view", s.row, NewFields) /\ Leaves
     ELSE /\ form' = [form EXCEPT !.saving = @ /\ s.no # form.no]
          /\ UNCHANGED <<inputsSet, picker>>
  /\ UNCHANGED tableState /\ UNCHANGED <<lookups, rowActs, rowOthers>>

-----------------------------------------------------------------------------
(* The rest of the screen, and others.                                     *)

GridReread ==
  /\ gridRow # dbRow /\ gridRow' = dbRow
  /\ UNCHANGED <<dbRow, linkable, form, inputsSet, picker, lookups, submits, rowActs, rowOthers>>

OthersWrite ==
  /\ RowTrouble
  /\ \/ \E c \in FormColumns, v \in Texts : dbRow[c] # v /\ dbRow' = [dbRow EXCEPT ![c] = v]
        /\ UNCHANGED linkable
     \/ \E v \in Texts : linkable' = linkable \ {v} /\ v \in linkable /\ UNCHANGED dbRow
  /\ UNCHANGED <<gridRow, form, inputsSet, picker, lookups, submits, rowActs>>

RowFormNext ==
  \/ ShowRow \/ EditShown \/ NewRow \/ CloseForm \/ Submit
  \/ \E c \in editable : SetInput(c)
  \/ \E c \in PickColumns : OpenPicker(c)
  \/ \E q \in Searches : TypeTerm(q)
  \/ LookupSent \/ ClosePicker \/ GridReread \/ OthersWrite
  \/ \E l \in lookups : LookupRead(l) \/ LookupArrives(l)
  \/ \E s \in submits : RunSubmit(s) \/ SubmitArrives(s)

RowFormSpec == RowFormInit /\ [][RowFormNext]_rowFormVars

-----------------------------------------------------------------------------
\* What the drawer's form, its picker and its requests are made of.
RowFormTypeOK ==
  /\ dbRow \in [FormColumns -> CellValues] /\ gridRow \in [FormColumns -> CellValues]
  /\ form.fields \in [editable -> Input] /\ form.row \in [FormColumns -> CellValues]
  /\ linkable \subseteq Texts /\ inputsSet \subseteq editable
  /\ picker.q \in Searches \cup {""} /\ picker.rows \subseteq Texts
  /\ \A s \in submits : DOMAIN s.values \subseteq editable

\* The rows a picker offers were found by the term in its box, whatever order the
\* answers came in (RowDrawer.tsx:431).
PickerShowsMatches ==
  picker.state = "shown" => \A v \in picker.rows : picker.q \in {"", v}

\* A save from the drawer changes no column but those the operator set in that form:
\* what others inputsSet to the rest of the row since the grid read it stays
\* (RowDrawer.tsx:198).
RowSaveSpares ==
  \A c \in FormColumns : dbRow'[c] # dbRow[c] =>
    \/ rowOthers' > rowOthers /\ submits' = submits
    \/ \E s \in submits : s.pc = "sent" /\ s \notin submits' /\ c \in s.set
=============================================================================
