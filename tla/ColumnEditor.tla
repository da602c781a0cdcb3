----------------------------- MODULE ColumnEditor -----------------------------
(***************************************************************************)
(* The schema screen's column editor (app/schema/SchemaBrowser.tsx,        *)
(* ColumnEditor.tsx): one operation for the column's name and one for each *)
(* of its attributes, each with its input, its preview and its Apply.  The *)
(* column is looked up by name in the table that is selected, so the       *)
(* editor turns to another column when the selection, the schema read      *)
(* again, or the answer of a rename says so.                               *)
(*                                                                         *)
(* A preview is a function of what it was asked with, and one asked with   *)
(* anything else is dropped, so it is only whether an operation shows one. *)
(* The count of nulls, a warning beside an input, is left out.             *)
(***************************************************************************)
EXTENDS Naturals, FiniteSets

CONSTANTS
  Owners,          \* tables
  ColumnNames,
  ColumnAttrs,     \* type, nullable, default, comment
  AttrValues,
  MaxEditActs,     \* bound: clicks and keystrokes
  MaxEditOthers    \* bound: changes by others, answers that fail or are lost

ASSUME EditAssumption == MaxEditActs \in Nat /\ MaxEditOthers \in Nat

VARIABLES
  columns,     \* the database: each table's columns by name
  data,        \* the schema on screen
  schemaFetch,    \* the request for it
  selected,    \* the table selected
  editing,     \* the name the open editor looks up
  draft,       \* the inputs
  typedFor,    \* history: the column each input was typed for
  previewed,   \* operations that show their statement
  editorNo,       \* which editor this is
  carried,     \* history: the inputs came along from another column
  alters,      \* applied operations not yet answered
  editActs, editOthers

editVars == <<columns, data, schemaFetch, selected, editing, draft, typedFor, previewed, editorNo,
              carried, alters, editActs, editOthers>>
editorState == <<draft, typedFor, previewed, editorNo, carried>>

-----------------------------------------------------------------------------
Ops == {"rename"} \cup ColumnAttrs
Values(op) == IF op = "rename" THEN ColumnNames ELSE AttrValues

\* A column is who it is, whatever it is called.
Column == [id : Owners \X ColumnNames, at : [ColumnAttrs -> AttrValues]]

NoInput == [op \in Ops |-> CHOOSE v \in Values(op) : TRUE]
Untyped == [op \in Ops |-> {}]

EditInit ==
  /\ \E names \in (SUBSET ColumnNames) \ {{}}, at \in [Owners -> [ColumnAttrs -> AttrValues]] :
       columns = [t \in Owners |-> [c \in names |-> [id |-> <<t, c>>, at |-> at[t]]]]
  /\ data = columns /\ schemaFetch = [pc |-> "idle", read |-> columns]
  /\ selected \in {{t} : t \in Owners} /\ editing = {}
  /\ draft = NoInput /\ typedFor = Untyped /\ previewed = {} /\ editorNo = 0 /\ carried = FALSE
  /\ alters = {} /\ editActs = 0 /\ editOthers = 0

EditAct == editActs < MaxEditActs /\ editActs' = editActs + 1
Trouble == editOthers < MaxEditOthers /\ editOthers' = editOthers + 1

\* The column the editor is on: none, when its name is not in the table.
On(chosen, name, shown) ==
  {[t |-> p[1], c |-> p[2], col |-> shown[p[1]][p[2]]] :
     p \in {q \in chosen \X name : q[2] \in DOMAIN shown[q[1]]}}
OnScreen == On(selected, editing, data)

Has(x, op) == IF op = "rename" THEN x.c ELSE x.col.at[op]
Ready(x, op) == draft[op] # Has(x, op)

\* Mutation: the inputs are set again only when the name is another.
SameNameOnly(x, y) == x.c = y.c

\* The reset's dependencies: the column's name and attributes, not its table.
SameColumn(x, y) == x.c = y.c /\ x.col.at = y.col.at

\* What becomes of the editor when the selection, the name or the schema changes.
\* A statement stays on screen only while what it was asked with does.
Turns ==
  LET was == OnScreen
      now == On(selected', editing', data')
      reset(x) == [op \in Ops |-> Has(x, op)]
  IN IF now = {} THEN
        /\ draft' = NoInput /\ typedFor' = Untyped /\ previewed' = {} /\ carried' = FALSE
        /\ UNCHANGED editorNo
     ELSE \A y \in now :
        IF \E x \in was : SameColumn(x, y)
        THEN /\ UNCHANGED <<draft, typedFor, editorNo>>
             /\ previewed' = IF \E x \in was : x.t = y.t THEN previewed ELSE {}
             /\ carried' = (carried \/ \A x \in was : x.col.id # y.col.id)
        ELSE /\ draft' = reset(y) /\ typedFor' = Untyped /\ previewed' = {} /\ carried' = FALSE
             /\ editorNo' = IF was = {} THEN editorNo + 1 ELSE editorNo

-----------------------------------------------------------------------------
(* The screen.                                                             *)

\* A row of the overview, beside the editor; or the pane's close, which it covers.
SelectOwner(chosen) ==
  /\ EditAct /\ selected # chosen /\ selected' = chosen
  /\ chosen = {} => OnScreen = {}
  /\ UNCHANGED <<editing, data>> /\ Turns
  /\ UNCHANGED <<columns, schemaFetch, alters, editOthers>>

\* A column of the table selected; the editor covers them.
EditColumn(c) ==
  /\ OnScreen = {} /\ EditAct /\ \E t \in selected : c \in DOMAIN data[t]
  /\ editing' = {c} /\ UNCHANGED <<selected, data>> /\ Turns
  /\ UNCHANGED <<columns, schemaFetch, alters, editOthers>>

\* Done, Escape, or another builder in its place.
CloseEditor ==
  /\ editing # {} /\ EditAct /\ editing' = {} /\ UNCHANGED <<selected, data>> /\ Turns
  /\ UNCHANGED <<columns, schemaFetch, alters, editOthers>>

TypeValue(op) == \E x \in OnScreen, v \in Values(op) \ {draft[op]} :
  /\ EditAct /\ draft' = [draft EXCEPT ![op] = v]
  /\ typedFor' = [typedFor EXCEPT ![op] = IF v = Has(x, op) THEN {} ELSE {x.col.id}]
  /\ previewed' = previewed \ {op}
  /\ UNCHANGED <<columns, data, schemaFetch, selected, editing, editorNo, carried, alters, editOthers>>

\* A refetch takes the place of the one on its way.
Refetching == schemaFetch' = [pc |-> "asked", read |-> schemaFetch.read]

RefetchClicked ==
  /\ schemaFetch.pc = "idle" /\ EditAct /\ Refetching
  /\ UNCHANGED <<columns, data, selected, editing, alters, editOthers>> /\ UNCHANGED editorState

SchemaReads ==
  /\ schemaFetch.pc = "asked" /\ schemaFetch' = [pc |-> "read", read |-> columns]
  /\ UNCHANGED <<columns, data, selected, editing, alters, editActs, editOthers>>
  /\ UNCHANGED editorState

SchemaArrives ==
  /\ schemaFetch.pc = "read" /\ schemaFetch' = [schemaFetch EXCEPT !.pc = "idle"]
  /\ \/ data' = schemaFetch.read /\ UNCHANGED editOthers
     \/ UNCHANGED data /\ Trouble
  /\ UNCHANGED <<selected, editing>> /\ Turns
  /\ UNCHANGED <<columns, alters, editActs>>

-----------------------------------------------------------------------------
(* The operations.                                                         *)

\* renameColumn, alterColumnType, setNotNull, setDefault, setColumnComment: the
\* column must be known, and a new name must not be.
Builds(schema, t, c, op, v) ==
  c \in DOMAIN schema[t] /\ (op = "rename" => v \notin DOMAIN schema[t])

Altered(t, c, op, v) ==
  [columns EXCEPT ![t] =
     IF op # "rename" THEN [@ EXCEPT ![c].at[op] = v]
     ELSE [n \in (DOMAIN @ \ {c}) \cup {v} |-> IF n = v THEN @[c] ELSE @[n]]]

\* The preview for what is typed; the catalog it is built from may be the older one.
PreviewShown(op) == \E x \in OnScreen :
  /\ op \notin previewed /\ Ready(x, op)
  /\ \E schema \in {columns, data} : Builds(schema, x.t, x.c, op, draft[op])
  /\ previewed' = previewed \cup {op}
  /\ UNCHANGED <<columns, data, schemaFetch, selected, editing, draft, typedFor, editorNo, carried,
                 alters, editActs, editOthers>>

\* Apply; each operation runs one at a time, in the editor it is in.
Apply(op) == \E x \in OnScreen :
  /\ EditAct /\ op \in previewed /\ ~\E a \in alters : a.op = op /\ a.editor = editorNo
  /\ alters' = alters \cup
       {[op |-> op, t |-> x.t, c |-> x.c, to |-> draft[op], editor |-> editorNo, meant |-> typedFor[op],
         aimed |-> x.col.id, carried |-> carried, pc |-> "sent"]}
  /\ UNCHANGED <<columns, data, schemaFetch, selected, editing, editOthers>> /\ UNCHANGED editorState

\* executeDdl: done, refused, or done and reported as failed.
RunAlter(a) ==
  /\ a.pc = "sent"
  /\ LET possible == Builds(columns, a.t, a.c, a.op, a.to)
         ends(pc) == alters' = (alters \ {a}) \cup {[a EXCEPT !.pc = pc]}
     IN \/ /\ possible /\ columns' = Altered(a.t, a.c, a.op, a.to)
           /\ \/ ends("done") /\ UNCHANGED editOthers
              \/ ends("failed") /\ Trouble
        \/ /\ UNCHANGED columns /\ ends("failed")
           /\ IF possible THEN Trouble ELSE UNCHANGED editOthers
  /\ UNCHANGED <<data, schemaFetch, selected, editing, editActs>> /\ UNCHANGED editorState

\* Done reads the schema again, and a rename turns the editor to the new name,
\* whatever was opened or selected meanwhile.
AlterArrives(a) ==
  /\ a.pc # "sent" /\ alters' = alters \ {a}
  /\ IF a.pc = "done" THEN Refetching ELSE UNCHANGED schemaFetch
  /\ editing' = IF a.pc = "done" /\ a.op = "rename" THEN {a.to} ELSE editing
  /\ UNCHANGED <<selected, data>> /\ Turns
  /\ UNCHANGED <<columns, editActs, editOthers>>

\* A migration.
OthersAlter(t, c, op) ==
  /\ Trouble /\ \E v \in Values(op) : /\ Builds(columns, t, c, op, v)
                                      /\ columns' = Altered(t, c, op, v) /\ columns' # columns
  /\ UNCHANGED <<data, schemaFetch, selected, editing, alters, editActs>> /\ UNCHANGED editorState

EditNext ==
  \/ \E chosen \in {{}} \cup {{t} : t \in Owners} : SelectOwner(chosen)
  \/ \E c \in ColumnNames : EditColumn(c)
  \/ \E op \in Ops : TypeValue(op) \/ PreviewShown(op) \/ Apply(op)
  \/ CloseEditor \/ RefetchClicked \/ SchemaReads \/ SchemaArrives
  \/ \E a \in alters : RunAlter(a) \/ AlterArrives(a)
  \/ \E t \in Owners, c \in ColumnNames, op \in Ops : OthersAlter(t, c, op)

EditSpec == EditInit /\ [][EditNext]_editVars

-----------------------------------------------------------------------------
\* What the schema, the editor and its operations are made of.
EditTypeOK ==
  /\ \A t \in Owners : /\ \A c \in DOMAIN columns[t] : c \in ColumnNames /\ columns[t][c] \in Column
                       /\ \A c \in DOMAIN data[t] : c \in ColumnNames /\ data[t][c] \in Column
  /\ Cardinality(selected) <= 1 /\ selected \subseteq Owners /\ Cardinality(editing) <= 1
  /\ \A op \in Ops : draft[op] \in Values(op) /\ typedFor[op] \subseteq Owners \X ColumnNames
  /\ previewed \subseteq Ops /\ \A a \in alters : a.op \in Ops /\ a.to \in Values(a.op)

\* What is applied to a column was typed for that column: a schema read again, a
\* rename that moves the editor and a change by others never turn an old value into
\* an edit (ColumnEditor.tsx:45), unless the inputs came along from another column of
\* the same name and attributes.  What is previewed is a change.
AppliesWhatWasTyped ==
  /\ \A a \in alters : a.carried \/ a.meant = {a.aimed}
  /\ \A x \in OnScreen, op \in previewed : Ready(x, op)
=============================================================================
