------------------------------ MODULE AdminForm ------------------------------
(***************************************************************************)
(* The record form (packages/admin/src/react: useAdminForm, AdminForm, its *)
(* file and many-to-many inputs) over the resolver's read and options.     *)
(*                                                                         *)
(* One form component is handed record after record by the page around it. *)
(* Loads, saves, deletes and uploads are answered whenever the network     *)
(* pleases; a load is told to ignore its answer when the form moves on, a  *)
(* save and an upload are not.  Every value carries the record it belongs  *)
(* to, so that a value that strays can be recognised.                      *)
(***************************************************************************)
EXTENDS Naturals, FiniteSets

CONSTANTS
  Records,     \* primary keys
  Existing,    \* those in the table at first; a create takes one of the others
  First,       \* what the page may open first
  Blank,       \* the id of a new record; the owner of a value nobody gave
  Links,       \* far-side values of the many-to-many
  Shown,       \* those of them the actor may read, and is therefore offered
  MaxMoves,    \* bound: times the page hands the form another record
  MaxActs,     \* bound: what the operator does in it: edits, uploads, deletes
  MaxSaves     \* bound: saves

ASSUME FormAssumption ==
  /\ Shown \subseteq Links /\ Existing \subseteq Records /\ Blank \notin Records
  /\ Links \cap {"name", "file", "links"} = {}     \* `touched` holds both
  /\ First \subseteq Records \cup {Blank}
  /\ MaxMoves \in Nat /\ MaxActs \in Nat /\ MaxSaves \in Nat

VARIABLES
  formId,       \* config.id
  values, initial,
  formLoads,    \* record requests in flight
  formWrites,   \* the save or delete in flight: one at most, `saving`
  uploads,      \* uploads in flight: the record on screen when each was picked
  loading,
  records,      \* the table: a row for every key in it
  born,         \* the keys it ever had
  touched,      \* history: fields the operator set, and options toggled, since
                \* this record was opened
  mixed,        \* history: something of another record reached this form
  doubtful,     \* history: the row may have changed behind the form
  moves, acts, saves   \* counters of the bounds

formVars == <<formId, values, initial, formLoads, formWrites, uploads, loading,
  records, born, touched, mixed, doubtful, moves, acts, saves>>
formBounds == <<moves, acts, saves>>

-----------------------------------------------------------------------------
Fields == {"name", "file", "links"}

\* A scalar value: whose it is, and which: 0 as loaded, 1 typed or uploaded
\* here, 2 written by someone else.
Scalar == [of : Records \cup {Blank}, n : 0..2]
Null == [of |-> Blank, n |-> 0]

Record == [name : Scalar, file : Scalar, links : SUBSET Links]
Own(r) == [name |-> [of |-> r, n |-> 0], file |-> [of |-> r, n |-> 0], links |-> Links]
BlankRecord == [name |-> Null, file |-> Null, links |-> {}]

isNew == formId = Blank
dirty == values # initial
valid == values.name # Null     \* name is the required field

\* Mutation: the form sends every field.
PayloadAll == Fields

\* Only what differs from the pristine values is sent; a new record sends
\* whatever is not null.
Payload == {f \in Fields : \/ values[f] # initial[f]
                           \/ isNew /\ values[f] # BlankRecord[f]}

\* What read returns: the links narrowed to those whose target may be read.
ReadRow(r) == [records[r] EXCEPT !.links = @ \cap Shown]
Found(r) == r \in DOMAIN records

\* A picker emits the options offered, never a value it was not offered.
Options(chosen) == chosen \cap Shown

-----------------------------------------------------------------------------
LoadOf(r) == [id |-> r, cancelled |-> FALSE, stage |-> "asked", row |-> BlankRecord]

\* The form is mounted, on a record or on a new one.
FormInit ==
  /\ formId \in First /\ loading = ~isNew
  /\ values = BlankRecord /\ initial = BlankRecord
  /\ formLoads = IF isNew THEN {} ELSE {LoadOf(formId)}
  /\ formWrites = {} /\ uploads = {}
  /\ records = [r \in Existing |-> Own(r)] /\ born = Existing
  /\ touched = {} /\ mixed = FALSE /\ doubtful = FALSE
  /\ moves = 0 /\ acts = 0 /\ saves = 0

\* The effect on the id: the load of the record before is cancelled; a new
\* record starts blank, any other is asked for while the old values stay, and
\* the form is taken off the screen until the answer (its inputs forget).
OpenRecord(r) ==
  /\ moves < MaxMoves /\ r # formId
  /\ formId' = r /\ moves' = moves + 1 /\ touched' = {}
  /\ LET cancelled == {[l EXCEPT !.cancelled = TRUE] : l \in formLoads}
     IN IF r = Blank
        THEN /\ values' = BlankRecord /\ initial' = BlankRecord /\ mixed' = FALSE
             /\ formLoads' = cancelled
             /\ UNCHANGED <<loading, uploads>>
        ELSE /\ loading' = TRUE
             /\ formLoads' = cancelled \cup {LoadOf(r)}
             /\ uploads' = {[u EXCEPT !.busy = FALSE] : u \in uploads}
             /\ UNCHANGED <<values, initial, mixed>>
  /\ UNCHANGED <<formWrites, records, born, doubtful, acts, saves>>

\* The server reads the row.
AnswerLoad(l) ==
  /\ l.stage = "asked" /\ Found(l.id)
  /\ formLoads' = (formLoads \ {l}) \cup {[l EXCEPT !.stage = "read", !.row = ReadRow(l.id)]}
  /\ UNCHANGED <<formId, values, initial, formWrites, uploads, loading,
                 records, born, touched, mixed, doubtful, formBounds>>

\* Mutation: an error is let pass like a load that was cancelled.
IgnoredOnError(l) == l.cancelled \/ l.stage # "read"

Ignored(l) == l.cancelled

\* A load not answered with a row is refused (no such row, an error of the
\* server or the network): the values of the record before stay on the screen.
LoadArrives(l) ==
  /\ formLoads' = formLoads \ {l}
  /\ IF Ignored(l) THEN UNCHANGED <<values, initial, loading, touched, mixed>>
     ELSE /\ loading' = FALSE
          /\ IF l.stage = "read"
             THEN /\ values' = l.row /\ initial' = l.row
                  /\ mixed' = FALSE /\ touched' = {}
             ELSE mixed' = TRUE /\ UNCHANGED <<values, initial, touched>>
  /\ UNCHANGED <<formId, formWrites, uploads, records, born, doubtful, formBounds>>

-----------------------------------------------------------------------------
SetField(f, v) ==
  values' = [values EXCEPT ![f] = v] /\ touched' = touched \cup {f}

\* The set as the boxes show it, that one turned over.
ToggleOption(o) ==
  /\ values' = [values EXCEPT !.links = Options((@ \ {o}) \cup ({o} \ @))]
  /\ touched' = touched \cup {"links", o}

Act == acts < MaxActs /\ acts' = acts + 1

\* The file input takes no second file, and clears none, while it waits for one.
Uploading == \E u \in uploads : u.busy

\* A person edits: fields stay open while a save is in flight.
EditField ==
  /\ ~loading /\ Act
  /\ \/ SetField("name", [of |-> formId, n |-> 1])
     \/ ~Uploading /\ SetField("file", Null)
     \/ \E o \in Shown : ToggleOption(o)
  /\ UNCHANGED <<formId, initial, formLoads, formWrites, uploads, loading, records, born, mixed, doubtful, moves, saves>>

PickFile ==
  /\ ~loading /\ ~Uploading /\ Act
  /\ uploads' = uploads \cup {[of |-> formId, at |-> moves, busy |-> TRUE]}
  /\ UNCHANGED <<formId, values, initial, formLoads, formWrites, loading, records, born, touched, mixed, doubtful, moves, saves>>

\* The file row's id becomes the field's value, whatever record is open now.
UploadArrives(u) ==
  /\ uploads' = uploads \ {u}
  /\ \/ /\ SetField("file", [of |-> u.of, n |-> 1])
        /\ mixed' = (mixed \/ u.at # moves)
     \/ UNCHANGED <<values, touched, mixed>>
  /\ UNCHANGED <<formId, initial, formLoads, formWrites, loading, records, born,
                 doubtful, formBounds>>

Discard ==
  /\ ~loading /\ dirty /\ formWrites = {}
  /\ values' = initial
  /\ UNCHANGED <<formId, initial, formLoads, formWrites, uploads, loading, records, born, touched, mixed, doubtful, formBounds>>

-----------------------------------------------------------------------------
\* A call captures the values and the id it was made with.
Call(kind, sends) ==
  /\ ~loading /\ formWrites = {}
  /\ formWrites' = {[kind |-> kind, id |-> formId, at |-> moves, sends |-> sends,
                     values |-> values, touched |-> touched, mixed |-> mixed, stage |-> "sent"]}
  /\ UNCHANGED <<formId, values, initial, formLoads, uploads, loading, records, born,
                 touched, mixed, doubtful, moves>>

Save ==
  /\ dirty /\ valid /\ saves < MaxSaves /\ saves' = saves + 1
  /\ Call("save", Payload) /\ UNCHANGED acts
Delete == ~isNew /\ Call("delete", {}) /\ Act /\ UNCHANGED saves

\* PATCH writes the columns sent and reconciles the links sent to exactly that
\* set; POST inserts a row under a key of its own.
RowsBut(r) == [s \in DOMAIN records \ {r} |-> records[s]]
RowsWith(r, row) == [s \in DOMAIN records \cup {r} |-> IF s = r THEN row ELSE records[s]]
Written(w) ==
  IF w.kind = "delete" THEN {RowsBut(w.id)}
  ELSE IF w.id = Blank THEN {RowsWith(r, w.values) : r \in Records \ born}
  ELSE {[records EXCEPT ![w.id] =
           [f \in Fields |-> IF f \in w.sends THEN w.values[f] ELSE @[f]]]}

\* The write happens or is refused; its answer may be lost after it happened.
RunWrite(w) ==
  /\ w.stage = "sent"
  /\ \/ /\ w.id = Blank \/ Found(w.id)
        /\ records' \in Written(w) /\ born' = born \cup DOMAIN records'
        /\ \E stage \in {"done", "failed"} :
             /\ formWrites' = {[w EXCEPT !.stage = stage]}
             /\ doubtful' = (doubtful \/ stage = "failed" \/ w.at # moves)
     \/ formWrites' = {[w EXCEPT !.stage = "failed"]} /\ UNCHANGED <<records, born, doubtful>>
  /\ UNCHANGED <<formId, values, initial, formLoads, uploads, loading, touched, mixed, formBounds>>

\* Mutation: what is on screen when the answer comes becomes pristine.
PristineNow(w) == values

\* The values the save was called with become the pristine ones: not those of
\* the moment, so what was typed meanwhile is still an edit.
Pristine(w) == w.values

WriteArrives(w) ==
  /\ w.stage # "sent"
  /\ formWrites' = {}
  /\ IF w.stage = "done" /\ w.kind = "save"
     THEN initial' = Pristine(w) /\ mixed' = (mixed \/ w.at # moves)
     ELSE UNCHANGED <<initial, mixed>>
  /\ UNCHANGED <<formId, values, formLoads, uploads, loading, records, born, touched,
                 doubtful, formBounds>>

\* Someone else writes the row.
OthersEdit(r) ==
  /\ Found(r) /\ Act /\ doubtful' = TRUE
  /\ records' = [records EXCEPT ![r].name = [of |-> r, n |-> 2]]
  /\ UNCHANGED <<formId, values, initial, formLoads, formWrites, uploads, loading,
                 born, touched, mixed, moves, saves>>

Network ==
  \/ \E l \in formLoads : AnswerLoad(l) \/ LoadArrives(l)
  \/ \E w \in formWrites : RunWrite(w) \/ WriteArrives(w)

FormNext ==
  \/ \E r \in Records \cup {Blank} : OpenRecord(r)
  \/ EditField \/ PickFile \/ Discard \/ Save \/ Delete
  \/ \E u \in uploads : UploadArrives(u)
  \/ \E r \in Records : OthersEdit(r)
  \/ Network

\* Requests are answered, or fail: fetch settles, and the form handles both.
FormFairness == WF_formVars(Network)

FormSpec == FormInit /\ [][FormNext]_formVars /\ FormFairness

-----------------------------------------------------------------------------
\* What the form's state is made of.
FormTypeOK ==
  /\ formId \in Records \cup {Blank} /\ {values, initial} \subseteq Record
  /\ \A l \in formLoads : l.id \in Records /\ l.row \in Record
  /\ \A w \in formWrites : w.values \in Record /\ w.sends \subseteq Fields
  /\ Cardinality(formWrites) <= 1
  /\ Cardinality({l \in formLoads : ~l.cancelled}) <= 1
  /\ DOMAIN records \subseteq born /\ \A r \in DOMAIN records : records[r] \in Record
  /\ touched \subseteq Fields \cup Links /\ {loading, mixed, doubtful} \subseteq BOOLEAN

Stays(r, f) == r \in DOMAIN records' /\ records'[r][f] = records[r][f]
Belongs(v, r) == v.of \in {r, Blank}

\* Of the options offered, those not toggled are linked or not as they were.
OnlyToggled(w, r) ==
  \A o \in Shown \ w.touched : o \in records'[r].links <=> o \in records[r].links

\* What a save changes in a row was set by the operator while that record was on
\* screen, and no value of another record lands in it, unless an answer for another
\* record (a save, an upload, a refused load) reached the form first.  A save that
\* leaves the links field alone leaves every link.  One that does not changes, of
\* the links offered, those toggled (and what others changed behind the form), but
\* takes every link the operator was never shown (components.tsx:300,
\* resolver.ts:1130): those are spared only by not touching the field.
RecordSaveSpares ==
  \A r \in DOMAIN records : \A f \in Fields :
    \/ r \notin DOMAIN records' \/ Stays(r, f)
    \/ f = "name" /\ records'[r].name = [of |-> r, n |-> 2]
    \/ \E w \in formWrites :
         /\ w.id = r
         /\ \/ w.mixed
            \/ /\ f \in w.touched
               /\ IF f = "links" THEN doubtful \/ OnlyToggled(w, r)
                  ELSE Belongs(records'[r][f], r)

\* A form with nothing to save shows the row as it is: an edit made while a save
\* was in flight is still to be saved, and an old load never comes back.
CleanFormMatchesRow ==
  (/\ ~loading /\ ~dirty /\ ~mixed /\ ~doubtful
   /\ formWrites = {} /\ formId \in DOMAIN records) => values = ReadRow(formId)

\* A form asked for a record is not left loading. (One that turns to a new
\* record while it loads is: the effect returns before it resets the flag.)
FormStopsLoading == loading ~> (~loading \/ formId = Blank)
=============================================================================
