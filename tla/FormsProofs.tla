----------------------------- MODULE FormsProofs -----------------------------
(***************************************************************************)
(* Proofs about the screens that edit and list: the record form and the    *)
(* list of the admin package; the row form, the column editor and the      *)
(* permission matrix of the console.  One inductive invariant for each.    *)
(***************************************************************************)
EXTENDS AdminForm, AdminList, RoleMatrix, ColumnEditor, RowForm, TLAPS, FiniteSetTheorems

\* At most one member.
Alone(S) == \A x, y \in S : x = y

LEMMA OneAtMost ==
  ASSUME NEW S, \A x, y \in S : x = y PROVE Cardinality(S) <= 1 /\ IsFiniteSet(S)
<1>1. CASE S = {}
  BY <1>1, FS_EmptySet
<1>2. CASE \E x \in S : S = {x}
  <2>1. PICK x \in S : S = {x}
    BY <1>2
  <2>2. Cardinality({x}) = 1 /\ IsFiniteSet({x})
    BY FS_Singleton
  <2> QED BY <2>1, <2>2
<1> QED BY <1>1, <1>2

-----------------------------------------------------------------------------
(* The record form.                                                        *)

FormLoad == [id : Records, cancelled : BOOLEAN, stage : {"asked", "read"}, row : Record]
FormWrite == [kind : {"save", "delete"}, id : Records \cup {Blank}, at : Nat, sends : SUBSET Fields,
              values : Record, touched : SUBSET (Fields \cup Links), mixed : BOOLEAN,
              stage : {"sent", "done", "failed"}]
FormUpload == [of : Records \cup {Blank}, at : Nat, busy : BOOLEAN]

\* What differs from these values was set by the operator, for the record on screen.
SetHere(base) ==
  /\ \A f \in Fields :
       values[f] # base[f] => f \in touched /\ (f # "links" => Belongs(values[f], formId))
  /\ \A o \in Shown \ touched : o \in values["links"] <=> o \in base["links"]

ScreenFits ==
  /\ formId \in Records \cup {Blank} /\ moves \in Nat /\ touched \subseteq Fields \cup Links
  /\ values \in Record /\ initial \in Record
  /\ values.links \subseteq Shown /\ initial.links \subseteq Shown
  /\ loading \in BOOLEAN /\ mixed \in BOOLEAN /\ doubtful \in BOOLEAN

TableFits ==
  /\ DOMAIN records \subseteq born /\ born \subseteq Records
  /\ records \in [DOMAIN records -> Record]

\* The load that still counts is of the record on screen, and reads it as it is.
FormLoadFits(l) ==
  /\ l \in FormLoad /\ l.row.links \subseteq Shown
  /\ ~l.cancelled =>
       /\ loading /\ l.id = formId
       /\ l.stage = "read" /\ ~doubtful /\ Found(l.id) => l.row = ReadRow(l.id)
LoadsFit == (\A l \in formLoads : FormLoadFits(l)) /\ Alone({l \in formLoads : ~l.cancelled})

\* A save sends what was set; one for the record on screen leaves out what has not
\* changed since.
FormWriteFits(w) ==
  /\ w \in FormWrite /\ w.values.links \subseteq Shown /\ w.at <= moves
  /\ w.kind = "delete" => w.id # Blank /\ w.sends = {}
  /\ ~w.mixed /\ w.id # Blank =>
       \A f \in w.sends : f \in w.touched /\ (f # "links" => Belongs(w.values[f], w.id))
  /\ w.at = moves =>
       /\ ~loading /\ w.id = formId
       /\ ~mixed => SetHere(w.values)
       /\ w.kind = "save" => \A f \in Fields \ w.sends : w.values[f] = initial[f]
WritesFit == (\A w \in formWrites : FormWriteFits(w)) /\ Alone(formWrites)

UploadFits(u) == u \in FormUpload /\ u.at <= moves /\ (u.at = moves => u.of = formId)

\* Of the options offered, a save on its way differs from the row in those toggled.
LinksStand(w) ==
  w.stage = "sent" /\ ~w.mixed /\ ~doubtful /\ w.id # Blank /\ Found(w.id) =>
    \A o \in Shown \ w.touched : o \in w.values["links"] <=> o \in records[w.id]["links"]
LinksHold == \A w \in formWrites : LinksStand(w)

\* The row on screen is the one stored; while a save's answer is on its way, the one saved.
SavedHere(w) == w.at = moves /\ w.kind = "save" /\ w.stage = "done"
BaseFits ==
  ~loading /\ ~mixed /\ ~doubtful /\ Found(formId) =>
    /\ \A w \in formWrites : SavedHere(w) => w.values = ReadRow(formId)
    /\ (\A w \in formWrites : ~SavedHere(w)) => initial = ReadRow(formId)

FormInv ==
  /\ ScreenFits /\ TableFits /\ LoadsFit /\ WritesFit
  /\ \A u \in uploads : UploadFits(u)
  /\ ~loading /\ ~mixed => SetHere(initial)
  /\ BaseFits /\ LinksHold

LEMMA ScalarsAre ==
  /\ Null \in Scalar /\ \A r \in Records \cup {Blank} : [of |-> r, n |-> 1] \in Scalar /\ [of |-> r, n |-> 0] \in Scalar
                                                 /\ [of |-> r, n |-> 2] \in Scalar
  /\ BlankRecord \in Record /\ BlankRecord.links = {}
  /\ \A r \in Records : Own(r) \in Record
BY DEF Null, Scalar, BlankRecord, Record, Own

LEMMA RecordParts ==
  ASSUME NEW r \in Record
  PROVE  /\ r["name"] \in Scalar /\ r["file"] \in Scalar /\ r["links"] \in SUBSET Links
         /\ DOMAIN r = Fields /\ r = [f \in Fields |-> r[f]]
         /\ r.links = r["links"]
BY DEF Record, Fields

LEMMA RecordMade ==
  ASSUME NEW r, r = [f \in Fields |-> r[f]],
         r["name"] \in Scalar, r["file"] \in Scalar, r["links"] \in SUBSET Links
  PROVE  r \in Record
<1>1. r = [name |-> r["name"], file |-> r["file"], links |-> r["links"]]
  BY DEF Fields
<1> QED BY <1>1 DEF Record

LEMMA RecordSet ==
  ASSUME NEW r \in Record, NEW f \in Fields, NEW v,
         v \in (IF f = "links" THEN SUBSET Links ELSE Scalar), NEW s, s = [r EXCEPT ![f] = v]
  PROVE  s \in Record /\ s[f] = v /\ \A g \in Fields \ {f} : s[g] = r[g]
<1>1. DOMAIN r = Fields /\ r["name"] \in Scalar /\ r["file"] \in Scalar /\ r["links"] \in SUBSET Links
  BY RecordParts
<1>2. s = [g \in Fields |-> IF g = f THEN v ELSE r[g]]
  BY <1>1
<1>3. s = [g \in Fields |-> s[g]] /\ s[f] = v /\ \A g \in Fields \ {f} : s[g] = r[g]
  BY <1>2
<1>4. s["name"] \in Scalar /\ s["file"] \in Scalar /\ s["links"] \in SUBSET Links
  BY <1>1, <1>3 DEF Fields
<1> QED BY <1>3, <1>4, RecordMade

LEMMA LinksNarrowed ==
  ASSUME NEW row \in Record, NEW s, s = [row EXCEPT !.links = @ \cap Shown]
  PROVE  /\ s \in Record /\ s.links \subseteq Shown
         /\ s["name"] = row["name"] /\ s["file"] = row["file"] /\ s["links"] = row["links"] \cap Shown
<1>1. PICK v : v = row["links"] \cap Shown
  OBVIOUS
<1>2. v \in SUBSET Links /\ row.links = row["links"]
  BY <1>1, RecordParts
<1>3. s = [row EXCEPT !["links"] = v]
  BY <1>1, <1>2
<1>4. s \in Record /\ s["links"] = v /\ s["name"] = row["name"] /\ s["file"] = row["file"]
  BY <1>2, <1>3 DEF Record
<1>5. s.links = s["links"]
  BY <1>4, RecordParts
<1> QED BY <1>1, <1>4, <1>5

LEMMA ReadRowFits ==
  ASSUME TableFits, NEW r \in DOMAIN records
  PROVE  /\ ReadRow(r) \in Record /\ ReadRow(r).links \subseteq Shown
         /\ ReadRow(r)["name"] = records[r]["name"] /\ ReadRow(r)["file"] = records[r]["file"]
         /\ ReadRow(r)["links"] = records[r]["links"] \cap Shown
<1>1. PICK row : row = records[r] /\ row \in Record
  BY DEF TableFits
<1>2. PICK s : s = ReadRow(r) /\ s = [row EXCEPT !.links = @ \cap Shown]
  BY <1>1 DEF ReadRow
<1> QED BY <1>1, <1>2, LinksNarrowed

LEMMA RecordsEqual ==
  ASSUME NEW r \in Record, NEW s \in Record, \A f \in Fields : r[f] = s[f] PROVE r = s
BY RecordParts

LEMMA FormStarts == FormInit => FormInv
<1> SUFFICES ASSUME FormInit PROVE FormInv
  OBVIOUS
<1> USE FormAssumption DEF FormAssumption
<1>1. ScreenFits
  BY ScalarsAre DEF FormInit, ScreenFits, isNew
<1>2. TableFits
  BY ScalarsAre DEF FormInit, TableFits
<1>3. LoadsFit
  <2>1. CASE formId = Blank
    BY <2>1 DEF FormInit, LoadsFit, isNew, Alone
  <2>2. CASE formId # Blank
    <3>1. LoadOf(formId) \in FormLoad /\ LoadOf(formId).row = BlankRecord /\ LoadOf(formId).id = formId
          /\ LoadOf(formId).stage = "asked"
      BY <1>1, <2>2, ScalarsAre DEF LoadOf, FormLoad, ScreenFits
    <3>2. FormLoadFits(LoadOf(formId))
      BY <2>2, <3>1, ScalarsAre DEF FormInit, FormLoadFits, isNew
    <3> QED BY <2>2, <3>2 DEF FormInit, LoadsFit, isNew, Alone
  <2> QED BY <2>1, <2>2
<1>4. WritesFit /\ (\A u \in uploads : UploadFits(u)) /\ (~loading /\ ~mixed => SetHere(initial))
  BY DEF FormInit, WritesFit, Alone, SetHere
<1>5. BaseFits /\ LinksHold
  BY DEF FormInit, BaseFits, LinksHold, Found, isNew
<1> QED BY <1>1, <1>2, <1>3, <1>4, <1>5 DEF FormInv

\* What a step leaves alone keeps fitting.
LEMMA StillLoads ==
  ASSUME LoadsFit, UNCHANGED <<formId, formLoads, loading, records>>, doubtful => doubtful'
  PROVE  LoadsFit'
<1>1. ASSUME NEW l \in formLoads PROVE FormLoadFits(l)'
  <2>1. FormLoadFits(l)
    BY DEF LoadsFit
  <2> QED BY <2>1 DEF FormLoadFits, Found, ReadRow
<1> QED BY <1>1 DEF LoadsFit, Alone

LEMMA StillWrites ==
  ASSUME WritesFit, UNCHANGED <<formId, formWrites, loading, initial, moves>>, mixed => mixed',
         \A w \in formWrites : w.at = moves /\ ~mixed' => SetHere(w.values)'
  PROVE  WritesFit'
<1>1. ASSUME NEW w \in formWrites PROVE FormWriteFits(w)'
  <2>1. FormWriteFits(w)
    BY DEF WritesFit
  <2> QED BY <2>1 DEF FormWriteFits
<1> QED BY <1>1 DEF WritesFit, Alone

LEMMA StillUploads ==
  ASSUME \A u \in uploads : UploadFits(u), uploads' \subseteq uploads, UNCHANGED <<formId, moves>>
  PROVE  (\A u \in uploads : UploadFits(u))'
BY DEF UploadFits

LEMMA StillTyped ==
  ASSUME NEW base, SetHere(base), UNCHANGED <<values, touched, formId>>
  PROVE  /\ \A f \in Fields : values'[f] # base[f] =>
              f \in touched' /\ (f # "links" => Belongs(values'[f], formId'))
         /\ \A o \in Shown \ touched' : o \in values'["links"] <=> o \in base["links"]
BY DEF SetHere

LEMMA StillLinks ==
  ASSUME LinksHold, formWrites' \subseteq formWrites, records' = records \/ doubtful', doubtful => doubtful'
  PROVE  LinksHold'
<1>1. ASSUME NEW w \in formWrites PROVE LinksStand(w)'
  <2>1. LinksStand(w)
    BY DEF LinksHold
  <2> QED BY <2>1 DEF LinksStand, Found
<1> QED BY <1>1 DEF LinksHold

LEMMA StillBase ==
  ASSUME BaseFits, UNCHANGED <<formId, initial, loading, records, formWrites, moves>>,
         mixed => mixed', doubtful => doubtful'
  PROVE  BaseFits'
BY DEF BaseFits, Found, ReadRow, SavedHere

LEMMA LoadCancelled ==
  ASSUME NEW l \in FormLoad, NEW k, k = [l EXCEPT !.cancelled = TRUE]
  PROVE  k \in FormLoad /\ k.cancelled = TRUE /\ k.row = l.row
BY DEF FormLoad

LEMMA UploadLeft ==
  ASSUME NEW u \in FormUpload, NEW v, v = [u EXCEPT !.busy = FALSE]
  PROVE  v \in FormUpload /\ v.at = u.at
BY DEF FormUpload

LEMMA LaterMove ==
  ASSUME moves \in Nat, NEW n \in Nat, n <= moves, moves' = moves + 1
  PROVE  moves' \in Nat /\ n <= moves' /\ n # moves'
OBVIOUS

LEMMA OpenRecordKeeps ==
  ASSUME FormInv, NEW r \in Records \cup {Blank}, OpenRecord(r) PROVE FormInv'
<1>1. /\ formId' = r /\ moves' = moves + 1 /\ touched' = {} /\ moves \in Nat
      /\ UNCHANGED <<formWrites, records, born, doubtful>>
  BY DEF OpenRecord, FormInv, ScreenFits
<1>2. ScreenFits'
  <2>1. /\ values' \in Record /\ initial' \in Record /\ values'.links \subseteq Shown /\ initial'.links \subseteq Shown
        /\ mixed' \in BOOLEAN /\ loading' \in BOOLEAN
    BY ScalarsAre DEF OpenRecord, FormInv, ScreenFits
  <2>2. moves' \in Nat /\ doubtful' \in BOOLEAN
    BY <1>1 DEF FormInv, ScreenFits
  <2> QED BY <1>1, <2>1, <2>2 DEF ScreenFits
<1>3. TableFits'
  BY <1>1 DEF FormInv, TableFits
<1>4. LoadsFit'
  <2>1. ASSUME NEW l \in formLoads, NEW k, k = [l EXCEPT !.cancelled = TRUE]
        PROVE  FormLoadFits(k)' /\ k.cancelled = TRUE
    <3>1. l \in FormLoad /\ l.row.links \subseteq Shown
      BY DEF FormInv, LoadsFit, FormLoadFits
    <3> QED BY <2>1, <3>1, LoadCancelled DEF FormLoadFits
  <2>2. CASE r = Blank
    <3>1. formLoads' = {[l EXCEPT !.cancelled = TRUE] : l \in formLoads}
      BY <2>2 DEF OpenRecord
    <3> QED BY <2>1, <3>1 DEF LoadsFit, Alone
  <2>3. CASE r # Blank
    <3>1. formLoads' = {[l EXCEPT !.cancelled = TRUE] : l \in formLoads} \cup {LoadOf(r)} /\ loading' = TRUE
      BY <2>3 DEF OpenRecord
    <3>2. /\ LoadOf(r) \in FormLoad /\ LoadOf(r).row = BlankRecord /\ LoadOf(r).id = r
          /\ LoadOf(r).stage = "asked"
      BY <2>3, ScalarsAre DEF LoadOf, FormLoad
    <3>3. FormLoadFits(LoadOf(r))'
      BY <1>1, <3>1, <3>2, ScalarsAre DEF FormLoadFits
    <3> QED BY <2>1, <3>1, <3>3 DEF LoadsFit, Alone
  <2> QED BY <2>2, <2>3
<1>5. WritesFit'
  <2>1. ASSUME NEW w \in formWrites PROVE FormWriteFits(w)'
    <3>1. FormWriteFits(w) /\ w.at \in Nat /\ w.at <= moves
      BY DEF FormInv, WritesFit, FormWriteFits, FormWrite
    <3>2. w.at <= moves' /\ w.at # moves'
      BY <1>1, <3>1, LaterMove
    <3> QED BY <3>1, <3>2 DEF FormWriteFits
  <2> QED BY <1>1, <2>1 DEF FormInv, WritesFit, Alone
<1>6. (\A u \in uploads : UploadFits(u))'
  <2>1. ASSUME NEW u \in uploads PROVE u \in FormUpload /\ u.at <= moves' /\ u.at # moves'
    <3>1. u \in FormUpload /\ u.at \in Nat /\ u.at <= moves
      BY DEF FormInv, UploadFits, FormUpload
    <3> QED BY <1>1, <3>1, LaterMove
  <2>2. uploads' = uploads \/ uploads' = {[u EXCEPT !.busy = FALSE] : u \in uploads}
    BY DEF OpenRecord
  <2>3. ASSUME NEW u \in uploads, NEW v, v = [u EXCEPT !.busy = FALSE] PROVE UploadFits(v)'
    BY <2>1, <2>3, UploadLeft DEF UploadFits
  <2>4. ASSUME NEW u \in uploads PROVE UploadFits(u)'
    BY <2>1 DEF UploadFits
  <2> QED BY <2>2, <2>3, <2>4
<1>7. (~loading /\ ~mixed => SetHere(initial))'
  BY DEF OpenRecord, SetHere
<1>8. BaseFits'
  BY <1>1, FormAssumption DEF OpenRecord, BaseFits, Found, FormInv, TableFits, FormAssumption
<1>9. LinksHold'
  BY <1>1, StillLinks DEF FormInv
<1> QED BY <1>2, <1>3, <1>4, <1>5, <1>6, <1>7, <1>8, <1>9 DEF FormInv

LEMMA AnswerLoadKeeps == ASSUME FormInv, NEW l \in formLoads, AnswerLoad(l) PROVE FormInv'
<1>1. l \in FormLoad /\ FormLoadFits(l) /\ l.id \in DOMAIN records
  BY DEF AnswerLoad, Found, FormInv, LoadsFit, FormLoadFits
<1>2. PICK k : k = [l EXCEPT !.stage = "read", !.row = ReadRow(l.id)]
  OBVIOUS
<1>3. /\ formLoads' = (formLoads \ {l}) \cup {k}
      /\ UNCHANGED <<formId, values, initial, formWrites, uploads, loading, records, born, touched, mixed, doubtful, moves>>
  BY <1>2 DEF AnswerLoad, formBounds
<1>4. ReadRow(l.id) \in Record /\ ReadRow(l.id).links \subseteq Shown
  BY <1>1, ReadRowFits DEF FormInv
<1>5. k \in FormLoad /\ k.id = l.id /\ k.cancelled = l.cancelled /\ k.row = ReadRow(l.id)
  BY <1>1, <1>2, <1>4 DEF FormLoad
<1>6. LoadsFit'
  <2>1. FormLoadFits(k)'
    BY <1>1, <1>3, <1>4, <1>5 DEF FormLoadFits, Found, ReadRow
  <2>2. ASSUME NEW m \in formLoads PROVE FormLoadFits(m)'
    <3>1. FormLoadFits(m)
      BY DEF FormInv, LoadsFit
    <3> QED BY <1>3, <3>1 DEF FormLoadFits, Found, ReadRow
  <2>3. Alone({m \in formLoads : ~m.cancelled})'
    BY <1>3, <1>5 DEF FormInv, LoadsFit, Alone
  <2> QED BY <1>3, <2>1, <2>2, <2>3 DEF LoadsFit
<1>7. ScreenFits' /\ TableFits'
  BY <1>3 DEF FormInv, ScreenFits, TableFits
<1>8. SetHere(initial)' <=> SetHere(initial)
  BY <1>3 DEF SetHere
<1>9. WritesFit'
  <2>1. ASSUME NEW w \in formWrites, w.at = moves, ~mixed' PROVE SetHere(w.values)'
    <3>1. SetHere(w.values)
      BY <1>3, <2>1 DEF FormInv, WritesFit, FormWriteFits
    <3> QED BY <1>3, <3>1 DEF SetHere
  <2> QED BY <1>3, <2>1, StillWrites DEF FormInv
<1>10. LinksHold'
  BY <1>3, StillLinks DEF FormInv
<1> QED BY <1>3, <1>6, <1>7, <1>8, <1>9, <1>10, StillUploads, StillBase DEF FormInv

LEMMA LoadArrivesKeeps == ASSUME FormInv, NEW l \in formLoads, LoadArrives(l) PROVE FormInv'
<1>1. l \in FormLoad /\ FormLoadFits(l) /\ l.cancelled \in BOOLEAN
  BY DEF FormInv, LoadsFit, FormLoadFits, FormLoad
<1>2. /\ formLoads' = formLoads \ {l}
      /\ UNCHANGED <<formId, formWrites, uploads, records, born, doubtful, moves>>
  BY DEF LoadArrives, formBounds
<1>3. (\A u \in uploads : UploadFits(u))' /\ TableFits' /\ LinksHold'
  BY <1>2, StillUploads, StillLinks DEF FormInv, TableFits
<1>4. CASE l.cancelled
  <2>1. UNCHANGED <<values, initial, loading, touched, mixed>>
    BY <1>4 DEF LoadArrives, Ignored
  <2>2. LoadsFit'
    <3>1. ASSUME NEW m \in formLoads PROVE FormLoadFits(m)'
      <4>1. FormLoadFits(m)
        BY DEF FormInv, LoadsFit
      <4> QED BY <1>2, <2>1, <4>1 DEF FormLoadFits, Found, ReadRow
    <3> QED BY <1>2, <3>1 DEF FormInv, LoadsFit, Alone
  <2>3. WritesFit'
    <3>1. ASSUME NEW w \in formWrites, w.at = moves, ~mixed' PROVE SetHere(w.values)'
      <4>1. SetHere(w.values)
        BY <2>1, <3>1 DEF FormInv, WritesFit, FormWriteFits
      <4> QED BY <1>2, <2>1, <4>1 DEF SetHere
    <3> QED BY <1>2, <2>1, <3>1, StillWrites DEF FormInv
  <2>4. ScreenFits' /\ (~loading /\ ~mixed => SetHere(initial))'
    BY <1>2, <2>1 DEF FormInv, ScreenFits, SetHere
  <2> QED BY <1>2, <1>3, <2>1, <2>2, <2>3, <2>4, StillBase DEF FormInv
<1>5. CASE ~l.cancelled
  <2>1. /\ loading' = FALSE /\ loading /\ l.id = formId
        /\ l.stage = "read" => values' = l.row /\ initial' = l.row /\ mixed' = FALSE /\ touched' = {}
        /\ l.stage # "read" => mixed' = TRUE /\ UNCHANGED <<values, initial, touched>>
    BY <1>1, <1>5 DEF LoadArrives, Ignored, FormLoadFits
  <2>2. LoadsFit'
    <3>1. ASSUME NEW m \in formLoads \ {l} PROVE FormLoadFits(m)' /\ m.cancelled
      <4>1. FormLoadFits(m) /\ m.cancelled
        BY <1>5 DEF FormInv, LoadsFit, Alone
      <4> QED BY <4>1 DEF FormLoadFits
    <3> QED BY <1>2, <3>1 DEF LoadsFit, Alone
  <2>3. WritesFit'
    <3>1. ASSUME NEW w \in formWrites PROVE FormWriteFits(w)'
      <4>1. FormWriteFits(w) /\ w.at # moves
        BY <2>1 DEF FormInv, WritesFit, FormWriteFits
      <4> QED BY <1>2, <4>1 DEF FormWriteFits
    <3> QED BY <1>2, <3>1 DEF FormInv, WritesFit, Alone
  <2>4. ScreenFits'
    BY <1>1, <1>2, <2>1 DEF FormInv, ScreenFits, FormLoad, FormLoadFits
  <2>5. (~loading /\ ~mixed => SetHere(initial))'
    BY <2>1 DEF SetHere
  <2>6. BaseFits'
    <3>1. ASSUME NEW w \in formWrites PROVE ~SavedHere(w)'
      BY <1>2, <2>1 DEF FormInv, WritesFit, FormWriteFits, SavedHere
    <3>2. l.stage = "read" /\ ~doubtful /\ Found(formId) => l.row = ReadRow(formId)
      BY <1>1, <1>5, <2>1 DEF FormLoadFits
    <3> QED BY <1>2, <2>1, <3>1, <3>2 DEF BaseFits, Found, ReadRow
  <2> QED BY <1>3, <2>2, <2>3, <2>4, <2>5, <2>6 DEF FormInv
<1> QED BY <1>1, <1>4, <1>5

LEMMA SetKeeps ==
  ASSUME FormInv, NEW f \in Fields, NEW v, values' = [values EXCEPT ![f] = v],
         touched \cup {f} \subseteq touched', touched' \subseteq Fields \cup Links,
         f # "links" => v \in Scalar /\ (~mixed' => Belongs(v, formId)),
         f = "links" => v \in SUBSET Shown /\ \A o \in Shown \ touched' : o \in v <=> o \in values["links"],
         UNCHANGED <<formId, initial, formLoads, formWrites, loading, records, born, doubtful, moves>>,
         mixed' \in BOOLEAN, mixed => mixed', (\A u \in uploads : UploadFits(u))'
  PROVE  FormInv'
<1>1. v \in (IF f = "links" THEN SUBSET Links ELSE Scalar) /\ values \in Record
  BY FormAssumption DEF FormAssumption, FormInv, ScreenFits
<1>2. PICK s : s = values' /\ s = [values EXCEPT ![f] = v]
  OBVIOUS
<1>3. s \in Record /\ s[f] = v /\ \A g \in Fields \ {f} : s[g] = values[g]
  <2>1. PICK r \in Record : r = values /\ s = [r EXCEPT ![f] = v]
    BY <1>1, <1>2
  <2>2. s \in Record
    BY <1>1, <2>1, RecordSet
  <2>3. s[f] = v
    <3>1. DOMAIN r = Fields
      BY <2>1, RecordParts
    <3> QED BY <2>1, <3>1
  <2>4. \A g \in Fields \ {f} : s[g] = r[g]
    BY <1>1, <2>1, RecordSet
  <2> QED BY <2>1, <2>2, <2>3, <2>4
<1>4. s.links \subseteq Shown
  <2>1. s.links = s["links"] /\ values.links = values["links"] /\ "links" \in Fields
    BY <1>3, RecordParts DEF FormInv, ScreenFits, Fields
  <2> QED BY <1>3, <2>1 DEF FormInv, ScreenFits
<1>5. ScreenFits' /\ TableFits'
  BY <1>2, <1>3, <1>4 DEF FormInv, ScreenFits, TableFits
<1>6. ASSUME NEW base, SetHere(base), ~mixed'
      PROVE  /\ \A g \in Fields : values'[g] # base[g] =>
                  g \in touched' /\ (g # "links" => Belongs(values'[g], formId'))
             /\ \A o \in Shown \ touched' : o \in values'["links"] <=> o \in base["links"]
  <2>1. \A g \in Fields : values'[g] # base[g] =>
          g \in touched' /\ (g # "links" => Belongs(values'[g], formId'))
    BY <1>2, <1>3, <1>6 DEF SetHere
  <2>2. \A o \in Shown \ touched' : o \in values'["links"] <=> o \in values["links"]
    BY <1>2, <1>3 DEF Fields
  <2>3. \A o \in Shown \ touched' : o \in values["links"] <=> o \in base["links"]
    BY <1>6 DEF SetHere
  <2> QED BY <2>1, <2>2, <2>3
<1>7. WritesFit'
  <2>1. ASSUME NEW w \in formWrites, w.at = moves, ~mixed' PROVE SetHere(w.values)'
    <3>1. SetHere(w.values)
      BY <2>1 DEF FormInv, WritesFit, FormWriteFits
    <3> QED BY <1>6, <2>1, <3>1 DEF SetHere
  <2> QED BY <2>1, StillWrites DEF FormInv
<1>8. (~loading /\ ~mixed => SetHere(initial))'
  BY <1>6 DEF FormInv, SetHere
<1> QED BY <1>5, <1>7, <1>8, StillLoads, StillBase, StillLinks DEF FormInv

LEMMA FieldSetKeeps ==
  ASSUME FormInv, NEW f \in Fields \ {"links"}, NEW v \in Scalar, SetField(f, v),
         ~mixed' => Belongs(v, formId),
         UNCHANGED <<formId, initial, formLoads, formWrites, loading, records, born, doubtful, moves>>,
         mixed' \in BOOLEAN, mixed => mixed', (\A u \in uploads : UploadFits(u))'
  PROVE  FormInv'
<1>1. values' = [values EXCEPT ![f] = v] /\ touched' = touched \cup {f}
  BY DEF SetField
<1>2. touched' \subseteq Fields \cup Links
  BY <1>1 DEF FormInv, ScreenFits
<1> QED BY <1>1, <1>2, SetKeeps

LEMMA EditFieldKeeps == ASSUME FormInv, EditField PROVE FormInv'
<1>1. UNCHANGED <<formId, initial, formLoads, formWrites, uploads, loading, records, born, mixed, doubtful, moves>>
  BY DEF EditField
<1>2. mixed' \in BOOLEAN /\ (mixed => mixed') /\ (\A u \in uploads : UploadFits(u))'
  BY <1>1, StillUploads DEF FormInv, ScreenFits
<1>3. formId \in Records \cup {Blank}
  BY DEF FormInv, ScreenFits
<1>4. CASE SetField("name", [of |-> formId, n |-> 1])
  <2>1. [of |-> formId, n |-> 1] \in Scalar /\ Belongs([of |-> formId, n |-> 1], formId)
    BY <1>3, ScalarsAre DEF Belongs
  <2> QED BY <1>1, <1>2, <1>4, <2>1, FieldSetKeeps DEF Fields
<1>5. CASE SetField("file", Null)
  <2>1. Null \in Scalar /\ Belongs(Null, formId)
    BY ScalarsAre DEF Belongs, Null
  <2> QED BY <1>1, <1>2, <1>5, <2>1, FieldSetKeeps DEF Fields
<1>6. CASE \E o \in Shown : ToggleOption(o)
  <2>1. PICK o \in Shown : ToggleOption(o)
    BY <1>6
  <2>2. PICK v : v = Options((values.links \ {o}) \cup ({o} \ values.links))
    OBVIOUS
  <2>3. values' = [values EXCEPT !["links"] = v] /\ touched' = touched \cup {"links", o}
    BY <2>1, <2>2 DEF ToggleOption
  <2>4. values.links = values["links"] /\ values.links \subseteq Shown
    BY RecordParts DEF FormInv, ScreenFits
  <2>5. v \in SUBSET Shown /\ \A k \in Shown \ touched' : k \in v <=> k \in values["links"]
    BY <2>2, <2>3, <2>4 DEF Options
  <2>6. /\ touched \cup {"links"} \subseteq touched' /\ touched' \subseteq Fields \cup Links
        /\ "links" \in Fields
    BY <2>3, FormAssumption DEF FormAssumption, FormInv, ScreenFits, Fields
  <2> QED BY <1>1, <1>2, <2>3, <2>5, <2>6, SetKeeps
<1> QED BY <1>4, <1>5, <1>6 DEF EditField

LEMMA UploadArrivesKeeps == ASSUME FormInv, NEW u \in uploads, UploadArrives(u) PROVE FormInv'
<1>1. /\ uploads' = uploads \ {u}
      /\ UNCHANGED <<formId, initial, formLoads, formWrites, loading, records, born, doubtful, moves>>
  BY DEF UploadArrives, formBounds
<1>2. (\A x \in uploads : UploadFits(x))'
  BY <1>1, StillUploads DEF FormInv
<1>3. u \in FormUpload /\ u.of \in Records \cup {Blank} /\ (u.at = moves => u.of = formId) /\ mixed \in BOOLEAN
  BY DEF FormInv, UploadFits, FormUpload, ScreenFits
<1>4. CASE SetField("file", [of |-> u.of, n |-> 1]) /\ mixed' = (mixed \/ u.at # moves)
  <2>1. [of |-> u.of, n |-> 1] \in Scalar
    BY <1>3, ScalarsAre
  <2>2. ~mixed' => Belongs([of |-> u.of, n |-> 1], formId)
    BY <1>3, <1>4 DEF Belongs
  <2>3. mixed' \in BOOLEAN /\ (mixed => mixed') /\ "file" \in Fields \ {"links"}
    BY <1>3, <1>4 DEF Fields
  <2> QED BY <1>1, <1>2, <1>4, <2>1, <2>2, <2>3, FieldSetKeeps
<1>5. CASE UNCHANGED <<values, touched, mixed>>
  <2>1. WritesFit'
    <3>1. ASSUME NEW w \in formWrites, w.at = moves, ~mixed' PROVE SetHere(w.values)'
      <4>1. SetHere(w.values)
        BY <1>5, <3>1 DEF FormInv, WritesFit, FormWriteFits
      <4> QED BY <1>1, <1>5, <4>1 DEF SetHere
    <3> QED BY <1>1, <1>5, <3>1, StillWrites DEF FormInv
  <2>2. ScreenFits' /\ TableFits' /\ (~loading /\ ~mixed => SetHere(initial))'
    BY <1>1, <1>5 DEF FormInv, ScreenFits, TableFits, SetHere
  <2> QED BY <1>1, <1>2, <1>5, <2>1, <2>2, StillLoads, StillBase, StillLinks DEF FormInv
<1> QED BY <1>4, <1>5 DEF UploadArrives

\* A step that leaves the values, the loads and the writes alone.
LEMMA ScreenStill ==
  ASSUME FormInv, UNCHANGED <<formId, values, initial, formLoads, formWrites, loading, born, touched, mixed, moves>>,
         records' = records \/ doubtful', doubtful => doubtful', doubtful' \in BOOLEAN,
         TableFits', (\A u \in uploads : UploadFits(u))'
  PROVE  FormInv'
<1>1. LoadsFit'
  <2>1. ASSUME NEW l \in formLoads PROVE FormLoadFits(l)'
    <3>1. FormLoadFits(l)
      BY DEF FormInv, LoadsFit
    <3> QED BY <3>1 DEF FormLoadFits, Found, ReadRow
  <2> QED BY <2>1 DEF FormInv, LoadsFit, Alone
<1>2. WritesFit'
  <2>1. ASSUME NEW w \in formWrites, w.at = moves, ~mixed' PROVE SetHere(w.values)'
    <3>1. SetHere(w.values)
      BY <2>1 DEF FormInv, WritesFit, FormWriteFits
    <3> QED BY <3>1 DEF SetHere
  <2> QED BY <2>1, StillWrites DEF FormInv
<1>3. BaseFits'
  BY DEF FormInv, BaseFits, Found, ReadRow, SavedHere
<1>4. ScreenFits' /\ (~loading /\ ~mixed => SetHere(initial))'
  BY DEF FormInv, ScreenFits, SetHere
<1>5. LinksHold'
  BY StillLinks DEF FormInv
<1> QED BY <1>1, <1>2, <1>3, <1>4, <1>5 DEF FormInv

LEMMA PickFileKeeps == ASSUME FormInv, PickFile PROVE FormInv'
<1>1. PICK u : u = [of |-> formId, at |-> moves, busy |-> TRUE]
  OBVIOUS
<1>2. uploads' = uploads \cup {u} /\ UNCHANGED <<formId, values, initial, formLoads, formWrites, loading, records, born, touched, mixed, doubtful, moves>>
  BY <1>1 DEF PickFile
<1>3. formId \in Records \cup {Blank} /\ moves \in Nat /\ doubtful \in BOOLEAN
  BY DEF FormInv, ScreenFits
<1>4. u \in FormUpload /\ u.at = moves /\ u.of = formId
  BY <1>1, <1>3 DEF FormUpload
<1>5. u.at <= moves
  BY <1>3, <1>4
<1>6. (\A x \in uploads : UploadFits(x))'
  BY <1>2, <1>4, <1>5 DEF FormInv, UploadFits
<1> QED BY <1>2, <1>3, <1>6, ScreenStill DEF FormInv, TableFits

LEMMA OthersEditKeeps == ASSUME FormInv, NEW r \in Records, OthersEdit(r) PROVE FormInv'
<1>1. /\ r \in DOMAIN records /\ doubtful' = TRUE
      /\ records' = [records EXCEPT ![r] = [records[r] EXCEPT !["name"] = [of |-> r, n |-> 2]]]
      /\ UNCHANGED <<formId, values, initial, formLoads, formWrites, uploads, loading, born, touched, mixed, moves>>
  BY DEF OthersEdit, Found
<1>2. PICK s : s = [records[r] EXCEPT !["name"] = [of |-> r, n |-> 2]]
  OBVIOUS
<1>3. records[r] \in Record /\ [of |-> r, n |-> 2] \in Scalar
  BY <1>1, ScalarsAre DEF FormInv, TableFits
<1>4. s \in Record
  BY <1>2, <1>3 DEF Record
<1>5. TableFits'
  BY <1>1, <1>2, <1>4 DEF FormInv, TableFits
<1> QED BY <1>1, <1>5, StillUploads, ScreenStill DEF FormInv

LEMMA DiscardKeeps == ASSUME FormInv, Discard PROVE FormInv'
<1>1. /\ values' = initial /\ formWrites = {}
      /\ UNCHANGED <<formId, initial, formLoads, formWrites, uploads, loading, records, born, touched, mixed, doubtful, moves>>
  BY DEF Discard, formBounds
<1>2. WritesFit' /\ (~loading /\ ~mixed => SetHere(initial))'
  BY <1>1 DEF WritesFit, Alone, SetHere
<1>3. ScreenFits' /\ TableFits'
  BY <1>1 DEF FormInv, ScreenFits, TableFits
<1> QED BY <1>1, <1>2, <1>3, StillLoads, StillUploads, StillBase, StillLinks DEF FormInv

LEMMA CallKeeps ==
  ASSUME FormInv, NEW kind \in {"save", "delete"}, NEW sends \in SUBSET Fields, Call(kind, sends),
         kind = "save" => sends = Payload, kind = "delete" => ~isNew /\ sends = {}
  PROVE  FormInv'
<1>1. PICK w : w = [kind |-> kind, id |-> formId, at |-> moves, sends |-> sends,
                    values |-> values, touched |-> touched, mixed |-> mixed, stage |-> "sent"]
  OBVIOUS
<1>2. /\ ~loading /\ formWrites = {} /\ formWrites' = {w}
      /\ UNCHANGED <<formId, values, initial, formLoads, uploads, loading, records, born, touched, mixed, doubtful, moves>>
  BY <1>1 DEF Call
<1>3. /\ w.kind = kind /\ w.id = formId /\ w.at = moves /\ w.sends = sends /\ w.values = values
      /\ w.touched = touched /\ w.mixed = mixed /\ w.stage = "sent"
  BY <1>1
<1>4. w \in FormWrite /\ w.values.links \subseteq Shown /\ moves \in Nat
  BY <1>1 DEF FormInv, ScreenFits, FormWrite
<1>5. w.at <= moves
  BY <1>3, <1>4
<1>6. ~w.mixed /\ w.id # Blank =>
        \A f \in w.sends : f \in w.touched /\ (f # "links" => Belongs(w.values[f], w.id))
  BY <1>2, <1>3 DEF FormInv, SetHere, Payload, isNew
<1>7. kind = "save" => \A f \in Fields \ w.sends : w.values[f] = initial[f]
  BY <1>3 DEF Payload
<1>8. FormWriteFits(w)'
  BY <1>2, <1>3, <1>4, <1>5, <1>6, <1>7 DEF FormWriteFits, SetHere, isNew
<1>9. WritesFit'
  BY <1>2, <1>8 DEF WritesFit, Alone
<1>10. ScreenFits' /\ TableFits' /\ (~loading /\ ~mixed => SetHere(initial))'
  BY <1>2 DEF FormInv, ScreenFits, TableFits, SetHere
<1>11. BaseFits'
  BY <1>2, <1>3 DEF FormInv, BaseFits, SavedHere, Found, ReadRow
<1>12. LinksStand(w)
  <2> SUFFICES ASSUME ~mixed, ~doubtful, Found(formId), NEW o \in Shown \ touched
               PROVE  o \in values["links"] <=> o \in records[formId]["links"]
    BY <1>3 DEF LinksStand
  <2>1. initial = ReadRow(formId) /\ SetHere(initial)
    BY <1>2 DEF FormInv, BaseFits
  <2>2. ReadRow(formId)["links"] = records[formId]["links"] \cap Shown
    BY ReadRowFits DEF FormInv, Found
  <2> QED BY <2>1, <2>2 DEF SetHere
<1>13. LinksHold'
  BY <1>2, <1>12 DEF LinksHold, LinksStand, Found
<1> QED BY <1>2, <1>9, <1>10, <1>11, <1>13, StillLoads, StillUploads DEF FormInv

LEMMA SaveKeeps == ASSUME FormInv, Save PROVE FormInv'
<1>1. Call("save", Payload) /\ Payload \in SUBSET Fields
  BY DEF Save, Payload
<1> QED BY <1>1, CallKeeps

LEMMA DeleteKeeps == ASSUME FormInv, Delete PROVE FormInv'
<1>1. Call("delete", {}) /\ ~isNew /\ {} \in SUBSET Fields
  BY DEF Delete
<1> QED BY <1>1, CallKeeps

LEMMA StageSet ==
  ASSUME NEW w \in FormWrite, NEW st \in {"done", "failed"}, NEW k, k = [w EXCEPT !.stage = st]
  PROVE  /\ k \in FormWrite /\ k.kind = w.kind /\ k.id = w.id /\ k.at = w.at /\ k.sends = w.sends
         /\ k.values = w.values /\ k.touched = w.touched /\ k.mixed = w.mixed /\ k.stage = st
BY DEF FormWrite

\* What a save makes of the row.
LEMMA SavedRowIs ==
  ASSUME NEW row \in Record, NEW values1 \in Record, NEW sends \in SUBSET Fields, NEW s,
         s = [f \in Fields |-> IF f \in sends THEN values1[f] ELSE row[f]]
  PROVE  s \in Record /\ \A f \in Fields : s[f] = IF f \in sends THEN values1[f] ELSE row[f]
<1>1. s = [f \in Fields |-> s[f]] /\ \A f \in Fields : s[f] = IF f \in sends THEN values1[f] ELSE row[f]
  OBVIOUS
<1>2. /\ row["name"] \in Scalar /\ row["file"] \in Scalar /\ row["links"] \in SUBSET Links
      /\ values1["name"] \in Scalar /\ values1["file"] \in Scalar /\ values1["links"] \in SUBSET Links
  BY RecordParts
<1>3. s["name"] \in Scalar /\ s["file"] \in Scalar /\ s["links"] \in SUBSET Links
  BY <1>1, <1>2 DEF Fields
<1>4. s \in Record
  BY <1>1, <1>3, RecordMade
<1> QED BY <1>1, <1>4, Zenon

LEMMA WrittenFits ==
  ASSUME TableFits, NEW w \in FormWrite, w.id = Blank \/ Found(w.id), records' \in Written(w),
         w.kind = "delete" => w.id # Blank, born' = born \cup DOMAIN records'
  PROVE  TableFits'
<1>1. CASE w.kind = "delete"
  BY <1>1 DEF TableFits, Written, RowsBut
<1>2. CASE w.kind # "delete" /\ w.id = Blank
  <2>1. PICK r \in Records \ born :
          records' = [s \in DOMAIN records \cup {r} |-> IF s = r THEN w.values ELSE records[s]]
    BY <1>2 DEF Written, RowsWith
  <2>2. w.values \in Record
    BY DEF FormWrite
  <2> QED BY <2>1, <2>2 DEF TableFits
<1>3. CASE w.kind # "delete" /\ w.id # Blank
  <2>1. PICK s : /\ s = [f \in Fields |-> IF f \in w.sends THEN w.values[f] ELSE records[w.id][f]]
                 /\ records' = [records EXCEPT ![w.id] = s]
    BY <1>3 DEF Written
  <2>2. records[w.id] \in Record /\ w.values \in Record /\ w.sends \in SUBSET Fields
    BY <1>3 DEF TableFits, Found, FormWrite
  <2>3. s \in Record
    BY <2>1, <2>2, SavedRowIs
  <2> QED BY <2>1, <2>3 DEF TableFits
<1> QED BY <1>1, <1>2, <1>3

LEMMA DeletedRow ==
  ASSUME NEW w \in FormWrite, w.kind = "delete", records' \in Written(w)
  PROVE  \A r \in DOMAIN records' : r # w.id /\ r \in DOMAIN records /\ records'[r] = records[r]
<1>1. records' = RowsBut(w.id)
  BY DEF Written
<1>2. \A r \in DOMAIN records' : r # w.id /\ r \in DOMAIN records
  BY <1>1 DEF RowsBut
<1>3. \A r \in DOMAIN records \ {w.id} : records'[r] = records[r]
  BY <1>1 DEF RowsBut
<1> QED BY <1>2, <1>3

\* A save for the record on screen is answered by the row it leaves.
LEMMA SavedIsRead ==
  ASSUME FormInv, NEW w \in formWrites, w.stage = "sent", w.at = moves, w.kind = "save", Found(w.id),
         records' \in Written(w), TableFits', formId' = formId, ~mixed, ~doubtful
  PROVE  w.values = ReadRow(formId)'
<1>1. /\ w \in FormWrite /\ FormWriteFits(w) /\ w.id = formId /\ ~loading
      /\ \A f \in Fields \ w.sends : w.values[f] = initial[f]
  BY DEF FormInv, WritesFit, FormWriteFits
<1>2. initial = ReadRow(formId)
  BY <1>1 DEF FormInv, BaseFits, WritesFit, Alone, SavedHere
<1>3. formId # Blank /\ formId \in DOMAIN records /\ records[formId] \in Record
  BY <1>1, FormAssumption DEF FormAssumption, Found, FormInv, TableFits
<1>4. PICK s : /\ s = [f \in Fields |-> IF f \in w.sends THEN w.values[f] ELSE records[formId][f]]
               /\ records' = [records EXCEPT ![formId] = s]
  BY <1>1, <1>3 DEF Written
<1>5. w.values \in Record /\ w.sends \in SUBSET Fields
  BY <1>1 DEF FormWrite
<1>6. s \in Record /\ \A f \in Fields : s[f] = IF f \in w.sends THEN w.values[f] ELSE records[formId][f]
  BY <1>3, <1>4, <1>5, SavedRowIs
<1>7. PICK t : t = ReadRow(formId)' /\ t = [s EXCEPT !.links = @ \cap Shown]
  <2>1. records'[formId] = s
    BY <1>3, <1>4
  <2> QED BY <2>1 DEF ReadRow
<1>8. /\ t \in Record /\ t["name"] = s["name"] /\ t["file"] = s["file"] /\ t["links"] = s["links"] \cap Shown
  BY <1>6, <1>7, LinksNarrowed
<1>9. /\ initial["name"] = records[formId]["name"] /\ initial["file"] = records[formId]["file"]
      /\ initial["links"] = records[formId]["links"] \cap Shown
  BY <1>2, <1>3, ReadRowFits DEF FormInv
<1>10. w.values["links"] \subseteq Shown
  BY <1>1, <1>5, RecordParts DEF FormWriteFits
<1>11. "name" \in Fields /\ "file" \in Fields /\ "links" \in Fields
  BY DEF Fields
<1>12. w.values["name"] = t["name"]
  BY <1>1, <1>6, <1>8, <1>9, <1>11
<1>13. w.values["file"] = t["file"]
  BY <1>1, <1>6, <1>8, <1>9, <1>11
<1>14. w.values["links"] = t["links"]
  <2>1. CASE "links" \in w.sends
    BY <1>6, <1>8, <1>10, <1>11, <2>1
  <2>2. CASE "links" \notin w.sends
    BY <1>1, <1>6, <1>8, <1>9, <1>11, <2>2
  <2> QED BY <2>1, <2>2
<1>15. \A f \in Fields : w.values[f] = t[f]
  BY <1>12, <1>13, <1>14 DEF Fields
<1> QED BY <1>5, <1>7, <1>8, <1>15, RecordsEqual

LEMMA RunWriteKeeps == ASSUME FormInv, NEW w \in formWrites, RunWrite(w) PROVE FormInv'
<1>1. /\ w \in FormWrite /\ FormWriteFits(w) /\ formWrites = {w} /\ w.stage = "sent"
      /\ UNCHANGED <<formId, values, initial, formLoads, uploads, loading, touched, mixed, moves>>
  BY DEF RunWrite, FormInv, WritesFit, FormWriteFits, Alone, formBounds
<1>2. PICK st \in {"done", "failed"}, k \in {[w EXCEPT !.stage = x] : x \in {"done", "failed"}} :
        /\ k = [w EXCEPT !.stage = st] /\ formWrites' = {k}
        /\ \/ /\ w.id = Blank \/ Found(w.id)
              /\ records' \in Written(w) /\ born' = born \cup DOMAIN records'
              /\ doubtful' = (doubtful \/ st = "failed" \/ w.at # moves)
           \/ st = "failed" /\ UNCHANGED <<records, born, doubtful>>
  BY DEF RunWrite
<1>3. /\ k \in FormWrite /\ k.kind = w.kind /\ k.id = w.id /\ k.at = w.at /\ k.sends = w.sends
      /\ k.values = w.values /\ k.touched = w.touched /\ k.mixed = w.mixed /\ k.stage = st
  BY <1>1, <1>2, StageSet
<1>4. doubtful' \in BOOLEAN /\ (doubtful => doubtful')
  BY <1>2 DEF FormInv, ScreenFits
<1>5. TableFits'
  <2>1. CASE UNCHANGED <<records, born>>
    BY <2>1 DEF FormInv, TableFits
  <2>2. CASE (w.id = Blank \/ Found(w.id)) /\ records' \in Written(w) /\ born' = born \cup DOMAIN records'
    BY <1>1, <2>2, WrittenFits DEF FormInv, FormWriteFits
  <2> QED BY <1>2, <2>1, <2>2
<1>6. LoadsFit'
  <2>1. ASSUME NEW l \in formLoads PROVE FormLoadFits(l)'
    <3>1. FormLoadFits(l)
      BY DEF FormInv, LoadsFit
    <3>2. CASE l.cancelled
      BY <3>1, <3>2 DEF FormLoadFits
    <3>3. CASE ~l.cancelled
      <4>1. loading /\ w.at # moves
        BY <1>1, <3>1, <3>3 DEF FormLoadFits, FormWriteFits
      <4>2. records' = records \/ doubtful'
        BY <1>2, <4>1
      <4> QED BY <1>1, <1>4, <3>1, <4>2 DEF FormLoadFits, Found, ReadRow
    <3> QED BY <3>2, <3>3
  <2> QED BY <1>1, <2>1 DEF FormInv, LoadsFit, Alone
<1>7. WritesFit'
  <2>1. w.at = moves /\ ~mixed => SetHere(w.values)'
    BY <1>1 DEF FormWriteFits, SetHere
  <2>2. FormWriteFits(k)'
    BY <1>1, <1>3, <2>1 DEF FormWriteFits
  <2> QED BY <1>2, <2>2 DEF WritesFit, Alone
<1>8. BaseFits'
  <2>1. SUFFICES ASSUME ~loading', ~mixed', ~doubtful', Found(formId)'
                 PROVE  /\ SavedHere(k)' => k.values = ReadRow(formId)'
                        /\ ~SavedHere(k)' => initial' = ReadRow(formId)'
    BY <1>2 DEF BaseFits
  <2>2. CASE UNCHANGED <<records, born, doubtful>> /\ st = "failed"
    <3>1. initial = ReadRow(formId)
      BY <1>1, <2>1, <2>2 DEF FormInv, BaseFits, SavedHere, Found
    <3>2. ~SavedHere(k)'
      BY <1>3, <2>2 DEF SavedHere
    <3> QED BY <1>1, <2>2, <3>1, <3>2 DEF ReadRow
  <2>3. CASE /\ w.id = Blank \/ Found(w.id)
             /\ records' \in Written(w) /\ born' = born \cup DOMAIN records'
             /\ doubtful' = (doubtful \/ st = "failed" \/ w.at # moves)
    <3>1. st = "done" /\ w.at = moves /\ w.id = formId /\ ~doubtful /\ ~mixed
      BY <1>1, <1>2, <2>1, <2>3 DEF FormWriteFits
    <3>2. formId # Blank
      BY <1>1, <1>5, <2>1, FormAssumption DEF FormAssumption, TableFits, Found
    <3>3. w.kind = "save"
      <4>1. w.kind = "delete" => formId \notin DOMAIN records'
        BY <1>1, <2>3, <3>1, DeletedRow DEF FormInv
      <4> QED BY <1>1, <2>1, <4>1 DEF Found, FormWrite
    <3>4. w.values = ReadRow(formId)' /\ SavedHere(k)'
      BY <1>1, <1>3, <1>5, <2>3, <3>1, <3>2, <3>3, SavedIsRead DEF SavedHere
    <3> QED BY <1>3, <3>4
  <2> QED BY <1>2, <2>2, <2>3
<1>9. ScreenFits' /\ (~loading /\ ~mixed => SetHere(initial))' /\ (\A u \in uploads : UploadFits(u))'
  BY <1>1, <1>4, StillUploads DEF FormInv, ScreenFits, SetHere
<1>10. LinksHold'
  BY <1>2, <1>3 DEF LinksHold, LinksStand
<1> QED BY <1>5, <1>6, <1>7, <1>8, <1>9, <1>10 DEF FormInv

LEMMA WriteArrivesKeeps == ASSUME FormInv, NEW w \in formWrites, WriteArrives(w) PROVE FormInv'
<1>1. /\ w \in FormWrite /\ FormWriteFits(w) /\ formWrites = {w} /\ formWrites' = {} /\ mixed \in BOOLEAN
      /\ UNCHANGED <<formId, values, formLoads, uploads, loading, records, born, touched, doubtful, moves>>
  BY DEF WriteArrives, FormInv, WritesFit, FormWriteFits, Alone, formBounds, ScreenFits
<1>2. \/ w.stage = "done" /\ w.kind = "save" /\ initial' = w.values /\ mixed' = (mixed \/ w.at # moves)
      \/ ~(w.stage = "done" /\ w.kind = "save") /\ UNCHANGED <<initial, mixed>>
  BY DEF WriteArrives, Pristine
<1>3. ScreenFits' /\ TableFits'
  BY <1>1, <1>2 DEF FormInv, ScreenFits, TableFits, FormWriteFits, FormWrite
<1>4. WritesFit'
  BY <1>1 DEF WritesFit, Alone
<1>5. ASSUME NEW base, SetHere(base)
      PROVE  /\ \A f \in Fields : values'[f] # base[f] =>
                  f \in touched' /\ (f # "links" => Belongs(values'[f], formId'))
             /\ \A o \in Shown \ touched' : o \in values'["links"] <=> o \in base["links"]
  BY <1>1, <1>5, StillTyped
<1>6. (~loading /\ ~mixed => SetHere(initial))'
  <2>1. CASE initial' = w.values /\ mixed' = (mixed \/ w.at # moves)
    <3>1. ~mixed' => SetHere(w.values)
      BY <1>1, <2>1 DEF FormWriteFits
    <3> QED BY <1>5, <2>1, <3>1 DEF SetHere
  <2>2. CASE UNCHANGED <<initial, mixed>>
    BY <1>1, <2>2 DEF FormInv, SetHere
  <2> QED BY <1>2, <2>1, <2>2
<1>7. BaseFits'
  <2>1. SUFFICES ASSUME ~loading', ~mixed', ~doubtful', Found(formId)' PROVE initial' = ReadRow(formId)'
    BY <1>1 DEF BaseFits
  <2>2. Found(formId) /\ ReadRow(formId)' = ReadRow(formId)
    BY <1>1, <2>1 DEF Found, ReadRow
  <2>3. ~mixed /\ ~loading /\ ~doubtful
    BY <1>1, <1>2, <2>1
  <2>4. (SavedHere(w) => w.values = ReadRow(formId)) /\ (~SavedHere(w) => initial = ReadRow(formId))
    BY <1>1, <2>2, <2>3 DEF FormInv, BaseFits
  <2> QED BY <1>2, <2>1, <2>2, <2>4 DEF SavedHere
<1> QED BY <1>1, <1>3, <1>4, <1>6, <1>7, StillLoads, StillUploads, StillLinks DEF FormInv

LEMMA FormStep == FormInv /\ [FormNext]_formVars => FormInv'
<1> SUFFICES ASSUME FormInv, [FormNext]_formVars PROVE FormInv'
  OBVIOUS
<1>1. CASE UNCHANGED formVars
  BY <1>1, ScreenStill, StillUploads DEF formVars, formBounds, FormInv, TableFits, ScreenFits
<1>2. CASE FormNext
  BY <1>2, OpenRecordKeeps, EditFieldKeeps, PickFileKeeps, DiscardKeeps, SaveKeeps, DeleteKeeps,
     UploadArrivesKeeps, OthersEditKeeps, AnswerLoadKeeps, LoadArrivesKeeps, RunWriteKeeps, WriteArrivesKeeps
     DEF FormNext, Network
<1> QED BY <1>1, <1>2

LEMMA FormTyped == FormInv => FormTypeOK /\ CleanFormMatchesRow
<1> SUFFICES ASSUME FormInv PROVE FormTypeOK /\ CleanFormMatchesRow
  OBVIOUS
<1>1. Cardinality(formWrites) <= 1 /\ Cardinality({l \in formLoads : ~l.cancelled}) <= 1
  BY OneAtMost DEF FormInv, WritesFit, LoadsFit, Alone
<1>2. CleanFormMatchesRow
  BY DEF CleanFormMatchesRow, dirty, FormInv, BaseFits, Found
<1>3. (\A l \in formLoads : l.id \in Records /\ l.row \in Record) /\ (\A w \in formWrites : w.values \in Record /\ w.sends \subseteq Fields)
  BY DEF FormInv, LoadsFit, FormLoadFits, FormLoad, WritesFit, FormWriteFits, FormWrite
<1> QED BY <1>1, <1>2, <1>3 DEF FormTypeOK, FormInv, ScreenFits, TableFits

\* Rows change by a save that holds the change, by others' writes and by a delete.
LEMMA FormSavesSpare == FormInv /\ [FormNext]_formVars => RecordSaveSpares
<1> DEFINE Set(w, r, f) ==
      w.mixed \/ (f \in w.touched /\ (IF f = "links" THEN doubtful \/ OnlyToggled(w, r)
                                     ELSE Belongs(records'[r][f], r)))
<1> SUFFICES ASSUME FormInv, [FormNext]_formVars, NEW r \in DOMAIN records, NEW f \in Fields,
                    r \in DOMAIN records', ~Stays(r, f)
             PROVE  \/ f = "name" /\ records'[r].name = [of |-> r, n |-> 2]
                    \/ \E w \in formWrites : w.id = r /\ Set(w, r, f)
  BY DEF RecordSaveSpares
<1>1. records' # records /\ records'[r][f] # records[r][f]
  BY DEF Stays
<1>2. \/ \E x \in Records : OthersEdit(x)
      \/ \E w \in formWrites : RunWrite(w)
  BY <1>1 DEF FormNext, Network, formVars, OpenRecord, EditField, PickFile, Discard, Save, Delete, Call, UploadArrives,
     AnswerLoad, LoadArrives, WriteArrives
<1>3. ASSUME NEW x \in Records, OthersEdit(x) PROVE f = "name" /\ records'[r].name = [of |-> r, n |-> 2]
  <2>1. PICK s : s = [records[x] EXCEPT !["name"] = [of |-> x, n |-> 2]] /\ records' = [records EXCEPT ![x] = s]
    BY <1>3 DEF OthersEdit
  <2>2. r = x
    BY <1>1, <2>1
  <2>3. records[r] \in Record
    BY DEF FormInv, TableFits
  <2>4. /\ records'[r] = s /\ s.name = [of |-> r, n |-> 2]
        /\ s["file"] = records[r]["file"] /\ s["links"] = records[r]["links"]
    BY <2>1, <2>2, <2>3 DEF Record
  <2>5. f = "name"
    BY <1>1, <2>4 DEF Fields
  <2> QED BY <2>4, <2>5
<1>4. ASSUME NEW w \in formWrites, RunWrite(w)
      PROVE  w.id = r /\ Set(w, r, f)
  <2>1. records' \in Written(w) /\ (w.id = Blank \/ Found(w.id))
    BY <1>1, <1>4 DEF RunWrite
  <2>2. w \in FormWrite /\ FormWriteFits(w) /\ w.mixed \in BOOLEAN
    BY DEF FormInv, WritesFit, FormWriteFits, FormWrite
  <2>3. w.kind # "delete"
    <3>1. ASSUME w.kind = "delete" PROVE FALSE
      <4>1. records'[r] = records[r]
        BY <2>1, <2>2, <3>1, DeletedRow DEF FormInv
      <4> QED BY <1>1, <4>1
    <3> QED BY <3>1
  <2>4. w.id # Blank
    <3>1. ASSUME w.id = Blank PROVE FALSE
      <4>1. PICK x \in Records \ born : records' = [s \in DOMAIN records \cup {x} |-> IF s = x THEN w.values ELSE records[s]]
        BY <2>1, <2>3, <3>1 DEF Written, RowsWith
      <4>2. r # x
        BY DEF FormInv, TableFits
      <4> QED BY <1>1, <4>1, <4>2
    <3> QED BY <3>1
  <2>5. PICK s : /\ s = [g \in Fields |-> IF g \in w.sends THEN w.values[g] ELSE records[w.id][g]]
                 /\ records' = [records EXCEPT ![w.id] = s]
    BY <2>1, <2>3, <2>4 DEF Written
  <2>6. w.id = r /\ f \in w.sends /\ records'[r][f] = w.values[f]
    BY <1>1, <2>5
  <2>7. CASE w.mixed
    BY <2>6, <2>7
  <2>8. CASE ~w.mixed /\ f # "links"
    BY <2>2, <2>4, <2>6, <2>8 DEF FormWriteFits
  <2>9. CASE ~w.mixed /\ f = "links"
    <3>1. "links" \in w.touched /\ LinksStand(w) /\ w.stage = "sent" /\ Found(r) /\ r # Blank
      BY <1>4, <2>1, <2>2, <2>4, <2>6, <2>9 DEF FormInv, LinksHold, FormWriteFits, RunWrite, Found
    <3>2. ASSUME ~doubtful PROVE OnlyToggled(w, r)
      <4>1. \A o \in Shown \ w.touched : o \in w.values["links"] <=> o \in records[r]["links"]
        BY <2>6, <2>9, <3>1, <3>2 DEF LinksStand
      <4>2. records'[r]["links"] = w.values["links"]
        BY <2>6, <2>9
      <4>3. records[r].links = records[r]["links"] /\ records'[r].links = records'[r]["links"]
        OBVIOUS
      <4> QED BY <4>1, <4>2, <4>3 DEF OnlyToggled
    <3> QED BY <2>6, <2>9, <3>1, <3>2
  <2> QED BY <2>7, <2>8, <2>9
<1> QED BY <1>2, <1>3, <1>4

-----------------------------------------------------------------------------
(* The list.                                                               *)

ListRequest == [query : Query, cancelled : BOOLEAN, stage : {"asked", "rows", "counted"},
                rows : SUBSET Rows, total : Nat, moved : BOOLEAN]
ListAnswer == [query : Query, rows : SUBSET Rows, total : Nat]

\* What was read is the table's, unless it changed since.
RowsRead(q, rows) == rows = Page(q, table)
TotalRead(q, n) == n = Cardinality(Where(q, table))

RequestFits(r) ==
  /\ r \in ListRequest
  /\ ~r.cancelled => r.query = query /\ busy /\ view = "here"
  /\ ~r.moved => /\ r.stage # "asked" => RowsRead(r.query, r.rows)
                 /\ r.stage = "counted" => TotalRead(r.query, r.total)
  /\ changes = 0 => ~r.moved
RequestsFit == (\A r \in requests : RequestFits(r)) /\ Alone({r \in requests : ~r.cancelled})

ListFits ==
  /\ view \in {"asked", "here", "failed"} /\ query \in Query /\ answer \in ListAnswer
  /\ search \in Terms /\ timer \in BOOLEAN /\ busy \in BOOLEAN /\ failed \in BOOLEAN /\ moved \in BOOLEAN
  /\ table \subseteq Rows /\ changes \in Nat
  /\ ~timer => query.term = search
  /\ view # "here" => requests = {} /\ ~busy

AnswerFits ==
  view = "here" /\ ~busy /\ ~failed =>
    /\ answer.query = query
    /\ ~moved => RowsRead(query, answer.rows) /\ TotalRead(query, answer.total)

\* The page asked for begins before the rows end.
OnPage(q) == q.page = 1 \/ (q.page - 1) * PageSize < Cardinality(Where(q, table))

Undisturbed == changes = 0 => ~moved /\ (view = "here" => ~failed) /\ OnPage(query)

ListInv == ListFits /\ RequestsFit /\ AnswerFits /\ Undisturbed

LEMMA WhereFinite ==
  ASSUME NEW q, NEW rows \in SUBSET Rows
  PROVE  /\ Where(q, rows) \in SUBSET Rows /\ IsFiniteSet(Where(q, rows))
         /\ Cardinality(Where(q, rows)) \in Nat /\ Page(q, rows) \subseteq Rows
<1>1. Where(q, rows) \subseteq Rows /\ Page(q, rows) \subseteq Where(q, rows)
  BY DEF Where, Page
<1>2. IsFiniteSet(Rows)
  BY ListAssumption DEF ListAssumption
<1>3. IsFiniteSet(Where(q, rows))
  BY <1>1, <1>2, FS_Subset
<1> QED BY <1>1, <1>3, FS_CardinalityType

LEMMA PagesEnd ==
  ASSUME NEW t \in Nat, NEW s \in Nat \ {0}, NEW p \in Nat, p >= 1, p <= (t + s - 1) \div s
  PROVE  (p - 1) * s < t
<1>1. PICK d \in Int : d = (t + s - 1) \div s
  OBVIOUS
<1>2. d * s <= t + s - 1
  BY <1>1
<1>3. p * s <= d * s
  BY <1>1
<1>4. (p - 1) * s = p * s - s
  OBVIOUS
<1> QED BY <1>2, <1>3, <1>4

LEMMA PageTurned ==
  ASSUME answer.total \in Nat, NEW p \in 1..pageCount
  PROVE  p \in Nat \ {0} /\ (p = 1 \/ (p - 1) * PageSize < answer.total)
<1>1. PICK n \in Int : n = (answer.total + PageSize - 1) \div PageSize
  BY ListAssumption DEF ListAssumption
<1>2. p \in Nat \ {0} /\ (p = 1 \/ p <= n)
  BY <1>1 DEF pageCount
<1> QED BY <1>1, <1>2, PagesEnd, ListAssumption DEF ListAssumption

Ahead(q, found, r) == {s \in found : Before(q, s, r)}

\* Rows have places 0 to the last, one each.
LEMMA EveryPlaceIsTaken ==
  ASSUME NEW q, NEW found, found \subseteq Int, IsFiniteSet(found), NEW k \in Nat, k < Cardinality(found)
  PROVE  \E r \in found : Cardinality(Ahead(q, found, r)) = k
<1> DEFINE ahead(r) == Ahead(q, found, r)
<1> DEFINE n == Cardinality(found)
<1> DEFINE place == [r \in found |-> Cardinality(ahead(r))]
<1>1. n \in Nat
  BY FS_CardinalityType
<1>2. ASSUME NEW r \in found PROVE Cardinality(ahead(r)) \in 0..(n - 1) /\ IsFiniteSet(ahead(r))
  <2>1. ahead(r) \in SUBSET (found \ {r})
    BY DEF Ahead, Before
  <2>2. IsFiniteSet(found \ {r}) /\ Cardinality(found \ {r}) = n - 1
    BY FS_RemoveElement
  <2>3. IsFiniteSet(ahead(r)) /\ Cardinality(ahead(r)) <= n - 1
    BY <2>1, <2>2, FS_Subset
  <2> QED BY <1>1, <2>3, FS_CardinalityType
<1>3. ASSUME NEW r \in found, NEW s \in found, Before(q, r, s) PROVE Cardinality(ahead(r)) # Cardinality(ahead(s))
  <2>0. /\ \A x, y, z \in Int : Before(q, x, y) /\ Before(q, y, z) => Before(q, x, z)
        /\ \A x \in Int : ~Before(q, x, x)
    BY DEF Before
  <2>1. ahead(r) \in SUBSET ahead(s) /\ r \in ahead(s) /\ r \notin ahead(r)
    BY <1>3, <2>0 DEF Ahead
  <2>2. IsFiniteSet(ahead(s))
    BY <1>2
  <2> QED BY <2>1, <2>2, FS_Subset
<1>4. \A r, s \in found : r # s => Before(q, r, s) \/ Before(q, s, r)
  BY DEF Before
<1>5. place \in Injection(found, 0..(n - 1))
  <2>1. place \in [found -> 0..(n - 1)]
    BY <1>2
  <2>2. \A r, s \in found : place[r] = place[s] => r = s
    BY <1>3, <1>4
  <2> QED BY <2>1, <2>2 DEF Injection, IsInjective
<1>6. IsFiniteSet(0..(n - 1)) /\ Cardinality(0..(n - 1)) = n
  <2>1. \A m \in Nat : IsFiniteSet(0..(m - 1)) /\ Cardinality(0..(m - 1)) = m
    <3>1. \A m \in Nat : m - 1 \in Int /\ (IF 0 > m - 1 THEN 0 ELSE m - 1 - 0 + 1) = m
      OBVIOUS
    <3> QED BY <3>1, FS_Interval
  <2> QED BY <1>1, <2>1
<1>7. place \in Surjection(found, 0..(n - 1))
  BY <1>5, <1>6, FS_Injection
<1>8. k \in 0..(n - 1)
  BY <1>1
<1>9. PICK r \in found : place[r] = k
  BY <1>7, <1>8 DEF Surjection
<1> QED BY <1>9

LEMMA PageNotEmpty ==
  ASSUME NEW q \in Query, NEW rows \in SUBSET Rows, (q.page - 1) * PageSize < Cardinality(Where(q, rows))
  PROVE  Page(q, rows) # {}
<1>1. q.page \in Nat \ {0} /\ PageSize \in Nat \ {0}
  BY ListAssumption DEF ListAssumption, Query
<1>2. PICK k \in Nat : k = (q.page - 1) * PageSize
  <2>1. \A p, s \in Nat \ {0} : (p - 1) * s \in Nat
    OBVIOUS
  <2> QED BY <1>1, <2>1
<1>3. k <= q.page * PageSize - 1 /\ q.page * PageSize - 1 \in Int
  <2>1. \A p, s \in Nat \ {0} : (p - 1) * s <= p * s - 1 /\ p * s - 1 \in Int
    OBVIOUS
  <2> QED BY <1>1, <1>2, <2>1
<1>4. k \in (q.page - 1) * PageSize .. q.page * PageSize - 1
  BY <1>1, <1>2, <1>3
<1>5. Where(q, rows) \subseteq Int /\ IsFiniteSet(Where(q, rows))
  BY WhereFinite, ListAssumption DEF ListAssumption
<1>6. PICK r \in Where(q, rows) : Cardinality(Ahead(q, Where(q, rows), r)) = k
  <2>1. k < Cardinality(Where(q, rows))
    BY <1>2
  <2> QED BY <1>2, <1>5, <2>1, EveryPlaceIsTaken
<1>7. Cardinality({s \in Where(q, rows) : Before(q, s, r)}) \in (q.page - 1) * PageSize .. q.page * PageSize - 1
  BY <1>4, <1>6, Zenon DEF Ahead
<1>8. r \in Page(q, rows)
  BY <1>6, <1>7, Zenon DEF Page
<1> QED BY <1>8

LEMMA PageSet ==
  ASSUME NEW q \in Query, NEW p \in Nat \ {0}, NEW k, k = [q EXCEPT !.page = p]
  PROVE  /\ k \in Query /\ k.page = p /\ k.term = q.term /\ k.filtered = q.filtered
         /\ k.sort = q.sort /\ k.tick = q.tick
BY DEF Query

\* The controls of the list: they go back to its first page.
LEMMA SortSet ==
  ASSUME NEW q \in Query, NEW k, k = [q EXCEPT !.sort = IF @ = "asc" THEN "desc" ELSE "asc", !.page = 1]
  PROVE  k \in Query /\ k.page = 1 /\ k.term = q.term
<1>1. PICK d \in Directions : d = IF q.sort = "asc" THEN "desc" ELSE "asc"
  BY DEF Directions
<1>2. PICK m : m = [q EXCEPT !.sort = d]
  OBVIOUS
<1>3. m \in Query /\ m.term = q.term
  BY <1>2 DEF Query
<1>4. k = [m EXCEPT !.page = 1]
  BY <1>1, <1>2
<1> QED BY <1>3, <1>4 DEF Query

LEMMA FilterSet ==
  ASSUME NEW q \in Query, NEW k, k = [q EXCEPT !.filtered = ~@, !.page = 1]
  PROVE  k \in Query /\ k.page = 1 /\ k.term = q.term
<1>1. PICK b \in BOOLEAN : b = ~q.filtered
  OBVIOUS
<1>2. PICK m : m = [q EXCEPT !.filtered = b]
  OBVIOUS
<1>3. m \in Query /\ m.term = q.term
  BY <1>2 DEF Query
<1>4. k = [m EXCEPT !.page = 1]
  BY <1>1, <1>2
<1> QED BY <1>3, <1>4 DEF Query

LEMMA TickSet ==
  ASSUME NEW q \in Query, NEW k, k = [q EXCEPT !.tick = @ + 1]
  PROVE  k \in Query /\ k.page = q.page /\ k.term = q.term /\ k.filtered = q.filtered
<1>1. PICK n \in Nat : n = q.tick + 1
  BY DEF Query
<1>2. k = [q EXCEPT !.tick = n]
  BY <1>1
<1> QED BY <1>2 DEF Query

LEMMA RequestCancelled ==
  ASSUME NEW r \in ListRequest, NEW k, k = [r EXCEPT !.cancelled = TRUE]
  PROVE  /\ k \in ListRequest /\ k.cancelled = TRUE /\ k.query = r.query /\ k.stage = r.stage
         /\ k.rows = r.rows /\ k.total = r.total /\ k.moved = r.moved
BY DEF ListRequest

\* The effect that asks for the list.
LEMMA FetchKeeps ==
  ASSUME ListInv, Fetch, query' \in Query, view' \in {"asked", "here", "failed"}, view = "here" => view' = "here",
         UNCHANGED <<answer, table, moved, changes, search>>, timer' \in BOOLEAN, ~timer' => query'.term = search,
         failed' \in BOOLEAN, view = "here" => failed' = failed, view' = "here" /\ view # "here" => ~failed',
         changes = 0 => OnPage(query)'
  PROVE  ListInv'
<1>1. CASE view' = "here" /\ (query' # query \/ view # "here")
  <2>1. PICK new : new = [query |-> query', cancelled |-> FALSE, stage |-> "asked", rows |-> {}, total |-> 0, moved |-> FALSE]
    OBVIOUS
  <2>2. busy' = TRUE /\ requests' = {[r EXCEPT !.cancelled = TRUE] : r \in requests} \cup {new}
    BY <1>1, <2>1 DEF Fetch
  <2>3. /\ new \in ListRequest /\ new.query = query' /\ new.cancelled = FALSE /\ new.stage = "asked" /\ new.moved = FALSE
    BY <2>1 DEF ListRequest
  <2>4. RequestFits(new)'
    BY <1>1, <2>2, <2>3 DEF RequestFits
  <2>5. ASSUME NEW r \in requests, NEW k, k = [r EXCEPT !.cancelled = TRUE] PROVE RequestFits(k)' /\ k.cancelled = TRUE
    <3>1. RequestFits(r) /\ r \in ListRequest
      BY DEF ListInv, RequestsFit, RequestFits
    <3> QED BY <2>5, <3>1, RequestCancelled DEF RequestFits, RowsRead, TotalRead
  <2>6. RequestsFit'
    BY <2>2, <2>3, <2>4, <2>5 DEF RequestsFit, Alone
  <2> QED BY <1>1, <2>2, <2>6 DEF ListInv, ListFits, AnswerFits, Undisturbed
<1>2. CASE ~(view' = "here" /\ (query' # query \/ view # "here"))
  <2>1. UNCHANGED <<busy, requests>>
    BY <1>2 DEF Fetch
  <2>2. RequestsFit'
    <3>1. CASE view' # "here"
      BY <2>1, <3>1 DEF ListInv, ListFits, RequestsFit, Alone
    <3>2. CASE view' = "here" /\ view = "here" /\ query' = query
      BY <2>1, <3>2 DEF ListInv, RequestsFit, RequestFits, RowsRead, TotalRead, Alone
    <3> QED BY <1>2, <3>1, <3>2
  <2>3. AnswerFits'
    BY <1>2, <2>1 DEF ListInv, AnswerFits, RowsRead, TotalRead
  <2>4. ListFits' /\ Undisturbed'
    BY <1>2, <2>1 DEF ListInv, ListFits, Undisturbed
  <2> QED BY <2>2, <2>3, <2>4 DEF ListInv
<1> QED BY <1>1, <1>2

LEMMA ViewArrivesKeeps == ASSUME ListInv, ViewArrives PROVE ListInv'
<1>1. /\ view = "asked" /\ view' \in {"here", "failed"} /\ failed' = (view' = "failed") /\ Fetch
      /\ UNCHANGED <<query, search, timer, answer, table, moved, changes>>
  BY DEF ViewArrives
<1>2. /\ query' \in Query /\ timer' \in BOOLEAN /\ (~timer' => query'.term = search)
      /\ (changes = 0 => OnPage(query)')
  BY <1>1 DEF ListInv, ListFits, Undisturbed, OnPage
<1> QED BY <1>1, <1>2, FetchKeeps

\* What the operator asks for: the first page, or one there is.
LEMMA AsksKeeps ==
  ASSUME ListInv, NEW q \in Query, Asks(q), q.term = query.term, changes = 0 => OnPage(q)
  PROVE  ListInv'
<1>1. /\ view = "here" /\ query' = q /\ Fetch
      /\ UNCHANGED <<view, search, timer, answer, failed, table, moved, changes>>
  BY DEF Asks, Ask
<1>2. /\ timer' \in BOOLEAN /\ (~timer' => query'.term = search) /\ failed' \in BOOLEAN
      /\ (changes = 0 => OnPage(query)')
  BY <1>1 DEF ListInv, ListFits, OnPage
<1> QED BY <1>1, <1>2, FetchKeeps

LEMMA SetPageKeeps == ASSUME ListInv, SetPage PROVE ListInv'
<1>1. PICK p : p \in 1..pageCount /\ ~busy /\ Asks([query EXCEPT !.page = p])
  BY DEF SetPage, CanTurn
<1>2. answer.total \in Nat /\ query \in Query
  BY DEF ListInv, ListFits, ListAnswer
<1>3. p \in Nat \ {0} /\ (p = 1 \/ (p - 1) * PageSize < answer.total)
  BY <1>1, <1>2, PageTurned
<1>4. PICK q : q = [query EXCEPT !.page = p]
  OBVIOUS
<1>5. q \in Query /\ q.page = p /\ q.term = query.term /\ q.filtered = query.filtered
  BY <1>2, <1>3, <1>4, PageSet
<1>6. changes = 0 => OnPage(q)
  <2>1. SUFFICES ASSUME changes = 0, p # 1 PROVE (q.page - 1) * PageSize < Cardinality(Where(q, table))
    BY <1>5 DEF OnPage
  <2>2. view = "here"
    BY <1>1 DEF Asks, Ask
  <2>3. answer.total = Cardinality(Where(query, table))
    BY <1>1, <2>1, <2>2 DEF ListInv, AnswerFits, Undisturbed, TotalRead
  <2>4. Where(q, table) = Where(query, table)
    BY <1>5 DEF Where
  <2> QED BY <1>3, <1>5, <2>1, <2>3, <2>4
<1> QED BY <1>1, <1>4, <1>5, <1>6, AsksKeeps

LEMMA ControlsKeep == ASSUME ListInv, ToggleSort \/ ChangeFilters \/ Refresh PROVE ListInv'
<1>1. query \in Query
  BY DEF ListInv, ListFits
<1>2. CASE ToggleSort
  <2>1. PICK q : q = [query EXCEPT !.sort = IF @ = "asc" THEN "desc" ELSE "asc", !.page = 1] /\ Asks(q)
    BY <1>2 DEF ToggleSort
  <2>2. q \in Query /\ q.page = 1 /\ q.term = query.term
    BY <1>1, <2>1, SortSet
  <2> QED BY <2>1, <2>2, AsksKeeps DEF OnPage
<1>3. CASE ChangeFilters
  <2>1. PICK q : q = [query EXCEPT !.filtered = ~@, !.page = 1] /\ Asks(q)
    BY <1>3 DEF ChangeFilters, Refiltered
  <2>2. q \in Query /\ q.page = 1 /\ q.term = query.term
    BY <1>1, <2>1, FilterSet
  <2> QED BY <2>1, <2>2, AsksKeeps DEF OnPage
<1>4. CASE Refresh
  <2>1. PICK q : q = [query EXCEPT !.tick = @ + 1] /\ Asks(q)
    BY <1>4 DEF Refresh
  <2>2. q \in Query /\ q.page = query.page /\ q.term = query.term /\ q.filtered = query.filtered
    BY <1>1, <2>1, TickSet
  <2>3. Where(q, table) = Where(query, table)
    BY <2>2 DEF Where
  <2>4. changes = 0 => OnPage(q)
    BY <2>2, <2>3 DEF ListInv, Undisturbed, OnPage
  <2> QED BY <2>1, <2>2, <2>4, AsksKeeps
<1> QED BY <1>2, <1>3, <1>4

LEMMA SearchKeeps == ASSUME ListInv, SetSearch \/ TimerFires PROVE ListInv'
<1>1. CASE SetSearch
  <2>1. /\ search' \in Terms /\ timer' = TRUE
        /\ UNCHANGED <<view, query, requests, answer, busy, failed, table, moved, changes>>
    BY <1>1 DEF SetSearch
  <2>2. RequestsFit' /\ AnswerFits' /\ Undisturbed'
    BY <2>1 DEF ListInv, RequestsFit, RequestFits, RowsRead, TotalRead, Alone, AnswerFits, Undisturbed, OnPage
  <2> QED BY <2>1, <2>2 DEF ListInv, ListFits
<1>2. CASE TimerFires
  <2>1. PICK q : q = [query EXCEPT !.term = search, !.page = 1] /\ query' = q
    BY <1>2 DEF TimerFires, Debounced
  <2>2. query \in Query /\ search \in Terms /\ failed \in BOOLEAN /\ view \in {"asked", "here", "failed"}
    BY DEF ListInv, ListFits
  <2>3. q \in Query /\ q.page = 1 /\ q.term = search
    <3>1. PICK m : m = [query EXCEPT !.term = search]
      OBVIOUS
    <3>2. m \in Query /\ m.term = search
      BY <2>2, <3>1 DEF Query
    <3>3. q = [m EXCEPT !.page = 1]
      BY <2>1, <3>1
    <3> QED BY <3>2, <3>3 DEF Query
  <2>4. /\ Fetch /\ timer' = FALSE /\ UNCHANGED <<view, search, answer, failed, table, moved, changes>>
    BY <1>2 DEF TimerFires
  <2>5. OnPage(query)'
    BY <2>1, <2>3 DEF OnPage
  <2> QED BY <2>1, <2>2, <2>3, <2>4, <2>5, FetchKeeps
<1> QED BY <1>1, <1>2

\* A request moves on: nothing but that request changes.
LEMMA ReadKeeps ==
  ASSUME ListInv, NEW r \in requests, NEW k, RequestFits(k), k.cancelled = r.cancelled,
         Replace(r, k), UNCHANGED <<view, query, search, timer, answer, busy, failed, table, moved, changes>>
  PROVE  ListInv'
<1>1. requests' = (requests \ {r}) \cup {k}
  BY DEF Replace
<1>2. ASSUME NEW m, RequestFits(m) PROVE RequestFits(m)'
  BY <1>2 DEF RequestFits, RowsRead, TotalRead
<1>3. RequestsFit'
  BY <1>1, <1>2 DEF ListInv, RequestsFit, Alone
<1>4. view # "here" => requests' = {}
  BY <1>1 DEF ListInv, ListFits
<1> QED BY <1>3, <1>4 DEF ListInv, ListFits, AnswerFits, RowsRead, TotalRead, Undisturbed, OnPage

LEMMA ReadRowsKeeps == ASSUME ListInv, NEW r \in requests, ReadRows(r) PROVE ListInv'
<1>1. RequestFits(r) /\ r \in ListRequest /\ r.stage = "asked"
  BY DEF ListInv, RequestsFit, RequestFits, ReadRows
<1>2. PICK rows : rows = Page(r.query, table) /\ rows \in SUBSET Rows
  BY WhereFinite DEF ListInv, ListFits
<1>3. PICK m : m = [r EXCEPT !.stage = "rows"]
  OBVIOUS
<1>4. /\ m \in ListRequest /\ m.stage = "rows" /\ m.query = r.query
      /\ m.cancelled = r.cancelled /\ m.moved = r.moved
  BY <1>1, <1>3 DEF ListRequest
<1>5. PICK k : k = [m EXCEPT !.rows = rows]
  OBVIOUS
<1>6. /\ k \in ListRequest /\ k.stage = "rows" /\ k.rows = rows /\ k.query = r.query
      /\ k.cancelled = r.cancelled /\ k.moved = r.moved
  BY <1>2, <1>4, <1>5 DEF ListRequest
<1>7. RequestFits(k)
  BY <1>1, <1>2, <1>6 DEF RequestFits, RowsRead
<1>8. k = [r EXCEPT !.stage = "rows", !.rows = Page(r.query, table)]
  BY <1>2, <1>3, <1>5
<1> QED BY <1>6, <1>7, <1>8, ReadKeeps DEF ReadRows

LEMMA ReadCountKeeps == ASSUME ListInv, NEW r \in requests, ReadCount(r) PROVE ListInv'
<1>1. RequestFits(r) /\ r \in ListRequest /\ r.stage = "rows"
  BY DEF ListInv, RequestsFit, RequestFits, ReadCount
<1>2. PICK n \in Nat : n = Cardinality(Where(r.query, table))
  BY WhereFinite DEF ListInv, ListFits
<1>3. PICK m : m = [r EXCEPT !.stage = "counted"]
  OBVIOUS
<1>4. /\ m \in ListRequest /\ m.stage = "counted" /\ m.query = r.query /\ m.rows = r.rows
      /\ m.cancelled = r.cancelled /\ m.moved = r.moved
  BY <1>1, <1>3 DEF ListRequest
<1>5. PICK k : k = [m EXCEPT !.total = n]
  OBVIOUS
<1>6. /\ k \in ListRequest /\ k.stage = "counted" /\ k.rows = r.rows /\ k.query = r.query /\ k.total = n
      /\ k.cancelled = r.cancelled /\ k.moved = r.moved
  BY <1>2, <1>4, <1>5 DEF ListRequest
<1>7. RequestFits(k)
  BY <1>1, <1>2, <1>6 DEF RequestFits, TotalRead
<1>8. k = [r EXCEPT !.stage = "counted", !.total = Cardinality(Where(r.query, table))]
  BY <1>2, <1>3, <1>5
<1> QED BY <1>6, <1>7, <1>8, ReadKeeps DEF ReadCount

LEMMA Counted == ASSUME NEW n \in Nat PROVE n + 1 \in Nat /\ n + 1 # 0
OBVIOUS

LEMMA ListArrivesKeeps == ASSUME ListInv, NEW r \in requests, ListArrives(r) PROVE ListInv'
<1>1. /\ RequestFits(r) /\ r \in ListRequest /\ requests' = requests \ {r} /\ changes \in Nat
      /\ changes' = IF r.stage = "counted" THEN changes ELSE changes + 1
      /\ UNCHANGED <<view, query, search, timer, table>>
  BY DEF ListInv, RequestsFit, RequestFits, ListArrives, ListFits
<1>2. changes' \in Nat /\ (changes' = 0 => changes = 0 /\ r.stage = "counted")
  BY <1>1, Counted
<1>3. view # "here" => requests' = {}
  BY <1>1 DEF ListInv, ListFits
<1>4. CASE r.cancelled
  <2>1. UNCHANGED <<busy, answer, failed, moved>>
    BY <1>4 DEF ListArrives, Stale
  <2>2. ASSUME NEW k \in requests PROVE RequestFits(k)'
    <3>1. RequestFits(k)
      BY DEF ListInv, RequestsFit
    <3> QED BY <1>1, <1>2, <2>1, <3>1 DEF RequestFits, RowsRead, TotalRead
  <2>3. RequestsFit'
    BY <1>1, <2>2 DEF ListInv, RequestsFit, Alone
  <2>4. ListFits' /\ AnswerFits' /\ Undisturbed'
    BY <1>1, <1>2, <1>3, <2>1 DEF ListInv, ListFits, AnswerFits, RowsRead, TotalRead, Undisturbed, OnPage
  <2> QED BY <2>3, <2>4 DEF ListInv
<1>5. CASE ~r.cancelled
  <2>1. /\ busy' = FALSE /\ failed' = (r.stage # "counted") /\ r.query = query
        /\ r.stage = "counted" => answer' = [query |-> r.query, rows |-> r.rows, total |-> r.total] /\ moved' = r.moved
        /\ r.stage # "counted" => UNCHANGED <<answer, moved>>
    BY <1>1, <1>5 DEF ListArrives, Stale, RequestFits
  <2>2. ASSUME NEW k \in requests \ {r} PROVE RequestFits(k)' /\ k.cancelled
    <3>1. RequestFits(k) /\ k.cancelled
      BY <1>5 DEF ListInv, RequestsFit, Alone
    <3> QED BY <1>1, <1>2, <3>1 DEF RequestFits, RowsRead, TotalRead
  <2>3. RequestsFit'
    BY <1>1, <2>2 DEF RequestsFit, Alone
  <2>4. /\ r.query \in Query /\ r.rows \in SUBSET Rows /\ r.total \in Nat /\ r.moved \in BOOLEAN
    BY <1>1 DEF ListRequest
  <2>5. answer' \in ListAnswer /\ moved' \in BOOLEAN
    BY <2>1, <2>4 DEF ListInv, ListFits, ListAnswer
  <2>6. ListFits'
    BY <1>1, <1>2, <1>3, <2>1, <2>5 DEF ListInv, ListFits
  <2>7. AnswerFits'
    <3>1. CASE r.stage = "counted"
      <4>1. answer'.query = query /\ answer'.rows = r.rows /\ answer'.total = r.total /\ moved' = r.moved
        BY <2>1, <3>1
      <4>2. ~r.moved => RowsRead(query, r.rows) /\ TotalRead(query, r.total)
        BY <1>1, <2>1, <3>1 DEF RequestFits
      <4> QED BY <1>1, <4>1, <4>2 DEF AnswerFits, RowsRead, TotalRead
    <3>2. CASE r.stage # "counted"
      BY <2>1, <3>2 DEF AnswerFits
    <3> QED BY <3>1, <3>2
  <2>8. Undisturbed'
    BY <1>1, <1>2, <2>1 DEF ListInv, Undisturbed, OnPage, RequestFits
  <2> QED BY <2>3, <2>6, <2>7, <2>8 DEF ListInv
<1> QED BY <1>1, <1>4, <1>5 DEF ListRequest

LEMMA TableChangesKeeps == ASSUME ListInv, TableChanges PROVE ListInv'
<1>1. /\ changes' = changes + 1 /\ changes \in Nat /\ moved' = TRUE
      /\ requests' = {[r EXCEPT !.moved = @ \/ r.stage # "asked"] : r \in requests}
      /\ UNCHANGED <<view, query, search, timer, answer, busy, failed>>
  BY DEF TableChanges, ListInv, ListFits
<1>2. table' \subseteq Rows
  BY DEF TableChanges, ListInv, ListFits
<1>3. changes' \in Nat /\ changes' # 0
  BY <1>1, Counted
<1>4. ASSUME NEW r \in requests, NEW k, k = [r EXCEPT !.moved = @ \/ r.stage # "asked"]
      PROVE  RequestFits(k)' /\ k.cancelled = r.cancelled
  <2>1. RequestFits(r) /\ r \in ListRequest
    BY DEF ListInv, RequestsFit, RequestFits
  <2>2. PICK b \in BOOLEAN : b = (r.moved \/ r.stage # "asked")
    OBVIOUS
  <2>3. k = [r EXCEPT !.moved = b]
    BY <1>4, <2>2
  <2>4. /\ k \in ListRequest /\ k.cancelled = r.cancelled /\ k.query = r.query /\ k.stage = r.stage
        /\ k.moved = b
    BY <2>1, <2>3 DEF ListRequest
  <2>5. ~k.moved => k.stage = "asked"
    BY <2>2, <2>4
  <2> QED BY <1>1, <1>3, <2>1, <2>4, <2>5 DEF RequestFits
<1>5. RequestsFit'
  <2>1. \A k \in requests' : RequestFits(k)' /\ \E r \in requests : k = [r EXCEPT !.moved = @ \/ r.stage # "asked"] /\ k.cancelled = r.cancelled
    BY <1>1, <1>4
  <2> QED BY <2>1 DEF ListInv, RequestsFit, Alone
<1> QED BY <1>1, <1>2, <1>3, <1>5 DEF ListInv, ListFits, AnswerFits, Undisturbed

LEMMA ListStarts == ListInit => ListInv
<1> SUFFICES ASSUME ListInit PROVE ListInv
  OBVIOUS
<1>1. query \in Query /\ query.page = 1
  <2>1. query = [page |-> 1, term |-> "", sort |-> "default", filtered |-> FALSE, tick |-> 0]
    BY DEF ListInit
  <2>2. 1 \in Nat \ {0} /\ "" \in Terms /\ "default" \in Directions /\ FALSE \in BOOLEAN /\ 0 \in Nat
    BY DEF Terms, Directions
  <2> QED BY <2>1, <2>2 DEF Query
<1>2. answer \in ListAnswer
  BY <1>1 DEF ListInit, ListAnswer
<1> QED BY <1>1, <1>2 DEF ListInit, ListInv, ListFits, RequestsFit, Alone, AnswerFits, Undisturbed, OnPage, Terms

LEMMA ListStep == ListInv /\ [ListNext]_listVars => ListInv'
<1> SUFFICES ASSUME ListInv, [ListNext]_listVars PROVE ListInv'
  OBVIOUS
<1>1. CASE UNCHANGED listVars
  <2>1. RequestsFit'
    BY <1>1 DEF listVars, ListInv, RequestsFit, RequestFits, RowsRead, TotalRead, Alone
  <2> QED BY <1>1, <2>1 DEF listVars, ListInv, ListFits, AnswerFits, RowsRead, TotalRead, Undisturbed, OnPage
<1>2. CASE ListNext
  BY <1>2, ViewArrivesKeeps, SetPageKeeps, ControlsKeep, SearchKeeps, ReadRowsKeeps, ReadCountKeeps, ListArrivesKeeps,
     TableChangesKeeps DEF ListNext, Answering
<1> QED BY <1>1, <1>2

LEMMA ListTyped == ListInv => ListTypeOK /\ RowsAnswerTheQuery /\ NoEmptyPage
<1> SUFFICES ASSUME ListInv PROVE ListTypeOK /\ RowsAnswerTheQuery /\ NoEmptyPage
  OBVIOUS
<1>1. Cardinality({r \in requests : ~r.cancelled}) <= 1
  BY OneAtMost DEF ListInv, RequestsFit, Alone
<1>2. \A r \in requests : r.query \in Query /\ r.rows \subseteq Rows /\ r.total \in Nat
  BY DEF ListInv, RequestsFit, RequestFits, ListRequest
<1>3. answer.query \in Query /\ answer.rows \subseteq Rows /\ answer.total \in Nat
  BY DEF ListInv, ListFits, ListAnswer
<1>4. ListTypeOK
  BY <1>1, <1>2, <1>3 DEF ListTypeOK, ListInv, ListFits
<1>5. RowsAnswerTheQuery
  BY DEF RowsAnswerTheQuery, Settled, ListInv, ListFits, AnswerFits, RowsRead, TotalRead
<1>6. NoEmptyPage
  <2>1. SUFFICES ASSUME Settled, ~failed, answer.rows = {}, answer.total # 0, ~(changes > 0) PROVE FALSE
    BY DEF NoEmptyPage
  <2>2. changes = 0
    BY <2>1 DEF ListInv, ListFits
  <2>3. answer.rows = Page(query, table) /\ answer.total = Cardinality(Where(query, table)) /\ OnPage(query)
    BY <2>1, <2>2 DEF Settled, ListInv, AnswerFits, RowsRead, TotalRead, Undisturbed
  <2>4. query \in Query /\ table \in SUBSET Rows
    BY DEF ListInv, ListFits
  <2>5. (query.page - 1) * PageSize < Cardinality(Where(query, table))
    <3>1. CASE query.page = 1
      <4>1. (query.page - 1) * PageSize = 0
        BY <3>1, ListAssumption DEF ListAssumption
      <4> QED BY <1>3, <2>1, <2>3, <4>1
    <3>2. CASE query.page # 1
      BY <2>3, <3>2 DEF OnPage
    <3> QED BY <3>1, <3>2
  <2>6. Page(query, table) # {}
    BY <2>4, <2>5, PageNotEmpty
  <2> QED BY <2>1, <2>3, <2>6
<1> QED BY <1>4, <1>5, <1>6

-----------------------------------------------------------------------------
(* The row form.                                                           *)

RowOf == [FormColumns -> CellValues]
PickerState == [col : SUBSET PickColumns, q : Searches \cup {""}, rows : SUBSET Texts,
                state : {"closed", "loading", "shown", "failed"}, timer : BOOLEAN, no : Nat]
Lookup == [q : Searches \cup {""}, no : Nat, pc : {"asked", "read"}, rows : SUBSET Texts]

\* What is dirty was set by the operator in this form.
InputsFit ==
  /\ DOMAIN form = {"mode", "row", "fields", "no", "saving"}
  /\ form.row \in RowOf /\ form.fields \in [editable -> Input] /\ inputsSet \subseteq editable
  /\ \A c \in editable : form.fields[c].dirty => c \in inputsSet

\* A search is as old as its term: one of this number asks for what the box says.
LookupFits(l) ==
  /\ l \in Lookup /\ l.no <= picker.no /\ (l.no = picker.no => l.q = picker.q)
  /\ \A v \in l.rows : l.q \in {"", v}
PickerFits ==
  /\ picker \in PickerState /\ PickerShowsMatches
  /\ \A l \in lookups : LookupFits(l)

SubmitFits(s) ==
  /\ DOMAIN s = {"mode", "values", "no", "set", "row", "pc"}
  /\ DOMAIN s.values \subseteq editable /\ DOMAIN s.values \subseteq s.set
  /\ (\A c \in DOMAIN s.values : s.values[c] \in CellValues) /\ s.row \in RowOf

RowFormInv ==
  /\ dbRow \in RowOf /\ gridRow \in RowOf /\ linkable \subseteq Texts
  /\ InputsFit /\ PickerFits /\ \A s \in submits : SubmitFits(s)

LEMMA FieldsFit ==
  /\ NewFields \in [editable -> Input] /\ (\A c \in editable : ~NewFields[c].dirty) /\ NoRow \in RowOf
  /\ \A row \in RowOf : Fields0(row) \in [editable -> Input] /\ \A c \in editable : ~Fields0(row)[c].dirty
<1>1. \A v \in CellValues : initialField(v) \in Input /\ ~initialField(v).dirty
  BY DEF CellValues, initialField, Input
<1>2. NoValue \in CellValues
  BY DEF CellValues
<1>3. [initialField(NoValue) EXCEPT !.isNull = FALSE] \in Input /\ ~[initialField(NoValue) EXCEPT !.isNull = FALSE].dirty
  BY DEF initialField, Input
<1>4. \A c \in editable : c \in FormColumns
  BY DEF editable
<1> QED BY <1>1, <1>2, <1>3, <1>4 DEF NewFields, NoRow, Fields0, RowOf

\* The form that is shown instead: nothing is dirty in it.
LEMMA ShowsFits ==
  ASSUME NEW mode, NEW row \in RowOf, NEW inputs, inputs \in {NewFields, Fields0(row)}, Shows(mode, row, inputs),
         inputsSet' = {}
  PROVE  InputsFit'
<1>1. form' = [mode |-> mode, row |-> row, fields |-> inputs, no |-> form.no + 1, saving |-> FALSE]
  BY DEF Shows
<1>2. inputs \in [editable -> Input] /\ \A c \in editable : ~inputs[c].dirty
  BY FieldsFit
<1> QED BY <1>1, <1>2 DEF InputsFit, editable, Input, RowOf, CellValues

LEMMA PickerNumber == ASSUME NEW p \in PickerState PROVE p.no \in Nat /\ p.no + 1 \in Nat /\ p.no < p.no + 1
<1>1. p.no \in Nat
  BY DEF PickerState
<1> QED BY <1>1

LEMMA NotMore == ASSUME NEW m \in Nat, NEW n, n = m PROVE n <= m
OBVIOUS

LEMMA ClosedRecord ==
  ASSUME NEW m \in Nat, NEW p, p = [ClosedPicker EXCEPT !.no = m]
  PROVE  p \in PickerState /\ p.state = "closed" /\ p.no = m
BY DEF ClosedPicker, PickerState

LEMMA ClosedPickerFits ==
  ASSUME PickerFits, NEW p, p = [ClosedPicker EXCEPT !.no = picker.no + 1]
  PROVE  p \in PickerState /\ p.state = "closed" /\ p.no = picker.no + 1
<1>1. picker.no + 1 \in Nat
  BY PickerNumber DEF PickerFits
<1> QED BY <1>1, ClosedRecord, Zenon

\* A picker with another number is of no use to the searches before.
LEMMA PickerMovesOn ==
  ASSUME PickerFits, picker' \in PickerState, picker'.no = picker.no + 1, picker'.state # "shown",
         lookups' = lookups
  PROVE  PickerFits'
<1>1. picker.no \in Nat /\ picker'.no \in Nat /\ picker.no < picker'.no
  BY PickerNumber DEF PickerFits
<1>2. ASSUME NEW l \in lookups PROVE LookupFits(l)'
  <2>1. l \in Lookup /\ l.no \in Nat /\ l.no <= picker.no /\ \A v \in l.rows : l.q \in {"", v}
    BY DEF PickerFits, LookupFits, Lookup
  <2>2. l.no <= picker'.no /\ l.no # picker'.no
    <3>1. l.no \in Nat /\ l.no <= picker.no
      BY <2>1
    <3> QED BY <1>1, <3>1
  <2> QED BY <2>1, <2>2 DEF LookupFits, Lookup
<1> QED BY <1>2 DEF PickerFits, PickerShowsMatches, PickerState

LEMMA LeavesFits == ASSUME PickerFits, Leaves, lookups' = lookups PROVE PickerFits' /\ inputsSet' = {}
BY ClosedPickerFits, PickerMovesOn DEF Leaves

LEMMA SetFieldFits ==
  ASSUME InputsFit, NEW c \in editable, NEW text \in Texts \cup {""}, NEW isNull \in BOOLEAN, setField(c, text, isNull)
  PROVE  InputsFit'
<1>1. PICK f : f = [text |-> text, isNull |-> isNull, dirty |-> TRUE]
  OBVIOUS
<1>2. f \in Input
  BY <1>1 DEF Input
<1>3. form' = [form EXCEPT !.fields = [form.fields EXCEPT ![c] = f]] /\ inputsSet' = inputsSet \cup {c}
  BY <1>1 DEF setField
<1>4. /\ DOMAIN form' = DOMAIN form /\ form'.row = form.row
      /\ form'.fields = [form.fields EXCEPT ![c] = f]
  BY <1>3 DEF InputsFit
<1>5. form'.fields \in [editable -> Input] /\ \A d \in editable \ {c} : form'.fields[d] = form.fields[d]
  BY <1>2, <1>4 DEF InputsFit
<1>6. inputsSet' \subseteq editable /\ \A d \in editable : form'.fields[d].dirty => d \in inputsSet'
  BY <1>3, <1>5 DEF InputsFit
<1> QED BY <1>4, <1>5, <1>6 DEF InputsFit, editable, Input, RowOf, CellValues

LEMMA RowFormStarts == RowFormInit => RowFormInv
<1> SUFFICES ASSUME RowFormInit PROVE RowFormInv
  OBVIOUS
<1>1. dbRow \in RowOf /\ gridRow \in RowOf
  BY DEF RowFormInit, RowOf, CellValues
<1>2. InputsFit
  BY <1>1, FieldsFit DEF RowFormInit, InputsFit
<1>3. PickerFits
  BY DEF RowFormInit, PickerFits, PickerShowsMatches, ClosedPicker, PickerState
<1> QED BY <1>1, <1>2, <1>3 DEF RowFormInit, RowFormInv

\* A step of the drawer, the picker or the table that leaves the saves alone.
LEMMA RowParts ==
  ASSUME RowFormInv, dbRow' \in RowOf, gridRow' \in RowOf, linkable' \subseteq Texts, InputsFit', PickerFits',
         submits' \subseteq submits
  PROVE  RowFormInv'
BY DEF RowFormInv, SubmitFits, RowOf, CellValues, editable

LEMMA StillInputs == ASSUME InputsFit, UNCHANGED <<form, inputsSet>> PROVE InputsFit'
BY DEF InputsFit, editable, Input, RowOf, CellValues
LEMMA StillPicker == ASSUME PickerFits, UNCHANGED <<picker, lookups>> PROVE PickerFits'
BY DEF PickerFits, PickerShowsMatches, LookupFits, Lookup, PickerState
LEMMA StillTable == ASSUME RowFormInv, UNCHANGED tableState PROVE dbRow' \in RowOf /\ gridRow' \in RowOf /\ linkable' \subseteq Texts
BY DEF RowFormInv, tableState

LEMMA DrawerMovesKeep == ASSUME RowFormInv, ShowRow \/ EditShown \/ NewRow \/ CloseForm PROVE RowFormInv'
<1>1. /\ UNCHANGED tableState /\ UNCHANGED <<lookups, submits>> /\ Leaves
  BY DEF ShowRow, EditShown, NewRow, CloseForm
<1>2. PickerFits' /\ inputsSet' = {}
  BY <1>1, LeavesFits DEF RowFormInv
<1>3. gridRow \in RowOf /\ form.row \in RowOf /\ NoRow \in RowOf
  BY FieldsFit DEF RowFormInv, InputsFit
<1>4. InputsFit'
  BY <1>2, <1>3, ShowsFits DEF ShowRow, EditShown, NewRow, CloseForm
<1> QED BY <1>1, <1>2, <1>4, StillTable, RowParts

LEMMA SetInputKeeps == ASSUME RowFormInv, NEW c \in editable, SetInput(c) PROVE RowFormInv'
<1>1. UNCHANGED tableState /\ UNCHANGED <<picker, lookups, submits>>
  BY DEF SetInput
<1>2. form.fields[c] \in Input
  BY DEF RowFormInv, InputsFit
<1>3. PICK text \in Texts \cup {""}, isNull \in BOOLEAN : setField(c, text, isNull)
  BY <1>2 DEF SetInput, Input
<1>4. InputsFit'
  BY <1>3, SetFieldFits DEF RowFormInv
<1> QED BY <1>1, <1>4, StillTable, StillPicker, RowParts DEF RowFormInv

LEMMA PickerKeeps ==
  ASSUME RowFormInv,
         \/ \E c \in PickColumns : OpenPicker(c)
         \/ \E q \in Searches : TypeTerm(q)
         \/ LookupSent \/ ClosePicker
  PROVE  RowFormInv'
<1>1. picker \in PickerState /\ PickerFits
  BY DEF RowFormInv, PickerFits
<1>2. ASSUME NEW c \in PickColumns, OpenPicker(c) PROVE RowFormInv'
  <2>1. PICK p : /\ p = [ClosedPicker EXCEPT !.col = {c}, !.state = "loading", !.timer = TRUE, !.no = picker.no + 1]
                 /\ picker' = p
    BY <1>2 DEF OpenPicker
  <2>2. p \in PickerState /\ p.no = picker.no + 1 /\ p.state = "loading"
    <3>1. picker.no + 1 \in Nat
      BY <1>1, PickerNumber
    <3>2. p = [col |-> {c}, q |-> "", rows |-> {}, state |-> "loading", timer |-> TRUE, no |-> picker.no + 1]
      BY <2>1 DEF ClosedPicker
    <3> QED BY <3>1, <3>2 DEF PickerState
  <2>3. PickerFits'
    BY <1>1, <1>2, <2>1, <2>2, PickerMovesOn DEF OpenPicker
  <2> QED BY <1>2, <2>3, StillTable, StillInputs, RowParts DEF OpenPicker, RowFormInv
<1>3. ASSUME NEW q \in Searches, TypeTerm(q) PROVE RowFormInv'
  <2>. DEFINE now == IF picker.state = "failed" THEN picker.state ELSE "loading"
  <2>0. now \in {"failed", "loading"}
    OBVIOUS
  <2>. HIDE DEF now
  <2>1. PICK p : p = [picker EXCEPT !.q = q, !.state = now, !.timer = TRUE, !.no = picker.no + 1] /\ picker' = p
    BY <1>3 DEF TypeTerm, now
  <2>2. p \in PickerState /\ p.no = picker.no + 1 /\ p.state # "shown"
    <3>1. picker.no + 1 \in Nat
      BY <1>1, PickerNumber
    <3>2. p = [picker EXCEPT !.q = q, !.state = now, !.timer = TRUE, !.no = picker.no + 1]
      BY <2>1, Zenon
    <3>3. picker \in PickerState /\ q \in Searches
      BY <1>1
    <3>4. \A m \in Nat : p = [picker EXCEPT !.q = q, !.state = now, !.timer = TRUE, !.no = m]
            => p \in PickerState /\ p.state # "shown" /\ p.no = m
      BY <2>0, <3>3 DEF PickerState
    <3> QED BY <3>1, <3>2, <3>4, Zenon
  <2>3. PickerFits'
    BY <1>1, <1>3, <2>1, <2>2, PickerMovesOn DEF TypeTerm
  <2> QED BY <1>3, <2>3, StillTable, StillInputs, RowParts DEF TypeTerm, RowFormInv
<1>4. CASE LookupSent
  <2>1. PICK l : /\ l = [q |-> picker.q, no |-> picker.no, pc |-> "asked", rows |-> {}]
                 /\ lookups' = lookups \cup {l}
    BY <1>4 DEF LookupSent
  <2>2. PICK p : p = [picker EXCEPT !.timer = FALSE] /\ picker' = p
    BY <1>4 DEF LookupSent
  <2>3. /\ p \in PickerState /\ p.no = picker.no /\ p.q = picker.q /\ p.state = picker.state
        /\ p.rows = picker.rows
    BY <1>1, <2>2 DEF PickerState
  <2>4. LookupFits(l)
    <3>1. picker.no \in Nat /\ picker.q \in Searches \cup {""}
      BY <1>1 DEF PickerState
    <3>2. l.q = picker.q /\ l.no = picker.no /\ l.rows = {} /\ l \in Lookup
      BY <2>1, <3>1 DEF Lookup
    <3>3. l.no <= picker.no
      BY <3>1, <3>2, NotMore, Zenon
    <3>4. \A v \in l.rows : l.q \in {"", v}
      BY <3>2
    <3> QED BY <3>2, <3>3, <3>4 DEF LookupFits
  <2>5. \A k \in lookups' : LookupFits(k)'
    BY <1>1, <2>1, <2>2, <2>3, <2>4 DEF PickerFits, LookupFits, Lookup
  <2>6. PickerFits'
    BY <1>1, <2>2, <2>3, <2>5 DEF PickerFits, PickerShowsMatches, PickerState
  <2> QED BY <1>4, <2>6, StillTable, StillInputs, RowParts DEF LookupSent, RowFormInv
<1>5. CASE ClosePicker
  <2>1. PickerFits'
    BY <1>1, <1>5, ClosedPickerFits, PickerMovesOn DEF ClosePicker
  <2>2. InputsFit'
    <3>1. CASE UNCHANGED <<form, inputsSet>>
      BY <3>1, StillInputs DEF RowFormInv
    <3>2. ASSUME NEW c \in picker.col, NEW v \in picker.rows, setField(c, v, FALSE) PROVE InputsFit'
      <4>1. c \in editable /\ v \in Texts
        BY <1>1, RowAssumption DEF RowAssumption, PickerState, editable
      <4> QED BY <3>2, <4>1, SetFieldFits DEF RowFormInv
    <3> QED BY <1>5, <3>1, <3>2 DEF ClosePicker
  <2> QED BY <1>5, <2>1, <2>2, StillTable, RowParts DEF ClosePicker
<1> QED BY <1>2, <1>3, <1>4, <1>5

\* An answer is taken while the box says what it was asked for.
LEMMA LookupKeeps == ASSUME RowFormInv, NEW l \in lookups, LookupRead(l) \/ LookupArrives(l) PROVE RowFormInv'
<1>1. picker \in PickerState /\ PickerFits /\ LookupFits(l) /\ l \in Lookup
  BY DEF RowFormInv, PickerFits, LookupFits
<1>2. CASE LookupRead(l)
  <2>1. PICK k : k = [l EXCEPT !.pc = "read", !.rows = FoundBy(l.q)] /\ lookups' = (lookups \ {l}) \cup {k}
    BY <1>2 DEF LookupRead
  <2>2. FoundBy(l.q) \subseteq Texts /\ \A v \in FoundBy(l.q) : l.q \in {"", v}
    BY DEF FoundBy, RowFormInv
  <2>3. k \in Lookup /\ k.q = l.q /\ k.no = l.no /\ k.rows = FoundBy(l.q)
    BY <1>1, <2>1, <2>2 DEF Lookup
  <2>4. LookupFits(k)
    BY <1>1, <2>2, <2>3 DEF LookupFits
  <2>5. picker' = picker
    BY <1>2 DEF LookupRead
  <2>6. \A j \in lookups' : LookupFits(j)'
    BY <1>1, <2>1, <2>4, <2>5 DEF PickerFits, LookupFits, Lookup
  <2>7. PickerFits'
    BY <1>1, <2>5, <2>6 DEF PickerFits, PickerShowsMatches, PickerState
  <2> QED BY <1>2, <2>7, StillTable, StillInputs, RowParts DEF LookupRead, RowFormInv
<1>3. CASE LookupArrives(l)
  <2>1. PICK p : /\ picker' = p
                 /\ \/ p = picker
                    \/ l.no = picker.no /\ p = [picker EXCEPT !.rows = l.rows, !.state = "shown"]
                    \/ p = [picker EXCEPT !.state = "failed"]
    BY <1>3 DEF LookupArrives, Wanted
  <2>2. p \in PickerState /\ p.no = picker.no /\ p.q = picker.q
    BY <1>1, <2>1 DEF PickerState, Lookup
  <2>3. p.state = "shown" => \A v \in p.rows : p.q \in {"", v}
    <3>1. CASE p = picker
      BY <1>1, <3>1 DEF PickerFits, PickerShowsMatches
    <3>2. CASE l.no = picker.no /\ p = [picker EXCEPT !.rows = l.rows, !.state = "shown"]
      <4>1. p.rows = l.rows /\ picker.q = l.q
        BY <1>1, <3>2 DEF PickerState, LookupFits
      <4> QED BY <1>1, <2>2, <4>1 DEF LookupFits
    <3>3. CASE p = [picker EXCEPT !.state = "failed"]
      BY <1>1, <3>3 DEF PickerState
    <3> QED BY <2>1, <3>1, <3>2, <3>3
  <2>4. \A j \in lookups' : LookupFits(j)'
    BY <1>1, <1>3, <2>1, <2>2 DEF LookupArrives, PickerFits, LookupFits, Lookup
  <2>5. PickerFits'
    BY <2>1, <2>2, <2>3, <2>4 DEF PickerFits, PickerShowsMatches, PickerState
  <2> QED BY <1>3, <2>5, StillTable, StillInputs, RowParts DEF LookupArrives, RowFormInv
<1> QED BY <1>2, <1>3

\* What is sent is what is dirty, so what was set.
LEMMA SubmitKeeps == ASSUME RowFormInv, Submit PROVE RowFormInv'
<1>1. PICK s : /\ s = [mode |-> form.mode, values |-> Sent(form.fields), no |-> form.no,
                       set |-> inputsSet, row |-> NoRow, pc |-> "sent"]
               /\ submits' = submits \cup {s}
  BY DEF Submit
<1>2. \A c \in editable : form.fields[c] \in Input
  BY DEF RowFormInv, InputsFit
<1>3. DOMAIN Sent(form.fields) \subseteq inputsSet /\ DOMAIN Sent(form.fields) \subseteq editable
  BY DEF RowFormInv, InputsFit, Sent
<1>4. \A c \in DOMAIN Sent(form.fields) : Sent(form.fields)[c] \in CellValues
  BY <1>2 DEF Sent, wireValue, Input, CellValues
<1>5. SubmitFits(s)
  BY <1>1, <1>3, <1>4, FieldsFit DEF SubmitFits
<1>6. \A x \in submits' : SubmitFits(x)'
  BY <1>1, <1>5 DEF RowFormInv, SubmitFits, RowOf, CellValues, editable
<1>7. InputsFit'
  <2>1. form' = [form EXCEPT !.saving = TRUE] /\ inputsSet' = inputsSet
    BY DEF Submit
  <2>2. DOMAIN form' = DOMAIN form /\ form'.row = form.row /\ form'.fields = form.fields
    BY <2>1 DEF RowFormInv, InputsFit
  <2> QED BY <2>1, <2>2 DEF RowFormInv, InputsFit, editable, Input, RowOf, CellValues
<1>8. PickerFits'
  BY StillPicker DEF Submit, RowFormInv
<1> QED BY <1>6, <1>7, <1>8, StillTable DEF Submit, RowFormInv

LEMMA RunSubmitKeeps == ASSUME RowFormInv, NEW s \in submits, RunSubmit(s) PROVE RowFormInv'
<1> DEFINE row == Merged(IF s.mode = "new" THEN NoRow ELSE dbRow, s.values)
<1>1. SubmitFits(s) /\ dbRow \in RowOf
  BY DEF RowFormInv
<1>2. row \in RowOf
  BY <1>1, FieldsFit DEF Merged, SubmitFits, RowOf
<1>3. dbRow' = dbRow \/ dbRow' = row
  BY DEF RunSubmit
<1>4. PICK x : /\ submits' = (submits \ {s}) \cup {x}
               /\ x = [s EXCEPT !.pc = "done", !.row = row] \/ x = [s EXCEPT !.pc = "failed", !.row = row]
  BY DEF RunSubmit
<1>5. /\ DOMAIN x = DOMAIN s /\ x.values = s.values /\ x.set = s.set /\ x.row = row
  BY <1>1, <1>4 DEF SubmitFits
<1>6. SubmitFits(x)
  BY <1>1, <1>2, <1>5 DEF SubmitFits
<1>7. \A y \in submits' : SubmitFits(y)'
  BY <1>4, <1>6 DEF RowFormInv, SubmitFits, RowOf, CellValues, editable
<1>8. UNCHANGED <<gridRow, linkable, form, inputsSet, picker, lookups>>
  BY DEF RunSubmit
<1>9. dbRow' \in RowOf /\ gridRow' \in RowOf /\ linkable' \subseteq Texts
  BY <1>1, <1>2, <1>3, <1>8 DEF RowFormInv
<1> QED BY <1>7, <1>8, <1>9, StillInputs, StillPicker DEF RowFormInv, RowOf, CellValues

LEMMA SubmitArrivesKeeps == ASSUME RowFormInv, NEW s \in submits, SubmitArrives(s) PROVE RowFormInv'
<1>1. SubmitFits(s) /\ UNCHANGED tableState /\ lookups' = lookups /\ submits' \subseteq submits
  BY DEF RowFormInv, SubmitArrives
<1>2. CASE s.pc = "done"
  <2>1. Shows("view", s.row, NewFields) /\ Leaves
    BY <1>2 DEF SubmitArrives
  <2>2. PickerFits' /\ inputsSet' = {}
    BY <1>1, <2>1, LeavesFits DEF RowFormInv
  <2>3. InputsFit'
    BY <1>1, <2>1, <2>2, ShowsFits DEF SubmitFits
  <2> QED BY <1>1, <2>2, <2>3, StillTable, RowParts
<1>3. CASE s.pc # "done"
  <2>1. form' = [form EXCEPT !.saving = @ /\ s.no # form.no] /\ UNCHANGED <<inputsSet, picker>>
    BY <1>3 DEF SubmitArrives
  <2>2. DOMAIN form' = DOMAIN form /\ form'.row = form.row /\ form'.fields = form.fields
    BY <2>1 DEF RowFormInv, InputsFit
  <2>3. InputsFit'
    BY <2>1, <2>2 DEF RowFormInv, InputsFit, editable, Input, RowOf, CellValues
  <2> QED BY <1>1, <2>1, <2>3, StillTable, StillPicker, RowParts DEF RowFormInv
<1> QED BY <1>2, <1>3

LEMMA RowFormStep == RowFormInv /\ [RowFormNext]_rowFormVars => RowFormInv'
<1> SUFFICES ASSUME RowFormInv, [RowFormNext]_rowFormVars PROVE RowFormInv'
  OBVIOUS
<1>1. CASE UNCHANGED rowFormVars
  BY <1>1, StillInputs, StillPicker, StillTable, RowParts DEF rowFormVars, tableState, RowFormInv
<1>2. CASE GridReread
  BY <1>2, StillInputs, StillPicker, RowParts DEF GridReread, RowFormInv
<1>3. CASE OthersWrite
  <2>1. dbRow' \in RowOf /\ linkable' \subseteq Texts
    BY <1>3 DEF OthersWrite, RowFormInv, RowOf, CellValues
  <2> QED BY <1>3, <2>1, StillInputs, StillPicker, RowParts DEF OthersWrite, RowFormInv
<1> QED BY <1>1, <1>2, <1>3, DrawerMovesKeep, SetInputKeeps, PickerKeeps, LookupKeeps, SubmitKeeps, RunSubmitKeeps,
           SubmitArrivesKeeps DEF RowFormNext

LEMMA RowFormTyped == RowFormInv => RowFormTypeOK /\ PickerShowsMatches
BY DEF RowFormInv, RowFormTypeOK, PickerFits, InputsFit, PickerState, SubmitFits, RowOf

\* The row changes by a save that set the column, or by others.
LEMMA RowTroubles == rowOthers \in Nat /\ [RowFormNext]_rowFormVars => rowOthers' \in Nat
<1>1. [RowFormNext]_rowFormVars => rowOthers' = rowOthers \/ rowOthers' = rowOthers + 1
  BY DEF RowFormNext, rowFormVars, RowTrouble, ShowRow, EditShown, NewRow, CloseForm, Submit, SetInput, OpenPicker,
     TypeTerm, LookupSent, ClosePicker, GridReread, LookupRead, LookupArrives, SubmitArrives, RunSubmit, OthersWrite
<1> QED BY <1>1

LEMMA RowSavesSpare == RowFormInv /\ rowOthers \in Nat /\ [RowFormNext]_rowFormVars => RowSaveSpares
<1> SUFFICES ASSUME RowFormInv, rowOthers \in Nat, [RowFormNext]_rowFormVars, NEW c \in FormColumns, dbRow'[c] # dbRow[c]
             PROVE  \/ rowOthers' > rowOthers /\ submits' = submits
                    \/ \E s \in submits : s.pc = "sent" /\ s \notin submits' /\ c \in s.set
  BY DEF RowSaveSpares
<1>1. CASE OthersWrite
  BY <1>1 DEF OthersWrite, RowTrouble
<1>2. ASSUME NEW s \in submits, RunSubmit(s) PROVE s.pc = "sent" /\ s \notin submits' /\ c \in s.set
  <2>1. SubmitFits(s) /\ s.pc = "sent" /\ dbRow \in RowOf
    BY <1>2 DEF RowFormInv, RunSubmit
  <2>2. PICK x : /\ submits' = (submits \ {s}) \cup {x} /\ x.pc # "sent"
    <3>1. PICK x, r : /\ submits' = (submits \ {s}) \cup {x}
                      /\ x = [s EXCEPT !.pc = "done", !.row = r] \/ x = [s EXCEPT !.pc = "failed", !.row = r]
      BY <1>2 DEF RunSubmit
    <3>2. x.pc # "sent"
      BY <2>1, <3>1 DEF SubmitFits
    <3> QED BY <3>1, <3>2
  <2>3. dbRow' = Merged(dbRow, s.values)
    BY <1>2 DEF RunSubmit
  <2>4. c \in DOMAIN s.values
    BY <2>1, <2>3 DEF Merged, RowOf
  <2> QED BY <2>1, <2>2, <2>4 DEF SubmitFits
<1>3. OthersWrite \/ \E s \in submits : RunSubmit(s)
  BY DEF RowFormNext, rowFormVars, tableState, ShowRow, EditShown, NewRow, CloseForm, Submit, SetInput, OpenPicker,
     TypeTerm, LookupSent, ClosePicker, GridReread, LookupRead, LookupArrives, SubmitArrives
<1> QED BY <1>1, <1>2, <1>3

-----------------------------------------------------------------------------
(* The column editor.                                                      *)

SchemaIn(f) ==
  /\ DOMAIN f = Owners
  /\ \A t \in Owners : DOMAIN f[t] \subseteq ColumnNames /\ \A c \in DOMAIN f[t] : f[t][c] \in Column

\* An input that differs from the column on screen was typed for it, or came along
\* from another; what is previewed differs.
EditorFits ==
  /\ DOMAIN draft = Ops /\ DOMAIN typedFor = Ops /\ previewed \subseteq Ops
  /\ \A op \in Ops : draft[op] \in Values(op) /\ typedFor[op] \subseteq Owners \X ColumnNames
  /\ \A x \in OnScreen : \A op \in Ops : Ready(x, op) => carried \/ typedFor[op] = {x.col.id}
  /\ \A x \in OnScreen : \A op \in previewed : Ready(x, op)

AlterFits(a) ==
  /\ DOMAIN a = {"op", "t", "c", "to", "editor", "meant", "aimed", "carried", "pc"}
  /\ a.op \in Ops /\ a.t \in Owners /\ a.to \in Values(a.op)
  /\ a.carried \/ a.meant = {a.aimed}

EditInv ==
  /\ SchemaIn(columns) /\ SchemaIn(data) /\ SchemaIn(schemaFetch.read)
  /\ DOMAIN schemaFetch = {"pc", "read"}
  /\ Alone(selected) /\ selected \subseteq Owners /\ Alone(editing)
  /\ EditorFits /\ \A a \in alters : AlterFits(a)
  /\ \A op \in Ops : Values(op) # {}

\* What is on screen is a column of the schema shown.
LEMMA ScreenShowsColumn ==
  ASSUME NEW chosen, NEW name, NEW shown, SchemaIn(shown), chosen \subseteq Owners, NEW x \in On(chosen, name, shown)
  PROVE  /\ x.t \in chosen /\ x.c \in name /\ x.c \in ColumnNames /\ x.col = shown[x.t][x.c] /\ x.col \in Column
         /\ x = [t |-> x.t, c |-> x.c, col |-> x.col]
<1>1. PICK p \in chosen \X name : p[2] \in DOMAIN shown[p[1]] /\ x = [t |-> p[1], c |-> p[2], col |-> shown[p[1]][p[2]]]
  BY DEF On
<1>2. p[1] \in chosen /\ p[2] \in name
  BY <1>1
<1> QED BY <1>1, <1>2 DEF SchemaIn

LEMMA OneOnScreen ==
  ASSUME NEW chosen, NEW name, NEW shown, SchemaIn(shown), chosen \subseteq Owners, Alone(chosen), Alone(name)
  PROVE  Alone(On(chosen, name, shown))
<1> SUFFICES ASSUME NEW x \in On(chosen, name, shown), NEW y \in On(chosen, name, shown) PROVE x = y
  BY DEF Alone
<1>1. x.t = y.t /\ x.c = y.c /\ x.col = y.col
  BY ScreenShowsColumn DEF Alone
<1> QED BY <1>1, ScreenShowsColumn

LEMMA ShownHas ==
  ASSUME NEW x, x.c \in ColumnNames, x.col \in Column, NEW op \in Ops PROVE Has(x, op) \in Values(op)
BY DEF Has, Values, Column, Ops

LEMMA BlankInputs ==
  ASSUME EditInv
  PROVE  /\ DOMAIN NoInput = Ops /\ DOMAIN Untyped = Ops
         /\ \A op \in Ops : NoInput[op] \in Values(op) /\ Untyped[op] = {}
<1>1. \A op \in Ops : (CHOOSE v \in Values(op) : TRUE) \in Values(op)
  BY DEF EditInv
<1> QED BY <1>1 DEF NoInput, Untyped

\* The editor turns to whatever the selection, the name and the schema say.
LEMMA TurnsKeep ==
  ASSUME EditInv, SchemaIn(data'), Alone(selected'), selected' \subseteq Owners, Alone(editing'), Turns
  PROVE  EditorFits'
<1> DEFINE was == OnScreen
           now == On(selected', editing', data')
<1>1. OnScreen' = now
  BY DEF OnScreen, On
<1>2. EditorFits /\ Alone(now)
  BY OneOnScreen DEF EditInv
<1>3. CASE now = {}
  <2>1. draft' = NoInput /\ typedFor' = Untyped /\ previewed' = {}
    BY <1>3 DEF Turns
  <2> QED BY <1>1, <1>3, <2>1, BlankInputs DEF EditorFits, Values
<1>4. ASSUME NEW y \in now PROVE EditorFits'
  <2>1. y.c \in ColumnNames /\ y.col \in Column /\ \A z \in now : z = y
    BY <1>2, <1>4, ScreenShowsColumn DEF Alone
  <2>2. CASE \E x \in was : SameColumn(x, y)
    <3>1. PICK x \in was : x.c = y.c /\ x.col.at = y.col.at
      BY <2>2 DEF SameColumn
    <3>2. \A z \in was : z = x
      BY OneOnScreen DEF EditInv, OnScreen, Alone
    <3>3. /\ UNCHANGED <<draft, typedFor>>
          /\ previewed' = IF x.t = y.t THEN previewed ELSE {}
          /\ carried' = (carried \/ x.col.id # y.col.id)
      BY <1>4, <2>2, <3>1, <3>2 DEF Turns
    <3>4. \A op \in Ops : Has(x, op) = Has(y, op)
      BY <3>1 DEF Has
    <3>5. ASSUME NEW op \in Ops, draft[op] # Has(y, op) PROVE carried' \/ typedFor'[op] = {y.col.id}
      <4>1. carried \/ typedFor[op] = {x.col.id}
        BY <1>2, <3>4, <3>5 DEF EditorFits, Ready
      <4> QED BY <3>3, <4>1
    <3>6. \A op \in previewed' : draft[op] # Has(y, op)
      BY <1>2, <3>3, <3>4 DEF EditorFits, Ready
    <3>7. previewed' \subseteq Ops
      BY <1>2, <3>3 DEF EditorFits
    <3> QED BY <1>1, <1>2, <2>1, <3>3, <3>5, <3>6, <3>7 DEF EditorFits, Ready, Has, Values
  <2>3. CASE ~ \E x \in was : SameColumn(x, y)
    <3>1. draft' = [op \in Ops |-> Has(y, op)] /\ typedFor' = Untyped /\ previewed' = {}
      BY <1>4, <2>3 DEF Turns
    <3>2. \A op \in Ops : Has(y, op) \in Values(op)
      BY <2>1, ShownHas
    <3> QED BY <1>1, <2>1, <3>1, <3>2, BlankInputs DEF EditorFits, Ready, Has, Values
  <2> QED BY <2>2, <2>3
<1> QED BY <1>3, <1>4

\* A step that turns the editor, if it does, and changes no column.
LEMMA TurningKeeps ==
  ASSUME EditInv, UNCHANGED columns, Turns, SchemaIn(data'), Alone(selected'), selected' \subseteq Owners,
         Alone(editing'), alters' \subseteq alters, SchemaIn(schemaFetch'.read),
         DOMAIN schemaFetch' = {"pc", "read"}
  PROVE  EditInv'
<1>1. EditorFits'
  BY TurnsKeep
<1>2. SchemaIn(columns)' /\ SchemaIn(data)' /\ SchemaIn(schemaFetch.read)'
  BY DEF EditInv, SchemaIn
<1>3. \A a \in alters' : AlterFits(a)'
  BY DEF EditInv, AlterFits, Values
<1>4. \A op \in Ops : Values(op)' # {}
  BY DEF EditInv, Values
<1> QED BY <1>1, <1>2, <1>3, <1>4 DEF EditInv, Alone, Values

\* A step that leaves the editor as it is.
LEMMA StandingKeeps ==
  ASSUME EditInv, UNCHANGED <<data, selected, editing>>, UNCHANGED editorState, SchemaIn(columns'),
         SchemaIn(schemaFetch'.read), DOMAIN schemaFetch' = {"pc", "read"}, \A a \in alters' : AlterFits(a)
  PROVE  EditInv'
<1>1. EditorFits'
  BY DEF EditInv, EditorFits, editorState, OnScreen, On, Ready, Has, Values
<1>2. SchemaIn(columns)' /\ SchemaIn(data)' /\ SchemaIn(schemaFetch.read)'
  BY DEF EditInv, SchemaIn
<1>3. \A a \in alters' : AlterFits(a)'
  BY DEF AlterFits, Values
<1>4. \A op \in Ops : Values(op)' # {}
  BY DEF EditInv, Values
<1> QED BY <1>1, <1>2, <1>3, <1>4 DEF EditInv, Alone, Values

LEMMA EditStarts == EditInit => EditInv
<1> SUFFICES ASSUME EditInit PROVE EditInv
  OBVIOUS
<1>1. PICK names \in (SUBSET ColumnNames) \ {{}}, at \in [Owners -> [ColumnAttrs -> AttrValues]] :
        columns = [t \in Owners |-> [c \in names |-> [id |-> <<t, c>>, at |-> at[t]]]]
  BY DEF EditInit
<1>2. SchemaIn(columns)
  BY <1>1 DEF SchemaIn, Column
<1>3. \A op \in Ops : Values(op) # {}
  <2>1. PICK t \in Owners : TRUE
    BY DEF EditInit
  <2>2. \A op \in ColumnAttrs : at[t][op] \in AttrValues
    BY <1>1
  <2>3. names \in SUBSET ColumnNames /\ names # {}
    BY <1>1
  <2>4. \A op \in Ops : op = "rename" \/ op \in ColumnAttrs
    BY DEF Ops
  <2> QED BY <2>2, <2>3, <2>4 DEF Values
<1>4. OnScreen = {}
  BY DEF EditInit, OnScreen, On
<1>5. EditorFits
  <2>1. \A op \in Ops : (CHOOSE v \in Values(op) : TRUE) \in Values(op)
    BY <1>3
  <2> QED BY <1>4, <2>1 DEF EditInit, EditorFits, NoInput, Untyped
<1> QED BY <1>2, <1>3, <1>5 DEF EditInit, EditInv, Alone

\* What changes the selection, the name or the schema on screen.
LEMMA ScreenTurnsKeep ==
  ASSUME EditInv,
         \/ \E chosen \in {{}} \cup {{t} : t \in Owners} : SelectOwner(chosen)
         \/ \E c \in ColumnNames : EditColumn(c)
         \/ CloseEditor \/ SchemaArrives \/ \E a \in alters : AlterArrives(a)
  PROVE  EditInv'
<1>1. CASE \E chosen \in {{}} \cup {{t} : t \in Owners} : SelectOwner(chosen)
  <2>1. PICK chosen \in {{}} \cup {{t} : t \in Owners} : SelectOwner(chosen)
    BY <1>1
  <2>2. Alone(selected') /\ selected' \subseteq Owners
    BY <2>1 DEF SelectOwner, Alone
  <2> QED BY <2>1, <2>2, TurningKeeps DEF SelectOwner, EditInv
<1>2. CASE (\E c \in ColumnNames : EditColumn(c)) \/ CloseEditor
  <2>1. Alone(editing')
    BY <1>2 DEF EditColumn, CloseEditor, Alone
  <2> QED BY <1>2, <2>1, TurningKeeps DEF EditColumn, CloseEditor, EditInv
<1>3. CASE SchemaArrives
  <2>1. DOMAIN schemaFetch' = {"pc", "read"} /\ schemaFetch'.read = schemaFetch.read
    BY <1>3 DEF SchemaArrives, EditInv
  <2> QED BY <1>3, <2>1, TurningKeeps DEF SchemaArrives, EditInv
<1>4. ASSUME NEW a \in alters, AlterArrives(a) PROVE EditInv'
  <2>1. Alone(editing')
    BY <1>4 DEF AlterArrives, Alone, EditInv
  <2>2. DOMAIN schemaFetch' = {"pc", "read"} /\ schemaFetch'.read = schemaFetch.read
    BY <1>4 DEF AlterArrives, Refetching, EditInv
  <2> QED BY <1>4, <2>1, <2>2, TurningKeeps DEF AlterArrives, EditInv
<1> QED BY <1>1, <1>2, <1>3, <1>4

LEMMA TypeValueKeeps == ASSUME EditInv, NEW op \in Ops, TypeValue(op) PROVE EditInv'
<1>1. PICK x \in OnScreen, v \in Values(op) :
        /\ draft' = [draft EXCEPT ![op] = v]
        /\ typedFor' = [typedFor EXCEPT ![op] = IF v = Has(x, op) THEN {} ELSE {x.col.id}]
        /\ previewed' = previewed \ {op}
        /\ UNCHANGED <<columns, data, schemaFetch, selected, editing, carried, alters>>
  BY DEF TypeValue
<1>2. EditorFits /\ (\A z \in OnScreen : z = x) /\ x.col.id \in Owners \X ColumnNames
  <2>1. Alone(OnScreen)
    BY OneOnScreen DEF EditInv, OnScreen
  <2>2. x.col \in Column
    BY ScreenShowsColumn DEF EditInv, OnScreen
  <2> QED BY <2>1, <2>2 DEF EditInv, Alone, Column
<1>3. OnScreen' = OnScreen
  BY <1>1 DEF OnScreen, On
<1>4. \A o \in Ops : /\ draft'[o] = IF o = op THEN v ELSE draft[o]
                     /\ typedFor'[o] = IF o = op THEN IF v = Has(x, op) THEN {} ELSE {x.col.id} ELSE typedFor[o]
  BY <1>1, <1>2 DEF EditorFits
<1>5. EditorFits'
  <2>1. DOMAIN draft' = Ops /\ DOMAIN typedFor' = Ops /\ previewed' \subseteq Ops
    BY <1>1, <1>2 DEF EditorFits
  <2>2. \A o \in Ops : draft'[o] \in Values(o) /\ typedFor'[o] \subseteq Owners \X ColumnNames
    BY <1>2, <1>4 DEF EditorFits
  <2>3. \A o \in Ops : draft'[o] # Has(x, o) => carried' \/ typedFor'[o] = {x.col.id}
    BY <1>1, <1>2, <1>4 DEF EditorFits, Ready
  <2>4. \A o \in previewed' : draft'[o] # Has(x, o)
    BY <1>1, <1>2, <1>4 DEF EditorFits, Ready
  <2> QED BY <1>2, <1>3, <2>1, <2>2, <2>3, <2>4 DEF EditorFits, Ready, Has, Values
<1>6. SchemaIn(columns)' /\ SchemaIn(data)' /\ SchemaIn(schemaFetch.read)'
  BY <1>1 DEF EditInv, SchemaIn
<1>7. \A a \in alters' : AlterFits(a)'
  BY <1>1 DEF EditInv, AlterFits, Values
<1> QED BY <1>1, <1>5, <1>6, <1>7 DEF EditInv, Alone, Values

LEMMA PreviewShownKeeps == ASSUME EditInv, NEW op \in Ops, PreviewShown(op) PROVE EditInv'
<1>1. PICK x \in OnScreen : Ready(x, op) /\ previewed' = previewed \cup {op}
  BY DEF PreviewShown
<1>2. UNCHANGED <<columns, data, schemaFetch, selected, editing, draft, typedFor, carried, alters>>
  BY DEF PreviewShown
<1>3. EditorFits /\ (\A z \in OnScreen : z = x)
  BY OneOnScreen DEF EditInv, OnScreen, Alone
<1>4. EditorFits'
  BY <1>1, <1>2, <1>3 DEF EditorFits, OnScreen, On, Ready, Has, Values
<1>5. SchemaIn(columns)' /\ SchemaIn(data)' /\ SchemaIn(schemaFetch.read)'
  BY <1>2 DEF EditInv, SchemaIn
<1>6. \A a \in alters' : AlterFits(a)'
  BY <1>2 DEF EditInv, AlterFits, Values
<1> QED BY <1>2, <1>4, <1>5, <1>6 DEF EditInv, Alone, Values

\* What is applied is previewed, so it differs; so it was typed for this column.
LEMMA ApplyKeeps == ASSUME EditInv, NEW op \in Ops, Apply(op) PROVE EditInv'
<1>1. PICK x \in OnScreen : /\ op \in previewed
                            /\ alters' = alters \cup
                                 {[op |-> op, t |-> x.t, c |-> x.c, to |-> draft[op], editor |-> editorNo,
                                   meant |-> typedFor[op], aimed |-> x.col.id, carried |-> carried, pc |-> "sent"]}
                            /\ UNCHANGED <<columns, data, schemaFetch, selected, editing>> /\ UNCHANGED editorState
  BY DEF Apply
<1>2. PICK a : a = [op |-> op, t |-> x.t, c |-> x.c, to |-> draft[op], editor |-> editorNo,
                    meant |-> typedFor[op], aimed |-> x.col.id, carried |-> carried, pc |-> "sent"]
  OBVIOUS
<1>3. x.t \in Owners
  BY ScreenShowsColumn DEF EditInv, OnScreen
<1>4. carried \/ typedFor[op] = {x.col.id}
  BY <1>1 DEF EditInv, EditorFits
<1>5. AlterFits(a)
  BY <1>2, <1>3, <1>4 DEF AlterFits, EditInv, EditorFits
<1>6. \A b \in alters' : AlterFits(b)
  BY <1>1, <1>2, <1>5 DEF EditInv
<1> QED BY <1>1, <1>6, StandingKeeps DEF EditInv

LEMMA AlteredFits ==
  ASSUME EditInv, NEW t \in Owners, NEW c, NEW op \in Ops, NEW v \in Values(op), c \in DOMAIN columns[t]
  PROVE  SchemaIn(Altered(t, c, op, v))
<1>1. SchemaIn(columns) /\ columns[t][c] \in Column /\ DOMAIN columns[t] \subseteq ColumnNames /\ c \in ColumnNames
  BY DEF EditInv, SchemaIn
<1>2. PICK m : /\ Altered(t, c, op, v) = [columns EXCEPT ![t] = m]
               /\ m = IF op # "rename" THEN [columns[t] EXCEPT ![c].at[op] = v]
                      ELSE [n \in (DOMAIN columns[t] \ {c}) \cup {v} |-> IF n = v THEN columns[t][c] ELSE columns[t][n]]
  BY <1>1 DEF Altered, SchemaIn
<1>3. DOMAIN m \subseteq ColumnNames /\ \A n \in DOMAIN m : m[n] \in Column
  <2>1. CASE op = "rename"
    BY <1>1, <1>2, <2>1 DEF Values, SchemaIn
  <2>2. CASE op # "rename"
    <3>1. op \in ColumnAttrs /\ v \in AttrValues
      BY <2>2 DEF Ops, Values
    <3>2. [columns[t][c].at EXCEPT ![op] = v] \in [ColumnAttrs -> AttrValues]
      BY <1>1, <3>1 DEF Column
    <3>3. PICK k : k = [columns[t][c] EXCEPT !.at = [columns[t][c].at EXCEPT ![op] = v]]
      OBVIOUS
    <3>4. k \in Column
      BY <1>1, <3>2, <3>3 DEF Column
    <3>5. m = [columns[t] EXCEPT ![c] = k]
      BY <1>2, <2>2, <3>3
    <3> QED BY <1>1, <3>4, <3>5 DEF SchemaIn
  <2> QED BY <2>1, <2>2
<1> QED BY <1>1, <1>2, <1>3 DEF SchemaIn

LEMMA ColumnsChangeKeeps ==
  ASSUME EditInv,
         \/ \E a \in alters : RunAlter(a)
         \/ \E t \in Owners, c \in ColumnNames, op \in Ops : OthersAlter(t, c, op)
  PROVE  EditInv'
<1>1. ASSUME NEW a \in alters, RunAlter(a) PROVE EditInv'
  <2>1. AlterFits(a)
    BY DEF EditInv
  <2>2. SchemaIn(columns')
    BY <1>1, <2>1, AlteredFits DEF RunAlter, Builds, EditInv, AlterFits
  <2>3. PICK b : /\ b = [a EXCEPT !.pc = "done"] \/ b = [a EXCEPT !.pc = "failed"]
                 /\ alters' = (alters \ {a}) \cup {b}
    BY <1>1 DEF RunAlter
  <2>4. AlterFits(b)
    BY <2>1, <2>3 DEF AlterFits
  <2>5. \A x \in alters' : AlterFits(x)
    BY <2>3, <2>4 DEF EditInv
  <2> QED BY <1>1, <2>2, <2>5, StandingKeeps DEF RunAlter, EditInv
<1>2. ASSUME NEW t \in Owners, NEW c \in ColumnNames, NEW op \in Ops, OthersAlter(t, c, op) PROVE EditInv'
  <2>1. SchemaIn(columns')
    BY <1>2, AlteredFits DEF OthersAlter, Builds
  <2> QED BY <1>2, <2>1, StandingKeeps DEF OthersAlter, EditInv
<1> QED BY <1>1, <1>2

LEMMA EditStep == EditInv /\ [EditNext]_editVars => EditInv'
<1> SUFFICES ASSUME EditInv, [EditNext]_editVars PROVE EditInv'
  OBVIOUS
<1>1. CASE UNCHANGED editVars
  BY <1>1, StandingKeeps DEF editVars, editorState, EditInv
<1>2. CASE RefetchClicked
  <2>1. DOMAIN schemaFetch' = {"pc", "read"} /\ schemaFetch'.read = schemaFetch.read
    BY <1>2 DEF RefetchClicked, Refetching
  <2> QED BY <1>2, <2>1, StandingKeeps DEF RefetchClicked, EditInv
<1>3. CASE SchemaReads
  <2>1. DOMAIN schemaFetch' = {"pc", "read"} /\ schemaFetch'.read = columns
    BY <1>3 DEF SchemaReads
  <2> QED BY <1>3, <2>1, StandingKeeps DEF SchemaReads, EditInv
<1> QED BY <1>1, <1>2, <1>3, ScreenTurnsKeep, TypeValueKeeps, PreviewShownKeeps, ApplyKeeps, ColumnsChangeKeeps
        DEF EditNext

LEMMA EditTyped == EditInv => EditTypeOK /\ AppliesWhatWasTyped
<1> SUFFICES ASSUME EditInv PROVE EditTypeOK /\ AppliesWhatWasTyped
  OBVIOUS
<1>1. Cardinality(selected) <= 1 /\ Cardinality(editing) <= 1
  BY OneAtMost DEF EditInv, Alone
<1>2. EditTypeOK
  BY <1>1 DEF EditTypeOK, EditInv, SchemaIn, EditorFits, AlterFits
<1> QED BY <1>2 DEF EditInv, AppliesWhatWasTyped, EditorFits, AlterFits

-----------------------------------------------------------------------------
(* The permission matrix.                                                  *)

\* A matrix that was read, and not since outdone, is the role's: until the save of
\* its own screen is answered.
ScreenFollows(e) ==
  ~screen[e].moved /\ puts[e].stage # "done" =>
    /\ screen[e].load = "read" => screen[e].read = grants
    /\ screen[e].shown /\ screen[e].load = "none" => screen[e].saved = grants

\* A save beside no other has written each table it passed, unless it had nothing to.
Passed(p) ==
  \A i \in 1..Len(Order) : i < p.next =>
    Order[i] \in p.wrote \/ (p.grants[Order[i]] = {} /\ grants[Order[i]] = {})
\* Whatever stands beside it, a grant it passed is written.
GrantsWritten(p) ==
  \A i \in 1..Len(Order) : i < p.next /\ p.grants[Order[i]] # {} => Order[i] \in p.wrote
PutStandsAlone(e) ==
  /\ puts[e].stage = "sent" => puts[e].next = 1
  /\ Open(e) => GrantsWritten(puts[e])
  /\ Open(e) /\ puts[e].alone => Passed(puts[e]) /\ \A o \in Editors \ {e} : ~Open(o)

MatrixInv == MatrixTypeOK /\ \A e \in Editors : ScreenFollows(e) /\ PutStandsAlone(e)

LEMMA OrderFits == Len(Order) \in Nat /\ DOMAIN Order = 1..Len(Order) /\ \A i \in 1..Len(Order) : Order[i] \in TableSet
BY MatrixAssumption DEF MatrixAssumption, TableSet

LEMMA EmptyFits == Empty \in Matrix /\ NoPut \in Puts
<1>1. Empty \in Matrix
  BY DEF Empty, Matrix
<1> QED BY <1>1, OrderFits DEF NoPut, Puts

LEMMA MatrixStarts == MatrixInit => MatrixInv
<1> SUFFICES ASSUME MatrixInit PROVE MatrixInv
  OBVIOUS
<1>1. [saved |-> Empty, staged |-> Empty, shown |-> FALSE, load |-> "asked", read |-> Empty,
       moved |-> FALSE] \in Screens
  BY EmptyFits DEF Screens
<1>2. MatrixTypeOK
  BY <1>1, EmptyFits DEF MatrixInit, MatrixTypeOK
<1>3. \A e \in Editors : screen[e].load = "asked" /\ ~screen[e].shown /\ puts[e].stage = "none"
  BY DEF MatrixInit, NoPut
<1> QED BY <1>2, <1>3 DEF MatrixInv, ScreenFollows, PutStandsAlone, Open

\* A step of one screen.
LEMMA ScreenStep ==
  ASSUME MatrixInv, NEW e \in Editors, NEW s \in Screens, screen' = [screen EXCEPT ![e] = s],
         UNCHANGED <<grants, puts>>,
         ~s.moved /\ puts[e].stage # "done" =>
           (s.load = "read" => s.read = grants) /\ (s.shown /\ s.load = "none" => s.saved = grants)
  PROVE  MatrixInv'
<1>1. MatrixTypeOK'
  BY DEF MatrixInv, MatrixTypeOK
<1>2. ASSUME NEW o \in Editors PROVE ScreenFollows(o)' /\ PutStandsAlone(o)'
  <2>1. screen'[o] = IF o = e THEN s ELSE screen[o]
    BY DEF MatrixInv, MatrixTypeOK
  <2>2. ScreenFollows(o) /\ PutStandsAlone(o)
    BY DEF MatrixInv
  <2>3. PutStandsAlone(o)'
    BY <2>2 DEF PutStandsAlone, Open, Passed
  <2> QED BY <2>1, <2>2, <2>3 DEF ScreenFollows
<1> QED BY <1>1, <1>2 DEF MatrixInv

LEMMA ScreensKeep ==
  ASSUME MatrixInv, NEW e \in Editors, ReadGrants(e) \/ GrantsArrive(e) \/ Toggle(e) \/ DiscardStaged(e)
  PROVE  MatrixInv'
<1>1. screen[e] \in Screens /\ grants \in Matrix /\ ScreenFollows(e) /\ screen \in [Editors -> Screens]
  BY DEF MatrixInv, MatrixTypeOK
<1>2. CASE ReadGrants(e)
  <2>1. PICK s : /\ s = [screen[e] EXCEPT !.load = "read", !.read = grants, !.moved = FALSE]
                 /\ screen' = [screen EXCEPT ![e] = s]
    BY <1>1, <1>2 DEF ReadGrants
  <2>2. s \in Screens /\ s.load = "read" /\ s.read = grants
    BY <1>1, <2>1 DEF Screens
  <2> QED BY <1>2, <2>1, <2>2, ScreenStep DEF ReadGrants
<1>3. CASE GrantsArrive(e)
  <2>1. CASE screen[e].load = "read"
    <3>1. PICK s : /\ s = [screen[e] EXCEPT !.saved = screen[e].read, !.staged = screen[e].read, !.shown = TRUE, !.load = "none"]
                   /\ screen' = [screen EXCEPT ![e] = s]
      BY <1>1, <1>3, <2>1 DEF GrantsArrive
    <3>2. s \in Screens /\ s.load = "none" /\ s.saved = screen[e].read /\ s.moved = screen[e].moved
      BY <1>1, <3>1 DEF Screens
    <3>3. ~s.moved /\ puts[e].stage # "done" => s.saved = grants
      BY <1>1, <2>1, <3>2 DEF ScreenFollows
    <3> QED BY <1>3, <3>1, <3>2, <3>3, ScreenStep DEF GrantsArrive
  <2>2. CASE screen[e].load # "read"
    <3>1. PICK s : /\ s = [screen[e] EXCEPT !.load = "none", !.moved = TRUE]
                   /\ screen' = [screen EXCEPT ![e] = s]
      BY <1>1, <1>3, <2>2 DEF GrantsArrive
    <3>2. s \in Screens /\ s.moved
      BY <1>1, <3>1 DEF Screens
    <3> QED BY <1>3, <3>1, <3>2, ScreenStep DEF GrantsArrive
  <2> QED BY <2>1, <2>2
<1>4. CASE Toggle(e) \/ DiscardStaged(e)
  <2>1. PICK m \in Matrix : screen' = [screen EXCEPT ![e].staged = m]
    <3>1. CASE Toggle(e)
      <4>1. PICK ts \in {{t} : t \in TableSet} \cup {TableSet}, as \in SUBSET Actions :
              screen' = [screen EXCEPT ![e].staged = [t \in TableSet |-> IF t \in ts THEN as ELSE @[t]]]
        BY <3>1 DEF Toggle
      <4>2. [t \in TableSet |-> IF t \in ts THEN as ELSE screen[e].staged[t]] \in Matrix
        BY <1>1 DEF Screens, Matrix
      <4> QED BY <1>1, <4>1, <4>2
    <3>2. CASE DiscardStaged(e)
      BY <1>1, <3>2 DEF DiscardStaged, Screens
    <3> QED BY <1>4, <3>1, <3>2
  <2>2. PICK s : s = [screen[e] EXCEPT !.staged = m] /\ screen' = [screen EXCEPT ![e] = s]
    BY <2>1
  <2>3. s \in Screens /\ s.moved = screen[e].moved /\ s.load = screen[e].load /\ s.read = screen[e].read
        /\ s.shown = screen[e].shown /\ s.saved = screen[e].saved
    BY <1>1, <2>2 DEF Screens
  <2>4. ~s.moved /\ puts[e].stage # "done" =>
           (s.load = "read" => s.read = grants) /\ (s.shown /\ s.load = "none" => s.saved = grants)
    BY <1>1, <2>3 DEF ScreenFollows
  <2> QED BY <1>4, <2>2, <2>3, <2>4, ScreenStep DEF Toggle, DiscardStaged
<1> QED BY <1>2, <1>3, <1>4

\* A step of one save that opens and commits nothing.
LEMMA PutStep ==
  ASSUME MatrixInv, NEW e \in Editors, NEW p \in Puts, puts' = [puts EXCEPT ![e] = p],
         UNCHANGED <<grants, screen>>, puts[e].stage # "done", p.stage = "writing" => Open(e),
         p.stage = "sent" => p.next = 1,
         p.stage = "writing" => GrantsWritten(p),
         p.stage = "writing" /\ p.alone => puts[e].alone /\ Passed(p)
  PROVE  MatrixInv'
<1>1. MatrixTypeOK'
  BY DEF MatrixInv, MatrixTypeOK
<1>2. ASSUME NEW o \in Editors PROVE ScreenFollows(o)' /\ PutStandsAlone(o)'
  <2>1. \A x \in Editors : puts'[x] = IF x = e THEN p ELSE puts[x]
    BY DEF MatrixInv, MatrixTypeOK
  <2>2. ScreenFollows(o) /\ PutStandsAlone(o) /\ PutStandsAlone(e)
    BY DEF MatrixInv
  <2>3. ScreenFollows(o)'
    BY <2>1, <2>2 DEF ScreenFollows
  <2>4. \A x \in Editors : Open(x)' => Open(x)
    BY <2>1 DEF Open
  <2>5. CASE o = e
    <3>1. puts'[e] = p /\ puts'[e].stage = p.stage /\ puts'[e].alone = p.alone
      BY <2>1
    <3>2. Open(e)' /\ p.alone => Open(e) /\ puts[e].alone
      BY <3>1 DEF Open
    <3>3. Open(e)' /\ p.alone => \A x \in Editors \ {e} : ~Open(x)'
      BY <2>2, <2>4, <3>2 DEF PutStandsAlone
    <3>4. Open(e)' /\ p.alone => Passed(puts[e])'
      BY <3>1 DEF Open, Passed
    <3>5. Open(e)' => GrantsWritten(puts[e])'
      BY <3>1 DEF Open, GrantsWritten
    <3> QED BY <2>3, <2>5, <3>1, <3>3, <3>4, <3>5 DEF PutStandsAlone
  <2>6. CASE o # e
    <3>1. puts'[o] = puts[o] /\ (Open(o)' <=> Open(o))
      BY <2>1, <2>6 DEF Open
    <3>2. /\ Passed(puts[o]) => Passed(puts[o])'
          /\ GrantsWritten(puts[o]) => GrantsWritten(puts[o])'
      BY <3>1 DEF Passed, GrantsWritten
    <3> QED BY <2>2, <2>3, <2>4, <3>1, <3>2 DEF PutStandsAlone
  <2> QED BY <2>3, <2>5, <2>6
<1> QED BY <1>1, <1>2 DEF MatrixInv

LEMMA PutsKeep ==
  ASSUME MatrixInv, NEW e \in Editors, SaveMatrix(e) \/ WriteGrant(e) \/ FailPut(e)
  PROVE  MatrixInv'
<1>1. puts[e] \in Puts /\ screen[e] \in Screens /\ grants \in Matrix /\ puts \in [Editors -> Puts]
      /\ PutStandsAlone(e)
  BY DEF MatrixInv, MatrixTypeOK
<1>2. CASE SaveMatrix(e)
  <2>1. PICK p : p = [NoPut EXCEPT !.stage = "sent", !.grants = screen[e].staged] /\ puts' = [puts EXCEPT ![e] = p]
    BY <1>2 DEF SaveMatrix
  <2>2. p \in Puts /\ p.stage = "sent" /\ p.next = 1
    BY <1>1, <2>1, EmptyFits DEF Puts, Screens, NoPut
  <2>3. puts[e].stage # "done"
    BY <1>2 DEF SaveMatrix, Saving
  <2> QED BY <1>2, <2>1, <2>2, <2>3, PutStep DEF SaveMatrix
<1>3. CASE WriteGrant(e)
  <2> DEFINE t == Order[puts[e].next]
             w == IF Writes(e, t) THEN puts[e].wrote \cup {t} ELSE puts[e].wrote
  <2>1. PICK p : /\ p = [puts[e] EXCEPT !.next = puts[e].next + 1, !.wrote = w]
                 /\ puts' = [puts EXCEPT ![e] = p]
    BY <1>1, <1>3 DEF WriteGrant
  <2>2. Open(e) /\ puts[e].next <= Len(Order) /\ puts[e].next \in 1..(Len(Order) + 1)
    BY <1>1, <1>3 DEF WriteGrant, Puts
  <2>3. puts[e].next \in 1..Len(Order) /\ puts[e].next + 1 \in 1..(Len(Order) + 1) /\ t \in TableSet
    BY <2>2, OrderFits
  <2>4. w \in SUBSET TableSet
    BY <1>1, <2>3 DEF Puts
  <2>5. p \in Puts /\ p.stage = "writing" /\ p.alone = puts[e].alone /\ p.grants = puts[e].grants
        /\ p.next = puts[e].next + 1 /\ p.wrote = w
    BY <1>1, <2>1, <2>2, <2>3, <2>4 DEF Puts, Open
  <2>6. ASSUME p.alone PROVE Passed(p)
    <3> SUFFICES ASSUME NEW i \in 1..Len(Order), i < p.next
                 PROVE  Order[i] \in p.wrote \/ (p.grants[Order[i]] = {} /\ grants[Order[i]] = {})
      BY DEF Passed
    <3>1. CASE i = puts[e].next
      BY <2>5, <3>1 DEF Writes
    <3>2. CASE i # puts[e].next
      <4>1. i < puts[e].next
        BY <2>3, <2>5, <3>2, OrderFits
      <4> QED BY <1>1, <2>2, <2>5, <2>6, <4>1 DEF PutStandsAlone, Passed
    <3> QED BY <3>1, <3>2
  <2>7. GrantsWritten(p)
    <3> SUFFICES ASSUME NEW i \in 1..Len(Order), i < p.next, p.grants[Order[i]] # {}
                 PROVE  Order[i] \in p.wrote
      BY DEF GrantsWritten
    <3>1. CASE i = puts[e].next
      BY <2>5, <3>1 DEF Writes
    <3>2. CASE i # puts[e].next
      <4>1. i < puts[e].next
        BY <2>3, <2>5, <3>2, OrderFits
      <4> QED BY <1>1, <2>2, <2>5, <4>1 DEF PutStandsAlone, GrantsWritten
    <3> QED BY <3>1, <3>2
  <2>8. UNCHANGED <<grants, screen>> /\ puts[e].stage # "done"
    BY <1>3, <2>2 DEF WriteGrant, Open
  <2> QED BY <2>1, <2>2, <2>5, <2>6, <2>7, <2>8, PutStep
<1>4. CASE FailPut(e)
  <2>1. PICK p : p = [puts[e] EXCEPT !.stage = "failed", !.wrote = {}] /\ puts' = [puts EXCEPT ![e] = p]
    BY <1>1, <1>4 DEF FailPut
  <2>2. p \in Puts /\ p.stage = "failed"
    BY <1>1, <2>1 DEF Puts
  <2>3. puts[e].stage # "done"
    BY <1>4 DEF FailPut
  <2> QED BY <1>4, <2>1, <2>2, <2>3, PutStep DEF FailPut
<1> QED BY <1>2, <1>3, <1>4

LEMMA BeginPutKeeps == ASSUME MatrixInv, NEW e \in Editors, BeginPut(e) PROVE MatrixInv'
<1>1. /\ puts[e].stage = "sent" /\ UNCHANGED <<grants, screen>>
      /\ puts' = [f \in Editors |->
           CASE f = e -> [puts[e] EXCEPT !.stage = "writing", !.alone = \A o \in Editors : ~Open(o)]
             [] f # e /\ Open(f) -> [puts[f] EXCEPT !.alone = FALSE]
             [] OTHER -> puts[f]]
  BY DEF BeginPut
<1>2. \A f \in Editors : puts[f] \in Puts
  BY DEF MatrixInv, MatrixTypeOK
<1>3. PICK p : p = [puts[e] EXCEPT !.stage = "writing", !.alone = \A o \in Editors : ~Open(o)]
  OBVIOUS
<1>4. p \in Puts /\ p.stage = "writing" /\ p.next = puts[e].next /\ (p.alone <=> \A o \in Editors : ~Open(o))
  BY <1>2, <1>3 DEF Puts
<1>5. puts'[e] = p
  BY <1>1, <1>3
<1>6. \A f \in Editors \ {e} :
        /\ Open(f) => puts'[f] = [puts[f] EXCEPT !.alone = FALSE]
        /\ ~Open(f) => puts'[f] = puts[f]
  BY <1>1
<1>7. \A f \in Editors \ {e} : /\ puts'[f] \in Puts /\ puts'[f].stage = puts[f].stage
                               /\ Open(f) => ~puts'[f].alone
                               /\ puts'[f].next = puts[f].next /\ puts'[f].grants = puts[f].grants
                               /\ puts'[f].wrote = puts[f].wrote
  <2> SUFFICES ASSUME NEW f \in Editors \ {e}
               PROVE  /\ puts'[f] \in Puts /\ puts'[f].stage = puts[f].stage
                      /\ Open(f) => ~puts'[f].alone
                      /\ puts'[f].next = puts[f].next /\ puts'[f].grants = puts[f].grants
                      /\ puts'[f].wrote = puts[f].wrote
    OBVIOUS
  <2>1. CASE Open(f)
    <3>1. PICK q : q = [puts[f] EXCEPT !.alone = FALSE] /\ puts'[f] = q
      BY <1>6, <2>1
    <3>2. /\ q \in Puts /\ q.stage = puts[f].stage /\ ~q.alone
          /\ q.next = puts[f].next /\ q.grants = puts[f].grants /\ q.wrote = puts[f].wrote
      BY <1>2, <3>1 DEF Puts
    <3> QED BY <3>1, <3>2
  <2>2. CASE ~Open(f)
    BY <1>2, <1>6, <2>2
  <2> QED BY <2>1, <2>2
<1>8. MatrixTypeOK'
  <2>1. puts' \in [Editors -> Puts]
    BY <1>1, <1>4, <1>5, <1>7
  <2> QED BY <1>1, <2>1 DEF MatrixInv, MatrixTypeOK
<1>9. \A f \in Editors \ {e} : /\ ScreenFollows(f)'
                               /\ PutStandsAlone(f)'
  <2> SUFFICES ASSUME NEW f \in Editors \ {e} PROVE ScreenFollows(f)' /\ PutStandsAlone(f)'
    OBVIOUS
  <2>1. ScreenFollows(f) /\ PutStandsAlone(f)
    BY DEF MatrixInv
  <2>2. ScreenFollows(f)'
    BY <1>1, <1>7, <2>1 DEF ScreenFollows
  <2>3. CASE Open(f)
    <3>1. puts'[f].stage # "sent" /\ ~puts'[f].alone
      BY <1>7, <2>3 DEF Open
    <3>2. GrantsWritten(puts[f])'
      BY <1>7, <2>1, <2>3 DEF PutStandsAlone, GrantsWritten
    <3> QED BY <2>2, <3>1, <3>2 DEF PutStandsAlone
  <2>4. CASE ~Open(f)
    <3>1. puts'[f] = puts[f]
      BY <1>6, <2>4
    <3>2. ~Open(f)'
      BY <2>4, <3>1 DEF Open
    <3> QED BY <2>2, <2>1, <3>1, <3>2 DEF PutStandsAlone
  <2> QED BY <2>2, <2>3, <2>4
<1>10. ScreenFollows(e)'
  BY <1>1, <1>4, <1>5 DEF MatrixInv, ScreenFollows
<1>11. PutStandsAlone(e)'
  <2>1. p.next = 1
    BY <1>1, <1>4 DEF MatrixInv, PutStandsAlone
  <2>2. Passed(puts[e])' /\ GrantsWritten(puts[e])'
    BY <1>5, <2>1 DEF Passed, GrantsWritten
  <2>3. p.alone => \A o \in Editors \ {e} : ~Open(o)'
    BY <1>4, <1>6 DEF Open
  <2> QED BY <1>4, <1>5, <2>2, <2>3 DEF PutStandsAlone
<1> QED BY <1>8, <1>9, <1>10, <1>11 DEF MatrixInv

\* The role's grants change only here; every other screen is told.
LEMMA CommitPutKeeps == ASSUME MatrixInv, NEW e \in Editors, CommitPut(e) PROVE MatrixInv'
<1>1. /\ Open(e) /\ puts[e].next > Len(Order) /\ grants' = Committed(e)
      /\ puts' = [puts EXCEPT ![e].stage = "done"]
      /\ screen' = [f \in Editors |-> IF f = e THEN screen[f] ELSE [screen[f] EXCEPT !.moved = TRUE]]
  BY DEF CommitPut
<1>2. grants \in Matrix /\ (\A f \in Editors : puts[f] \in Puts /\ screen[f] \in Screens)
      /\ puts \in [Editors -> Puts]
  BY DEF MatrixInv, MatrixTypeOK
<1>3. PICK p : p = [puts[e] EXCEPT !.stage = "done"] /\ puts' = [puts EXCEPT ![e] = p]
  BY <1>1
<1>4. p \in Puts /\ p.stage = "done"
  BY <1>2, <1>3 DEF Puts
<1>5. \A f \in Editors : puts'[f] = IF f = e THEN p ELSE puts[f]
  BY <1>2, <1>3
<1>6. \A f \in Editors \ {e} : screen'[f] \in Screens /\ screen'[f].moved
  BY <1>1, <1>2 DEF Screens
<1>7. MatrixTypeOK'
  <2>1. Committed(e) \in Matrix
    BY <1>2 DEF Committed, Matrix, Puts
  <2>2. screen' \in [Editors -> Screens]
    BY <1>1, <1>2, <1>6
  <2> QED BY <1>1, <1>3, <1>4, <1>2, <2>1, <2>2 DEF MatrixTypeOK
<1>8. ASSUME NEW f \in Editors PROVE ScreenFollows(f)'
  BY <1>4, <1>5, <1>6 DEF ScreenFollows
<1>9. ASSUME NEW f \in Editors PROVE PutStandsAlone(f)'
  <2>1. CASE f = e
    BY <1>4, <1>5, <2>1 DEF PutStandsAlone, Open
  <2>2. CASE f # e
    <3>1. PutStandsAlone(f)
      BY DEF MatrixInv
    <3>2. Open(f) => ~puts[f].alone
      BY <1>1, <2>2, <3>1 DEF PutStandsAlone
    <3> QED BY <1>5, <2>2, <3>1, <3>2 DEF PutStandsAlone, GrantsWritten, Open
  <2> QED BY <2>1, <2>2
<1> QED BY <1>7, <1>8, <1>9 DEF MatrixInv

\* After a save the screen reads again, or knows that it did not.
LEMMA PutAnsweredKeeps == ASSUME MatrixInv, NEW e \in Editors, PutAnswered(e) PROVE MatrixInv'
<1>1. /\ puts[e].stage \in {"done", "failed"} /\ puts' = [puts EXCEPT ![e] = NoPut] /\ grants' = grants
      /\ IF puts[e].stage = "done"
         THEN screen' \in {[screen EXCEPT ![e] = Reload(@)], [screen EXCEPT ![e].moved = TRUE]}
         ELSE UNCHANGED screen
  BY DEF PutAnswered
<1>2. /\ \A f \in Editors : puts[f] \in Puts /\ screen[f] \in Screens
      /\ screen \in [Editors -> Screens] /\ puts \in [Editors -> Puts]
  BY DEF MatrixInv, MatrixTypeOK
<1>3. PICK s : /\ screen' = [screen EXCEPT ![e] = s]
               /\ \/ s = [screen[e] EXCEPT !.load = "asked"] \/ s = [screen[e] EXCEPT !.moved = TRUE]
                  \/ s = screen[e] /\ puts[e].stage = "failed"
  <2>1. CASE puts[e].stage = "done"
    BY <1>1, <1>2, <2>1 DEF Reload
  <2>2. CASE puts[e].stage # "done"
    BY <1>1, <1>2, <2>2
  <2> QED BY <2>1, <2>2
<1>4. s \in Screens /\ (s.load = "asked" \/ s.moved \/ (s = screen[e] /\ puts[e].stage = "failed"))
  BY <1>2, <1>3 DEF Screens
<1>5. \A f \in Editors : /\ puts'[f] = IF f = e THEN NoPut ELSE puts[f]
                         /\ screen'[f] = IF f = e THEN s ELSE screen[f]
  BY <1>1, <1>2, <1>3
<1>6. MatrixTypeOK'
  BY <1>1, <1>2, <1>3, <1>4, EmptyFits DEF MatrixInv, MatrixTypeOK
<1>7. NoPut.stage = "none"
  BY DEF NoPut
<1>8. ASSUME NEW f \in Editors PROVE ScreenFollows(f)' /\ PutStandsAlone(f)'
  <2>1. ScreenFollows(f) /\ PutStandsAlone(f)
    BY DEF MatrixInv
  <2>2. ScreenFollows(f)'
    BY <1>1, <1>4, <1>5, <1>7, <2>1 DEF ScreenFollows
  <2>3. \A o \in Editors : Open(o)' => Open(o)
    BY <1>5, <1>7 DEF Open
  <2>4. CASE f = e
    <3>1. puts'[f].stage = "none"
      BY <1>5, <1>7, <2>4
    <3>2. ~Open(f)'
      BY <3>1 DEF Open
    <3> QED BY <2>2, <3>1, <3>2 DEF PutStandsAlone
  <2>5. CASE f # e
    <3>1. puts'[f] = puts[f] /\ (Open(f)' <=> Open(f))
      BY <1>5, <2>5 DEF Open
    <3>2. Passed(puts[f]) => Passed(puts[f])'
      BY <1>1, <3>1 DEF Passed
    <3>3. (puts[f].stage = "sent" => puts[f].next = 1)'
      BY <2>1, <3>1 DEF PutStandsAlone
    <3>4. ASSUME Open(f)', (puts[f].alone)' PROVE Passed(puts[f])' /\ \A o \in Editors \ {f} : ~Open(o)'
      BY <2>1, <2>3, <3>1, <3>2, <3>4 DEF PutStandsAlone
    <3>5. Open(f)' => GrantsWritten(puts[f])'
      BY <2>1, <3>1 DEF PutStandsAlone, GrantsWritten
    <3> QED BY <2>2, <3>3, <3>4, <3>5 DEF PutStandsAlone
  <2> QED BY <2>2, <2>4, <2>5
<1> QED BY <1>6, <1>8 DEF MatrixInv

LEMMA MatrixStepKeeps == MatrixInv /\ [MatrixNext]_matrixVars => MatrixInv'
<1>1. ASSUME MatrixInv, UNCHANGED matrixVars PROVE MatrixInv'
  BY <1>1 DEF matrixVars, MatrixInv, MatrixTypeOK, ScreenFollows, PutStandsAlone, Passed, GrantsWritten, Open
<1> QED BY <1>1, ScreensKeep, PutsKeep, BeginPutKeeps, CommitPutKeeps, PutAnsweredKeeps DEF MatrixNext, MatrixStep

\* A save leaves the matrix it sent, and beside others at most more.
LEMMA MatrixSavesAreWhole == MatrixInv /\ [MatrixNext]_matrixVars => SaveIsWhole
<1> SUFFICES ASSUME MatrixInv, [MatrixNext]_matrixVars, grants' # grants
             PROVE  \E e \in Editors :
                      /\ Open(e) /\ puts'[e].stage # "writing"
                      /\ \A t \in TableSet :
                           \/ grants'[t] = puts[e].grants[t]
                           \/ puts[e].grants[t] = {} /\ ~puts[e].alone /\ grants'[t] = grants[t]
  BY DEF SaveIsWhole
<1>1. PICK e \in Editors : CommitPut(e)
  BY DEF MatrixNext, MatrixStep, matrixVars, ReadGrants, GrantsArrive, Toggle, DiscardStaged, SaveMatrix,
     BeginPut, WriteGrant, FailPut, PutAnswered
<1>2. /\ Open(e) /\ puts[e].next > Len(Order) /\ grants' = Committed(e) /\ puts[e] \in Puts /\ grants \in Matrix
      /\ puts \in [Editors -> Puts] /\ puts' = [puts EXCEPT ![e].stage = "done"] /\ PutStandsAlone(e)
  BY <1>1 DEF CommitPut, MatrixInv, MatrixTypeOK
<1>3. puts'[e].stage = "done"
  BY <1>2 DEF Puts
<1>4. \A i \in 1..Len(Order) : i < puts[e].next
  BY <1>2, OrderFits DEF Puts
<1>5. ASSUME NEW t \in TableSet
      PROVE  \/ grants'[t] = puts[e].grants[t]
             \/ puts[e].grants[t] = {} /\ ~puts[e].alone /\ grants'[t] = grants[t]
  <2>1. grants'[t] = IF t \in puts[e].wrote THEN puts[e].grants[t] ELSE grants[t]
    BY <1>2 DEF Committed
  <2>2. PICK i \in 1..Len(Order) : t = Order[i]
    BY OrderFits DEF TableSet
  <2>3. puts[e].grants[t] # {} => t \in puts[e].wrote
    BY <1>2, <1>4, <2>2 DEF PutStandsAlone, GrantsWritten
  <2>4. puts[e].alone => t \in puts[e].wrote \/ (puts[e].grants[t] = {} /\ grants[t] = {})
    BY <1>2, <1>4, <2>2 DEF PutStandsAlone, Passed
  <2> QED BY <2>1, <2>3, <2>4
<1> QED BY <1>2, <1>3, <1>5

LEMMA MatrixTyped == MatrixInv => MatrixTypeOK /\ DirtyBarTellsTruth
<1> SUFFICES ASSUME MatrixInv, NEW e \in Editors
             PROVE  MatrixTypeOK /\
                    (screen[e].shown /\ screen[e].load = "none" /\ ~Saving(e) /\ ~screen[e].moved /\ ~MatrixDirty(e)
                       => screen[e].staged = grants)
  BY DEF DirtyBarTellsTruth, MatrixInv
<1> QED BY DEF MatrixInv, ScreenFollows, Saving, MatrixDirty
=============================================================================
