------------------------------ MODULE ViewStore ------------------------------
(***************************************************************************)
(* View definitions: one JSON file each, written by the console's builder  *)
(* (lib/views.ts, app/admin-builder) or by hand, read by dashboards        *)
(* (packages/admin/src/server/views.ts) while they are being written.      *)
(*                                                                         *)
(* A definition is kept as what the builder and the resolver tell apart:   *)
(* the fields it lists (or none: every column), which of those that point  *)
(* at another table say what to show of it (relation.display), a key the   *)
(* builder owns (title) and one it has no control for (list.sort).         *)
(***************************************************************************)
EXTENDS Naturals, FiniteSets, SequencesExt

CONSTANTS
  ViewOrder,        \* the views' names, in the order they are listed
  ViewColumns,      \* the columns of their table that are not masked
  ViewForeign,      \* those of them that are foreign keys
  ViewLinks,        \* the many-to-many fields that can be found for it
  MaxViewJobs,      \* bound: requests, and writes by hand
  MaxViewEdits,     \* bound: changes to a draft
  MaxViewFaults     \* bound: renames that fail for good, crashes, writes by hand

ASSUME ViewAssumption ==
  /\ ViewOrder \in Seq(ToSet(ViewOrder)) /\ IsFiniteSet(ViewColumns) /\ "" \notin ViewColumns
  /\ ViewForeign \subseteq ViewColumns /\ IsFiniteSet(ViewLinks) /\ ViewLinks \cap ViewColumns = {}
  /\ MaxViewJobs \in Nat /\ MaxViewEdits \in Nat /\ MaxViewFaults \in Nat

VARIABLES
  dir,        \* the file of each view: none, part or whole, and its document
  viewJobs,   \* requests being handled, answers on their way, reads that ended
  builder,    \* the builder: draft, savedJson, busy, views
  torn,       \* history: views written in place
  missing,    \* history: views that had no file at some time
  viewSent, viewEdits, viewFaults

viewVars == <<dir, viewJobs, builder, torn, missing, viewSent, viewEdits, viewFaults>>

-----------------------------------------------------------------------------
ViewNames == ToSet(ViewOrder)

AColumn == CHOOSE c \in ViewColumns : TRUE
Candidates == ViewColumns \cup ViewLinks

\* "std" is humanize(table), what the resolver puts for no title at all.  `labels`
\* are the foreign keys listed with a display.
Headings == {"", "std", "own"}
Doc == [fields : {{}} \cup {{s} : s \in SUBSET Candidates}, labels : SUBSET ViewForeign,
        sort : ViewColumns \cup {""}, title : Headings]
Listed(def) == UNION def.fields

\* resolve: what the screen shows.  A definition that lists nothing gets the columns
\* alone, their foreign keys without a display (impliedFields).
Resolved(def) ==
  [fields |-> IF def.fields = {} THEN ViewColumns ELSE Listed(def),
   labels |-> def.labels \cap Listed(def),
   sort |-> def.sort, title |-> IF def.title = "" THEN "std" ELSE def.title]

\* pruneDefaults.
Pruned(def) == [def EXCEPT !.fields = @ \ {{}}, !.title = IF @ = "std" THEN "" ELSE @]

\* proposeView: every column that is not masked, the foreign keys with a display
\* guessed for them, and every many-to-many that is found.
Proposed == [fields |-> {Candidates}, labels |-> ViewForeign, sort |-> "", title |-> ""]

\* A field the file does not list is the proposal's, display and all.
Opened(name, def, on) ==
  [name |-> name, source |-> def, title |-> def.title, implicit |-> def.fields = {}, on |-> on,
   labels |-> (def.labels \cap Listed(def)) \cup (Proposed.labels \ Listed(def)), edits |-> {}]

\* Mutation: a file that lists no fields opens with none of them checked.
DraftedUnchecked(name, def) == Opened(name, def, Listed(def))

\* buildDraft: candidates not listed are checked only if nothing is listed.
Drafted(name, def) == Opened(name, def, IF def.fields = {} THEN Candidates ELSE Listed(def))

\* draftToDefinition: merged onto what was loaded; a sort by a column that is
\* not on the screen goes.
Definition(d) ==
  [fields |-> {d.on}, labels |-> d.labels \cap d.on, title |-> d.title,
   sort |-> IF d.source.sort \in d.on THEN d.source.sort ELSE ""]

Dirty == \E d \in builder.draft : builder.saved # {Definition(d)}

-----------------------------------------------------------------------------
Fault0 == viewFaults < MaxViewFaults /\ viewFaults' = viewFaults + 1
NoFault == UNCHANGED viewFaults
Readers == {"open", "read"}
Writers == {"save", "hand"}

NewJob(n, kind, name, pc, d, def) ==
  [n |-> n, kind |-> kind, name |-> name, pc |-> pc, tries |-> 0,
   def |-> def, draft |-> d, answer |-> "none"]

\* The first view's file: it lists nothing, or one column; the others' if they
\* have one.
ViewInit ==
  /\ \E def \in Doc, others \in BOOLEAN :
       /\ def.title # "std" /\ def.fields \in {{}, {{AColumn}}} /\ def.labels \subseteq Listed(def)
       /\ dir = [n \in ViewNames |->
            IF n = ViewOrder[1] THEN [at |-> "whole", doc |-> def]
            ELSE [at |-> IF others THEN "whole" ELSE "none", doc |-> Proposed]]
  /\ missing = {n \in ViewNames : dir[n].at = "none"} /\ torn = {}
  /\ builder = [draft |-> {}, saved |-> {}, busy |-> FALSE, views |-> {}, refreshing |-> TRUE]
  /\ viewJobs = {} /\ viewSent = 0 /\ viewEdits = 0 /\ viewFaults = 0

Send(kind, name, pc, d, def) ==
  /\ viewSent < MaxViewJobs /\ viewSent' = viewSent + 1
  /\ viewJobs' = viewJobs \cup {NewJob(viewSent', kind, name, pc, d, def)}

Move(j, changed) == viewJobs' = (viewJobs \ {j}) \cup {changed}
DiskSame == UNCHANGED <<dir, torn, missing>>
BuilderSame == UNCHANGED <<builder, viewSent, viewEdits>>

-----------------------------------------------------------------------------
(* The server: one attempt, one system call at a time.                     *)

\* load: a document that does not parse is read again, four times in all.
ReadView(j) ==
  /\ j.kind \in Readers /\ j.pc = "read"
  /\ LET file == dir[j.name]
     IN \/ file.at = "none" /\ Move(j, [j EXCEPT !.pc = "done", !.answer = "absent"])
        \/ /\ file.at = "whole"
           /\ Move(j, [j EXCEPT !.pc = "done", !.answer = "ok",
                                !.def = IF j.kind = "open" THEN file.doc ELSE @])
        \/ file.at = "part" /\ j.tries < 3 /\ Move(j, [j EXCEPT !.tries = @ + 1])
        \/ file.at = "part" /\ j.tries >= 3 /\ Move(j, [j EXCEPT !.pc = "done", !.answer = "broken"])
  /\ DiskSame /\ NoFault /\ BuilderSame

\* Mutation: the file is written in place.
SwapInPlace(j) ==
  /\ dir' = [dir EXCEPT ![j.name].at = "part"] /\ Move(j, [j EXCEPT !.pc = "fill"])
  /\ NoFault /\ UNCHANGED <<torn, missing>>

\* rename over the file.
Swap(j) ==
  /\ dir' = [dir EXCEPT ![j.name] = [at |-> "whole", doc |-> j.def]]
  /\ Move(j, [j EXCEPT !.pc = "done", !.answer = "ok"])
  /\ NoFault /\ UNCHANGED <<torn, missing>>

\* saveView, its temporary file written: rename, or (the attempts used up) a
\* plain write that truncates and then fills.
Replace(j) ==
  /\ j.kind = "save" /\ j.pc = "swap"
  /\ \/ Swap(j)
     \/ Move(j, [j EXCEPT !.pc = "truncate"]) /\ Fault0 /\ DiskSame
  /\ BuilderSame

Truncate(j) ==
  /\ j.pc = "truncate"
  /\ dir' = [dir EXCEPT ![j.name].at = "part"] /\ torn' = torn \cup {j.name}
  /\ Move(j, [j EXCEPT !.pc = "fill"]) /\ UNCHANGED missing /\ NoFault /\ BuilderSame
Fill(j) ==
  /\ j.pc = "fill"
  /\ dir' = [dir EXCEPT ![j.name] = [at |-> "whole", doc |-> j.def]]
  /\ Move(j, [j EXCEPT !.pc = "done", !.answer = "ok"])
  /\ UNCHANGED <<torn, missing>> /\ NoFault /\ BuilderSame

\* deleteView: unlink; false when there was nothing.
Drop(j) ==
  /\ j.pc = "unlink"
  /\ dir' = [dir EXCEPT ![j.name] = [at |-> "none", doc |-> Proposed]]
  /\ missing' = missing \cup {j.name}
  /\ Move(j, [j EXCEPT !.pc = "done", !.answer = IF dir[j.name].at = "none" THEN "absent" ELSE "ok"])
  /\ UNCHANGED torn /\ NoFault /\ BuilderSame

\* The process dies: what it was doing stops where it is.
DieAt(j) ==
  /\ j.pc \in {"swap", "truncate", "fill", "unlink"} /\ j.kind # "hand"
  /\ Move(j, [j EXCEPT !.pc = "done", !.answer = "refused"])
  /\ Fault0 /\ DiskSame /\ BuilderSame

\* A dashboard asks for a view; an editor or a checkout writes one.
Dashboard(n) ==
  Send("read", n, "read", {}, Proposed) /\ DiskSame /\ NoFault /\ UNCHANGED <<builder, viewEdits>>
ByHand(n, def) ==
  Send("hand", n, "truncate", {}, def) /\ DiskSame /\ Fault0 /\ UNCHANGED <<builder, viewEdits>>

-----------------------------------------------------------------------------
(* The builder.                                                            *)

Screen(changes) == builder' = changes /\ DiskSame /\ NoFault
FirstOf(names) == ViewOrder[CHOOSE i \in DOMAIN ViewOrder :
  ViewOrder[i] \in names /\ \A k \in 1..(i - 1) : ViewOrder[k] \notin names]

\* openView; answers are not matched with what is asked for by then.
Pick(n) ==
  n \in builder.views /\ Send("open", n, "read", {}, Proposed) /\ Screen(builder) /\ UNCHANGED viewEdits

\* The effect: views and no draft, so the first view is opened.
OpensFirst(b, left) ==
  IF b.draft = {} /\ b.views # {} /\ viewSent < MaxViewJobs
  THEN /\ viewSent' = viewSent + 1
       /\ viewJobs' = left \cup {NewJob(viewSent', "open", FirstOf(b.views), "read", {}, Proposed)}
  ELSE viewJobs' = left /\ UNCHANGED viewSent

\* The list: views that can be read.
ListArrives(names) ==
  /\ builder.refreshing
  /\ LET b == [builder EXCEPT !.views = names, !.refreshing = FALSE]
     IN Screen(b) /\ OpensFirst(b, viewJobs)
  /\ UNCHANGED viewEdits

OpenArrives(j) ==
  /\ j.kind = "open" /\ j.pc = "done"
  /\ Screen(IF j.answer # "ok" THEN builder
            ELSE LET d == Drafted(j.name, j.def)
                 IN [builder EXCEPT !.draft = {d}, !.saved = {Definition(d)}])
  /\ viewJobs' = viewJobs \ {j} /\ UNCHANGED <<viewSent, viewEdits>>

\* startNew: a name that is not in the list; its file is not looked for.
StartNew(n) ==
  n \notin builder.views /\ Send("new", n, "done", {}, Proposed) /\ Screen(builder) /\ UNCHANGED viewEdits
NewArrives(j) ==
  /\ j.kind = "new" /\ Screen([builder EXCEPT !.draft = {Drafted(j.name, Proposed)}, !.saved = {}])
  /\ viewJobs' = viewJobs \ {j} /\ UNCHANGED <<viewSent, viewEdits>>

Edit(d) ==
  /\ viewEdits < MaxViewEdits /\ viewEdits' = viewEdits + 1
  /\ Screen([builder EXCEPT !.draft = {d}]) /\ UNCHANGED <<viewJobs, viewSent>>
ToggleField(c) == \E d \in builder.draft :
  Edit([d EXCEPT !.on = (@ \ {c}) \cup ({c} \ @), !.edits = @ \cup {c}])
TypeHeading(t) == \E d \in builder.draft :
  d.title # t /\ Edit([d EXCEPT !.title = t, !.edits = @ \cup {"title"}])

\* PUT: the definition is pruned and resolved before anything is written.
SaveView ==
  /\ Dirty /\ ~builder.busy
  /\ \E d \in builder.draft : Send("save", d.name, "swap", {d}, Pruned(Definition(d)))
  /\ Screen([builder EXCEPT !.busy = TRUE]) /\ UNCHANGED viewEdits

\* The answer is applied to whichever draft is open by then.
SaveArrives(j) ==
  /\ j.kind = "save" /\ j.pc = "done"
  /\ Screen(IF j.answer # "ok" THEN [builder EXCEPT !.busy = FALSE]
            ELSE [builder EXCEPT !.busy = FALSE, !.saved = {Definition(d) : d \in j.draft},
                                 !.draft = {[d EXCEPT !.implicit = FALSE] : d \in @},
                                 !.refreshing = TRUE])
  /\ viewJobs' = viewJobs \ {j} /\ UNCHANGED <<viewSent, viewEdits>>

Destroy ==
  /\ ~builder.busy /\ builder.saved # {}
  /\ \E d \in builder.draft : Send("drop", d.name, "unlink", {}, Proposed)
  /\ Screen([builder EXCEPT !.busy = TRUE]) /\ UNCHANGED viewEdits

\* Mutation: what was saved outlives the view.
WithoutDraft(b) == [b EXCEPT !.busy = FALSE, !.draft = {}, !.refreshing = TRUE]

Emptied(b) == [b EXCEPT !.busy = FALSE, !.draft = {}, !.saved = {}, !.refreshing = TRUE]

DestroyArrives(j) ==
  /\ j.kind = "drop" /\ j.pc = "done"
  /\ LET b == IF j.answer # "ok" THEN [builder EXCEPT !.busy = FALSE] ELSE Emptied(builder)
     IN Screen(b) /\ OpensFirst(b, viewJobs \ {j})
  /\ UNCHANGED viewEdits

-----------------------------------------------------------------------------
Serving == \E j \in viewJobs :
  ReadView(j) \/ Replace(j) \/ Truncate(j) \/ Fill(j) \/ Drop(j) \/ DieAt(j)
Arriving ==
  \/ \E j \in viewJobs :
       OpenArrives(j) \/ NewArrives(j) \/ SaveArrives(j) \/ DestroyArrives(j)
  \/ \E names \in SUBSET {n \in ViewNames : dir[n].at # "none"} :
       {n \in ViewNames : dir[n].at = "whole"} \subseteq names /\ ListArrives(names)
Using ==
  \/ \E n \in ViewNames : Pick(n) \/ StartNew(n) \/ Dashboard(n)
  \/ \E n \in ViewNames : ByHand(n, [fields |-> {}, labels |-> {}, sort |-> "", title |-> "own"])
  \/ \E c \in Candidates : ToggleField(c)
  \/ \E t \in Headings : TypeHeading(t)
  \/ SaveView \/ Destroy

ViewNext == Serving \/ Arriving \/ Using
ViewSpec == ViewInit /\ [][ViewNext]_viewVars

-----------------------------------------------------------------------------
\* The types of the directory, the requests and the builder.
ViewTypeOK ==
  /\ dir \in [ViewNames -> [at : {"none", "part", "whole"}, doc : Doc]]
  /\ \A j \in viewJobs : /\ j.n \in 1..MaxViewJobs /\ j.name \in ViewNames /\ j.tries \in 0..3
                         /\ j.def \in Doc /\ j.answer \in {"none", "ok", "absent", "broken", "refused"}
                         /\ Cardinality(j.draft) = IF j.kind = "save" THEN 1 ELSE 0
  /\ builder.draft = {} => builder.saved = {}
  /\ builder.saved \subseteq Doc /\ builder.views \subseteq ViewNames
  /\ \A d \in builder.draft : d.name \in ViewNames /\ d.source \in Doc /\ d.on \subseteq Candidates

\* A reader is told a view is missing only if its file was, and told it is broken
\* only if it was written in place: a save that can rename is never seen half done
\* (lib/views.ts:122, server/views.ts:86).
ReadersGetWholeDocuments ==
  \A j \in viewJobs : j.kind \in Readers =>
    /\ j.answer = "absent" => j.name \in missing
    /\ j.answer = "broken" => j.name \in torn

\* What a save from the builder leaves in the file shows what the view showed when
\* it was opened, but for what was edited: a view that listed no fields keeps its
\* columns, a sort the editor cannot show stays while its column is on the screen, and
\* pruning drops only what the resolver puts back (types.ts:74, view-serialize.ts:50).
\* Two exceptions.  A screen with nothing on it is written as one with every column.
\* And the first save of a view that listed no fields adds what the builder proposes
\* and the resolver does not imply, whatever was edited: every many-to-many, and a
\* display for every foreign key (AdminBuilder.tsx:103, view-builder.ts:94).
ViewSavesChangeOnlyWhatWasEdited ==
  \A j \in viewJobs : (j.kind = "save" /\ j \notin viewJobs' /\ dir'[j.name].at = "whole"
                         /\ dir'[j.name] # dir[j.name]) =>
    \A d \in j.draft :
      LET old == Resolved(d.source)
          new == Resolved(dir'[j.name].doc)
          listedNone == d.source.fields = {}
      IN /\ "title" \notin d.edits => new.title = old.title
         /\ d.on # {} =>
              /\ \A c \in ViewColumns \ d.edits : c \in new.fields <=> c \in old.fields
              /\ \A c \in ViewLinks \ d.edits : c \in new.fields <=> c \in old.fields \/ listedNone
              /\ \A c \in (ViewForeign \cap new.fields) \ d.edits :
                   c \in new.labels <=> c \in old.labels \/ listedNone
         /\ old.sort \in new.fields /\ d.on # {} => new.sort = old.sort
=============================================================================
