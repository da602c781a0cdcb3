---------------------------- MODULE SchemaChanges ----------------------------
(***************************************************************************)
(* Schema changes from the console: a modal previews a statement, the user *)
(* runs what it shows (app/schema, api/schema/ddl, lib/ddl.ts), and every  *)
(* request reads the database's catalog through one shared cache           *)
(* (lib/catalog.ts).                                                       *)
(*                                                                         *)
(* The database is the number of changes made to it.  What a statement     *)
(* looks like depends on the catalog for some of them: a join table's      *)
(* columns take the types of the keys they point at.                       *)
(***************************************************************************)
EXTENDS Naturals, FiniteSets

CONSTANTS
  MaxSchemaJobs,    \* bound: requests
  MaxTyping,        \* bound: changes to what is typed in the modal
  MaxOutside,       \* bound: migrations run elsewhere, catalogs that grow old
  MaxSchemaFaults   \* bound: catalog loads and statements that fail

ASSUME SchemaAssumption ==
  MaxSchemaJobs \in Nat /\ MaxTyping \in Nat /\ MaxOutside \in Nat /\ MaxSchemaFaults \in Nat

VARIABLES
  live,         \* the schema: how many changes were committed
  slot,         \* the cached load (0: none); it is stored when it starts
  loads,        \* catalog loads: what each of two of its queries saw
  requests,     \* requests being handled
  modal,        \* the open builder: what is typed, the SQL shown, the preview awaited
  flushed,      \* history: the schema at the last invalidateCatalog
  schemaJobs, typings, outside, schemaFaults

schemaVars == <<live, slot, loads, requests, modal, flushed, schemaJobs, typings, outside, schemaFaults>>
schemaBounds == <<schemaJobs, typings, outside, schemaFaults>>

-----------------------------------------------------------------------------
Params == {"dropColumn", "createJoinTable"}

\* build: what is run, and the key type written into it.
Sql(p, ver) == [p |-> p, type |-> IF p = "createJoinTable" THEN ver % 2 ELSE 0]
Sqls == [p : Params, type : {0, 1}]

Load(id) == CHOOSE l \in loads : l.id = id
Seen(id) == Load(id).cols \cup Load(id).keys

SchemaInit ==
  /\ live = 0 /\ slot = 0 /\ loads = {} /\ requests = {} /\ flushed = 0
  /\ modal = [p |-> "createJoinTable", sql |-> {}, awaits |-> 0, running |-> FALSE]
  /\ schemaJobs = 0 /\ typings = 0 /\ outside = 0 /\ schemaFaults = 0

Mishap == schemaFaults < MaxSchemaFaults /\ schemaFaults' = schemaFaults + 1
Reach(j, pc) == requests' = (requests \ {j}) \cup {[j EXCEPT !.pc = pc]}
CatalogSame == UNCHANGED <<slot, loads, flushed>>
ModalSame == UNCHANGED <<modal, schemaJobs, typings>>

-----------------------------------------------------------------------------
(* The catalog.                                                            *)

\* getCatalog: the load that is cached, or (none, or past the TTL) a new one.
GetCatalog(j) ==
  /\ j.pc = "start"
  /\ LET ask(id) == requests' = (requests \ {j}) \cup {[j EXCEPT !.pc = "wait", !.load = id, !.floor = flushed]}
         id == Cardinality(loads) + 1
     IN \/ slot # 0 /\ ask(slot) /\ UNCHANGED <<slot, loads, outside>>
        \/ /\ ask(id) /\ slot' = id
           /\ loads' = loads \cup {[id |-> id, cols |-> {}, keys |-> {}, pc |-> "reading"]}
           /\ IF slot = 0 THEN UNCHANGED outside ELSE outside < MaxOutside /\ outside' = outside + 1
  /\ UNCHANGED <<live, flushed, schemaFaults>> /\ ModalSame

\* Its queries run side by side, each on what is committed by then.  (Nothing
\* depends on which of the two comes first.)
Update(l, changed) == loads' = (loads \ {l}) \cup {changed}
FirstQuery(l) ==
  /\ l.pc = "reading" /\ l.cols = {} /\ Update(l, [l EXCEPT !.cols = {live}])
  /\ UNCHANGED <<live, slot, requests, flushed, outside, schemaFaults>> /\ ModalSame

\* Mutation: the catalog is cached when it has arrived.
KeptOnArrival(l) == slot' = l.id

\* The promise was cached when the load started: nothing is stored here.
Kept(l) == UNCHANGED slot

LastQuery(l) ==
  /\ l.pc = "reading" /\ l.cols # {}
  /\ \/ Update(l, [l EXCEPT !.keys = {live}, !.pc = "done"]) /\ Kept(l) /\ UNCHANGED schemaFaults
     \/ Update(l, [l EXCEPT !.pc = "failed"]) /\ slot' = 0 /\ Mishap
  /\ UNCHANGED <<live, requests, flushed, outside>> /\ ModalSame

-----------------------------------------------------------------------------
(* A request.                                                              *)

\* build, and for a run the comparison with the SQL that was on the screen.
Build(j) ==
  /\ j.pc = "wait" /\ Load(j.load).pc # "reading"
  /\ LET sql == {Sql(j.p, ver) : ver \in Load(j.load).cols}
         pc == IF Load(j.load).pc = "failed" THEN "error"
               ELSE IF j.kind = "preview" THEN "built"
               ELSE IF j.kind = "run" /\ sql = j.shown THEN "execute" ELSE "done"
     IN requests' = (requests \ {j}) \cup (IF j.kind = "browse" THEN {} ELSE {[j EXCEPT !.pc = pc, !.sql = sql]})
  /\ CatalogSame /\ UNCHANGED <<live, outside, schemaFaults>> /\ ModalSame

\* executeDdl: a transaction of its own.  A COMMIT whose answer is lost has
\* happened, and the catalog is not invalidated.
Execute(j) ==
  /\ j.pc = "execute"
  /\ \/ live' = live + 1 /\ Reach(j, "committed") /\ UNCHANGED schemaFaults
     \/ live' \in {live, live + 1} /\ Reach(j, "error") /\ Mishap
  /\ CatalogSame /\ UNCHANGED outside /\ ModalSame

InvalidateCatalog(j) ==
  /\ j.pc = "committed" /\ slot' = 0 /\ flushed' = live /\ Reach(j, "done")
  /\ UNCHANGED <<live, loads, outside, schemaFaults>> /\ ModalSame

\* psql, a migration.
Migrate ==
  /\ outside < MaxOutside /\ outside' = outside + 1 /\ live' = live + 1
  /\ CatalogSame /\ UNCHANGED <<requests, schemaFaults>> /\ ModalSame

-----------------------------------------------------------------------------
(* The builder.                                                            *)

SendRequest(kind, shown, left) ==
  /\ schemaJobs < MaxSchemaJobs /\ schemaJobs' = schemaJobs + 1
  /\ requests' = left \cup
       {[n |-> schemaJobs', kind |-> kind, p |-> modal.p, shown |-> shown, sql |-> {},
         load |-> 0, floor |-> 0, pc |-> "start"]}
  /\ CatalogSame /\ UNCHANGED <<live, outside, schemaFaults>>

\* useDdlPreview: the SQL goes the moment the inputs change, and so does
\* interest in the preview that is on its way.
Type(p) ==
  /\ typings < MaxTyping /\ typings' = typings + 1 /\ p # modal.p
  /\ modal' = [modal EXCEPT !.p = p, !.sql = {}, !.awaits = 0]
  /\ CatalogSame /\ UNCHANGED <<live, requests, schemaJobs, outside, schemaFaults>>

PreviewStarts ==
  /\ modal.sql = {} /\ modal.awaits = 0 /\ SendRequest("preview", {}, requests)
  /\ modal' = [modal EXCEPT !.awaits = schemaJobs'] /\ UNCHANGED typings
PreviewArrives(j) ==
  /\ j.kind = "preview" /\ j.pc \in {"built", "error"} /\ requests' = requests \ {j}
  /\ modal' = IF j.n # modal.awaits THEN modal
              ELSE [modal EXCEPT !.sql = j.sql, !.awaits = 0]
  /\ CatalogSame /\ UNCHANGED <<live, schemaJobs, typings, outside, schemaFaults>>

RunClicked ==
  /\ modal.sql # {} /\ ~modal.running /\ SendRequest("run", modal.sql, requests)
  /\ modal' = [modal EXCEPT !.running = TRUE] /\ UNCHANGED typings

\* Done closes the modal and reads the schema again; a refusal is shown, and the
\* SQL it came with is not.
RunArrives(j) ==
  /\ j.kind = "run" /\ j.pc \in {"done", "error"}
  /\ IF j.pc = "done" /\ j.sql = j.shown
     THEN /\ modal' = [modal EXCEPT !.sql = {}, !.awaits = 0, !.running = FALSE]
          /\ SendRequest("browse", {}, requests \ {j})
     ELSE /\ modal' = [modal EXCEPT !.running = FALSE] /\ requests' = requests \ {j}
          /\ CatalogSame /\ UNCHANGED <<live, schemaJobs, outside, schemaFaults>>
  /\ UNCHANGED typings

\* The content screens, the permission matrix, the SQL console's redaction.
Browse == SendRequest("browse", {}, requests) /\ UNCHANGED <<modal, typings>>

SchemaNext ==
  \/ \E j \in requests :
       \/ GetCatalog(j) \/ Build(j) \/ Execute(j) \/ InvalidateCatalog(j)
       \/ PreviewArrives(j) \/ RunArrives(j)
  \/ \E l \in loads : FirstQuery(l) \/ LastQuery(l)
  \/ \E p \in Params : Type(p)
  \/ PreviewStarts \/ RunClicked \/ Browse \/ Migrate

SchemaSpec == SchemaInit /\ [][SchemaNext]_schemaVars

-----------------------------------------------------------------------------
\* The types of the catalog, the requests and the builder.
SchemaTypeOK ==
  /\ live \in Nat /\ flushed \in 0..live /\ slot \in 0..Cardinality(loads)
  /\ \A l \in loads : l.id \in 1..Cardinality(loads) /\ l.cols \cup l.keys \subseteq 0..live
  /\ \A j \in requests : /\ j.n \in 1..schemaJobs /\ j.p \in Params /\ j.sql \cup j.shown \subseteq Sqls
                         /\ j.load \in 0..Cardinality(loads) /\ j.floor \in 0..live
  /\ modal.p \in Params /\ modal.sql \subseteq Sqls /\ modal.awaits \in 0..schemaJobs

\* A request that asks for the catalog after a change made here was answered never
\* works from one that misses the change, nor from half of each, whatever loads were
\* on their way; and what runs is what was on the screen when it was confirmed
\* (catalog.ts:278, catalog.ts:290, ddl/route.ts:124).
OurChangesAreSeen ==
  \A j \in requests :
    /\ j.load # 0 => \A ver \in Seen(j.load) : ver >= j.floor
    /\ j.kind = "run" /\ j.pc \in {"execute", "committed"} => j.sql = j.shown
=============================================================================
