------------------------------ MODULE MCStores -------------------------------
(***************************************************************************)
(* What the servers keep outside the tables, each on its own: `part` says  *)
(* which one a behaviour is about.  They share no state, so the behaviours *)
(* are the union of these.                                                 *)
(***************************************************************************)
EXTENDS FileStore, ViewStore, SchemaChanges, Introspector, RateLimiter, ResetTokens

VARIABLE part

Parts == {"files", "views", "schema", "introspector", "limiter", "tokens"}

ViewList == <<"va", "vb">>
Plain == [fields |-> {}, labels |-> {}, sort |-> "", title |-> ""]

Init ==
  /\ part \in Parts
  /\ FileInit /\ (part # "files" => linked = {} /\ \A id \in Seeded : disk[id] = "whole")
  /\ ViewInit /\ (part # "views" => missing = {} /\ dir[ViewList[1]].doc = Plain)
  /\ SchemaInit /\ IntroInit /\ LimitInit /\ TokenInit

Next ==
  /\ UNCHANGED part
  /\ IF part = "files" THEN FileNext ELSE UNCHANGED fileVars
  /\ IF part = "views" THEN ViewNext ELSE UNCHANGED viewVars
  /\ IF part = "schema" THEN SchemaNext ELSE UNCHANGED schemaVars
  /\ IF part = "introspector" THEN IntroNext ELSE UNCHANGED introVars
  /\ IF part = "limiter" THEN LimitNext ELSE UNCHANGED limitVars
  /\ IF part = "tokens" THEN TokenNext ELSE UNCHANGED tokenVars

vars == <<part, fileVars, viewVars, schemaVars, introVars, limitVars, tokenVars>>

Spec == Init /\ [][Next]_vars

-----------------------------------------------------------------------------
\* The types of the six parts' states.
TypeOK ==
  /\ FileTypeOK /\ ViewTypeOK /\ SchemaTypeOK /\ IntroTypeOK /\ LimitTypeOK /\ TokenTypeOK

\* Nobody meets half of what is stored: a row has its bytes and its own title, a
\* refused upload leaves neither (routes.ts:279, routes.ts:350), and whoever reads a
\* view gets a document that was saved (lib/views.ts:158).
StoredIsWhole == FilesAreWhole /\ RefusalsLeaveNothing /\ ReadersGetWholeDocuments

\* What nobody asked to change stays: a file that a row refers to when a delete looks
\* (api/files/delete/route.ts:13; a reference made after the look goes with it), and of
\* a view all but the edits (types.ts:75), and but what the first save of one that
\* listed no fields adds (AdminBuilder.tsx:103).
StoresKeepTheRest == [][DeletesSpareTheLinked /\ ViewSavesChangeOnlyWhatWasEdited]_vars

\* Both caches of the database's schema, the console's and the admin runtime's, give
\* no answer from before a change that was announced to them, and grow no older than
\* they may (catalog.ts:278, introspect.ts:141).
SchemaChangesAreSeen == OurChangesAreSeen /\ InvalidateForgets /\ MetadataAges

\* What is allowed a number of times, or until something happens, is allowed no more
\* than that: logins under the limiter, resets by one token (rateLimit.ts:44,
\* signedTokens.ts:108).
AttemptsAndTokensRunOut == LimiterIsASlidingWindow /\ TokensDieWithThePassword
=============================================================================
