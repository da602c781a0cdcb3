----------------------------- MODULE RoleMatrix -----------------------------
(***************************************************************************)
(* The permission matrix (apps/console/app/roles/RolesAdmin.tsx) and its   *)
(* save (app/api/roles/permissions): several developers stage changes to   *)
(* one role's grants; a save sends the whole matrix, which the server      *)
(* writes table by table in one transaction at READ COMMITTED.             *)
(***************************************************************************)
EXTENDS Naturals, Sequences, FiniteSets

CONSTANTS
  Editors,
  Order,        \* the catalog's tables, in the order a save names them
  Actions,      \* the flags of a grant
  MaxToggles,   \* bound: cells set, by all editors
  MaxMatrices   \* bound: saves, by all editors

ASSUME MatrixAssumption ==
  /\ Order \in Seq({Order[i] : i \in DOMAIN Order})
  /\ MaxToggles \in Nat /\ MaxMatrices \in Nat

VARIABLES
  grants,      \* role_permissions: a table's flags, none of them meaning no row
  screen,      \* per editor: what it shows
  puts,        \* per editor: its save in flight
  toggles, matrices

matrixVars == <<grants, screen, puts, toggles, matrices>>

-----------------------------------------------------------------------------
TableSet == {Order[i] : i \in DOMAIN Order}
Matrix == [TableSet -> SUBSET Actions]
Empty == [t \in TableSet |-> {}]

\* saved and staged; `load`: no reload, one asked, or one answered; moved is
\* history: someone else's save committed since saved was read.
Screens == [saved : Matrix, staged : Matrix, shown : BOOLEAN,
            load : {"none", "asked", "read"}, read : Matrix, moved : BOOLEAN]

\* A transaction has written some tables; `alone` is history: no other ran beside it.
NoPut == [stage |-> "none", grants |-> Empty, next |-> 1, wrote |-> {}, alone |-> TRUE]
Puts == [stage : {"none", "sent", "writing", "done", "failed"}, grants : Matrix,
         next : 1..(Len(Order) + 1), wrote : SUBSET TableSet, alone : BOOLEAN]

MatrixInit ==
  /\ grants \in Matrix
  /\ screen = [e \in Editors |-> [saved |-> Empty, staged |-> Empty, shown |-> FALSE,
                                  load |-> "asked", read |-> Empty, moved |-> FALSE]]
  /\ puts = [e \in Editors |-> NoPut]
  /\ toggles = 0 /\ matrices = 0

MatrixDirty(e) == screen[e].shown /\ screen[e].saved # screen[e].staged
Saving(e) == puts[e].stage # "none"

-----------------------------------------------------------------------------
ReadGrants(e) ==
  /\ screen[e].load = "asked"
  /\ screen' = [screen EXCEPT ![e].load = "read", ![e].read = grants, ![e].moved = FALSE]
  /\ UNCHANGED <<grants, puts, toggles, matrices>>

\* The answer replaces the baseline and whatever was staged; a refusal neither.
GrantsArrive(e) ==
  /\ screen[e].load # "none"
  /\ screen' = [screen EXCEPT ![e] =
       IF @.load = "read"
       THEN [@ EXCEPT !.saved = screen[e].read, !.staged = screen[e].read, !.shown = TRUE, !.load = "none"]
       ELSE [@ EXCEPT !.load = "none", !.moved = TRUE]]
  /\ UNCHANGED <<grants, puts, toggles, matrices>>

\* toggle, setRow, setColumn and clearAll set cells; the save bar does not stop them.
Toggle(e) ==
  /\ screen[e].shown /\ toggles < MaxToggles /\ toggles' = toggles + 1
  /\ \E ts \in {{t} : t \in TableSet} \cup {TableSet}, as \in SUBSET Actions :
       screen' = [screen EXCEPT ![e].staged = [t \in TableSet |-> IF t \in ts THEN as ELSE @[t]]]
  /\ UNCHANGED <<grants, puts, matrices>>

DiscardStaged(e) ==
  /\ MatrixDirty(e) /\ ~Saving(e)
  /\ screen' = [screen EXCEPT ![e].staged = screen[e].saved]
  /\ UNCHANGED <<grants, puts, toggles, matrices>>

SaveMatrix(e) ==
  /\ MatrixDirty(e) /\ ~Saving(e) /\ matrices < MaxMatrices
  /\ puts' = [puts EXCEPT ![e] = [NoPut EXCEPT !.stage = "sent", !.grants = screen[e].staged]]
  /\ matrices' = matrices + 1
  /\ UNCHANGED <<grants, screen, toggles>>

-----------------------------------------------------------------------------
Open(e) == puts[e].stage = "writing"

\* A name neither in the catalog nor granted, a bad body: refused before begin.
BeginPut(e) ==
  /\ puts[e].stage = "sent"
  /\ puts' = [f \in Editors |->
       CASE f = e -> [puts[e] EXCEPT !.stage = "writing", !.alone = \A o \in Editors : ~Open(o)]
         [] f # e /\ Open(f) -> [puts[f] EXCEPT !.alone = FALSE]
         [] OTHER -> puts[f]]
  /\ UNCHANGED <<grants, screen, toggles, matrices>>

\* An upsert waits for a transaction that wrote the row, a delete only if there
\* is a committed row to wait for: without one it deletes nothing and locks nothing.
Writes(e, t) == puts[e].grants[t] # {} \/ grants[t] # {}
WaitsForRow(e, t) == Writes(e, t) /\ \E o \in Editors \ {e} : Open(o) /\ t \in puts[o].wrote

WriteGrant(e) ==
  LET t == Order[puts[e].next]
  IN /\ Open(e) /\ puts[e].next <= Len(Order) /\ ~WaitsForRow(e, t)
     /\ puts' = [puts EXCEPT ![e].next = @ + 1,
                             ![e].wrote = IF Writes(e, t) THEN @ \cup {t} ELSE @]
     /\ UNCHANGED <<grants, screen, toggles, matrices>>

\* Mutation: only the tables with a grant are written.
CommittedGrants(e) ==
  [t \in TableSet |-> IF puts[e].grants[t] # {} THEN puts[e].grants[t] ELSE grants[t]]

Committed(e) == [t \in TableSet |-> IF t \in puts[e].wrote THEN puts[e].grants[t] ELSE grants[t]]

CommitPut(e) ==
  /\ Open(e) /\ puts[e].next > Len(Order)
  /\ grants' = Committed(e)
  /\ puts' = [puts EXCEPT ![e].stage = "done"]
  /\ screen' = [f \in Editors |-> IF f = e THEN screen[f] ELSE [screen[f] EXCEPT !.moved = TRUE]]
  /\ UNCHANGED <<toggles, matrices>>

\* Any statement may fail: rollback, and the connection goes back to the pool.
FailPut(e) ==
  /\ puts[e].stage \in {"sent", "writing"}
  /\ puts' = [puts EXCEPT ![e].stage = "failed", ![e].wrote = {}]
  /\ UNCHANGED <<grants, screen, toggles, matrices>>

\* Mutation: a save leaves the baseline as it was.
ReloadNever(s) == s

\* After a save the baseline is read again.  (An answer lost after the commit
\* leaves the old one.)
Reload(s) == [s EXCEPT !.load = "asked"]

PutAnswered(e) ==
  /\ puts[e].stage \in {"done", "failed"}
  /\ puts' = [puts EXCEPT ![e] = NoPut]
  /\ IF puts[e].stage = "done"
     THEN screen' \in {[screen EXCEPT ![e] = Reload(@)], [screen EXCEPT ![e].moved = TRUE]}
     ELSE UNCHANGED screen
  /\ UNCHANGED <<grants, toggles, matrices>>

MatrixStep(e) ==
  \/ ReadGrants(e) \/ GrantsArrive(e) \/ Toggle(e) \/ DiscardStaged(e) \/ SaveMatrix(e)
  \/ BeginPut(e) \/ WriteGrant(e) \/ CommitPut(e) \/ FailPut(e) \/ PutAnswered(e)

MatrixNext == \E e \in Editors : MatrixStep(e)

MatrixSpec == MatrixInit /\ [][MatrixNext]_matrixVars

-----------------------------------------------------------------------------
\* What the screens and the saves are made of.
MatrixTypeOK ==
  /\ grants \in Matrix /\ screen \in [Editors -> Screens] /\ puts \in [Editors -> Puts]

\* "Without this the dirty bar stuck around post-save, Discard restored the
\* pre-save matrix, and the next Save silently reverted the change"
\* (RolesAdmin.tsx:156): a matrix with nothing to save shows the role's grants,
\* unless somebody else saved, or the last reload was refused.
DirtyBarTellsTruth ==
  \A e \in Editors :
    LET s == screen[e]
    IN s.shown /\ s.load = "none" /\ ~Saving(e) /\ ~s.moved /\ ~MatrixDirty(e) => s.staged = grants

\* A save is all or nothing, and leaves the matrix it sent.  One that overlapped
\* another leaves at most more: a grant it meant to take away, and found no row of,
\* is there if another save put it in: a delete that finds no row holds nobody back
\* (permissions/route.ts:84).
SaveIsWhole ==
  grants' # grants =>
    \E e \in Editors :
      /\ Open(e) /\ puts'[e].stage # "writing"
      /\ \A t \in TableSet :
           \/ grants'[t] = puts[e].grants[t]
           \/ puts[e].grants[t] = {} /\ ~puts[e].alone /\ grants'[t] = grants[t]
=============================================================================
