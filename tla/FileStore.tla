------------------------------ MODULE FileStore ------------------------------
(***************************************************************************)
(* Files: bytes in a directory (packages/storage/src/driver.ts), one row   *)
(* each in the files table, and rows of other tables that refer to them.   *)
(* Uploads, serving and removal of the admin handler (routes.ts), of the   *)
(* console (app/api/files), and the console's files screen.                *)
(*                                                                         *)
(* The two stores share no transaction: a request is a list of awaits, and *)
(* any may fail, lose its answer, or be the last one before a crash.       *)
(***************************************************************************)
EXTENDS Naturals, FiniteSets

CONSTANTS
  FileIds, Seeded,   \* files; those there at the start
  MaxFileJobs,       \* bound: requests
  MaxFileFaults,     \* bound: failures, lost answers, crashes, hooks that throw
  MaxFileDeeds       \* bound: clicks on the files screen, links made and dropped

ASSUME FileAssumption ==
  /\ Seeded \subseteq FileIds /\ IsFiniteSet(FileIds)
  /\ MaxFileJobs \in Nat /\ MaxFileFaults \in Nat /\ MaxFileDeeds \in Nat

VARIABLES
  disk,      \* the bytes under each name: none, part or whole
  fileRows,  \* the files table: its title, the file that was typed for
  linked,    \* files other rows refer to (ON DELETE SET NULL)
  jobs,      \* requests being handled
  pane,      \* the screen: rows listed, the file in the drawer, what is typed
  doubted,   \* history: files whose INSERT was reported as failed
  fileJobs, fileFaults, fileDeeds

fileVars == <<disk, fileRows, linked, jobs, pane, doubted, fileJobs, fileFaults, fileDeeds>>
fileBounds == <<fileJobs, fileFaults, fileDeeds>>

-----------------------------------------------------------------------------
Bytes == {"none", "part", "whole"}
Untitled == ""
Titles == {Untitled} \cup FileIds
Uploads == {"upload", "consoleUpload"}
Kinds == Uploads \cup {"remove", "consoleDelete", "serve"}

Snapshot == [id \in DOMAIN fileRows |->
  [id |-> id, title |-> fileRows[id], linked |-> id \in linked]]

FileInit ==
  /\ disk \in [FileIds -> Bytes] /\ \A id \in FileIds :
       disk[id] \in IF id \in Seeded THEN {"whole", "none"} ELSE {"none"}
  /\ fileRows = [id \in Seeded |-> Untitled]
  /\ linked \in SUBSET Seeded
  /\ jobs = {} /\ pane = [listed |-> Snapshot, file |-> {}, title |-> Untitled, asked |-> FALSE]
  /\ doubted = {id \in Seeded : disk[id] = "none"}  \* seeded rows without bytes
  /\ fileJobs = 0 /\ fileFaults = 0 /\ fileDeeds = 0

-----------------------------------------------------------------------------
Fault == fileFaults < MaxFileFaults /\ fileFaults' = fileFaults + 1
Fine == UNCHANGED fileFaults

\* `late`: a link was made after this request looked for one.  `excused`:
\* something was left behind that nothing in the request could take back.
Step(j, pc) == jobs' = (jobs \ {j}) \cup {[j EXCEPT !.pc = pc]}
Excused(j, pc) == jobs' = (jobs \ {j}) \cup {[j EXCEPT !.pc = pc, !.excused = TRUE]}
StoresSame == UNCHANGED <<disk, fileRows, linked, doubted>>
ScreenSame == UNCHANGED <<pane, fileJobs, fileDeeds>>

Start(kind, id, pc) ==
  /\ fileJobs < MaxFileJobs /\ fileJobs' = fileJobs + 1
  /\ jobs' = jobs \cup {[n |-> fileJobs', kind |-> kind, id |-> id, pc |-> pc,
                         late |-> FALSE, excused |-> FALSE, body |-> "none"]}
  /\ UNCHANGED <<disk, fileRows, linked, doubted, fileFaults>>

Used == DOMAIN fileRows \cup {j.id : j \in jobs} \cup {id \in FileIds : disk[id] # "none"}

\* An upload that passes the gate, the size, the type and its first bytes
\* (sniffImage) gets a name of its own; the others touch nothing.
SendUpload == \E kind \in Uploads, id \in FileIds \ Used :
  Start(kind, id, "put") /\ UNCHANGED <<pane, fileDeeds>>

\* writeFile: the name is there before its bytes are.
PutBegins(j) ==
  /\ j.pc = "put" /\ disk' = [disk EXCEPT ![j.id] = "part"] /\ Step(j, "write")
  /\ Fine /\ UNCHANGED <<fileRows, linked, doubted>> /\ ScreenSame
PutEnds(j) ==
  /\ j.pc = "write"
  /\ \/ disk' = [disk EXCEPT ![j.id] = "whole"] /\ Step(j, "insert") /\ Fine
     \/ Excused(j, "refused") /\ Fault /\ UNCHANGED disk
  /\ UNCHANGED <<fileRows, linked, doubted>> /\ ScreenSame

\* Mutation: the refusal of the row is passed on at once.
AfterRefusalOnly(j) == Step(j, "refused")

\* The row's INSERT: refused by a grant or a constraint, or done and its answer
\* lost.  The handler takes the bytes back, the console leaves them.
AfterRefusal(j) == IF j.kind = "upload" THEN Step(j, "takeBack") ELSE Excused(j, "refused")

InsertFile(j) ==
  /\ j.pc = "insert"
  /\ LET added == [id \in DOMAIN fileRows \cup {j.id} |-> IF id = j.id THEN Untitled ELSE fileRows[id]]
     IN \/ /\ fileRows' = added /\ Step(j, IF j.kind = "upload" THEN "hook" ELSE "ok")
           /\ Fine /\ UNCHANGED doubted
        \/ AfterRefusal(j) /\ Fault /\ UNCHANGED <<fileRows, doubted>>
        \/ /\ fileRows' = added /\ doubted' = doubted \cup {j.id}
           /\ Fault /\ (IF j.kind = "upload" THEN Excused(j, "takeBack") ELSE Excused(j, "refused"))
  /\ UNCHANGED <<disk, linked>> /\ ScreenSame

\* driver.delete swallows its errors.
Unlink(j) ==
  \/ disk' = [disk EXCEPT ![j.id] = "none"] /\ Fine
  \/ UNCHANGED disk /\ Fault

TakeBack(j) ==
  /\ j.pc = "takeBack" /\ Unlink(j)
  /\ IF disk'[j.id] = "none" THEN Step(j, "refused") ELSE Excused(j, "refused")
  /\ UNCHANGED <<fileRows, linked, doubted>> /\ ScreenSame

\* onWrite runs after the commit; what it throws is the answer.
Hook(j) ==
  /\ j.pc = "hook"
  /\ \/ Step(j, IF j.kind = "upload" THEN "ok" ELSE "unlink") /\ Fine
     \/ Excused(j, "refused") /\ Fault
  /\ StoresSame /\ ScreenSame

-----------------------------------------------------------------------------
\* removeFile.
SendRemoval == \E id \in DOMAIN fileRows :
  Start("remove", id, "read") /\ UNCHANGED <<pane, fileDeeds>>

\* Mutation: the console does not look for references.
LookForRow(j) ==
  /\ j.pc = "read"
  /\ Step(j, IF j.id \notin DOMAIN fileRows THEN "refused" ELSE IF j.kind = "serve" THEN "stat" ELSE "deleteRow")
  /\ StoresSame /\ Fine /\ ScreenSame

\* The row is read first; the console also looks for references, and deletes no
\* row while there is one.
Look(j) ==
  /\ j.pc = "read"
  /\ Step(j, IF j.id \notin DOMAIN fileRows \/ (j.kind = "consoleDelete" /\ j.id \in linked)
             THEN "refused" ELSE IF j.kind = "serve" THEN "stat" ELSE "deleteRow")
  /\ StoresSame /\ Fine /\ ScreenSame

Dropped(id) == [i \in DOMAIN fileRows \ {id} |-> fileRows[i]]

\* Mutation: the bytes go before the row is known to be gone.
DeleteRowTogether(j) ==
  /\ j.pc = "deleteRow" /\ disk' = [disk EXCEPT ![j.id] = "none"]
  /\ \/ /\ j.id \in DOMAIN fileRows /\ fileRows' = Dropped(j.id) /\ linked' = linked \ {j.id}
        /\ Step(j, "ok") /\ Fine
     \/ Step(j, "refused") /\ Fault /\ UNCHANGED <<fileRows, linked>>
  /\ UNCHANGED doubted /\ ScreenSame

\* The row; the foreign keys that referenced it become null.
DeleteRowOf(j) ==
  /\ j.pc = "deleteRow"
  /\ LET gone == fileRows' = Dropped(j.id) /\ linked' = linked \ {j.id}
     IN \/ /\ j.id \in DOMAIN fileRows /\ gone /\ Fine
           /\ Step(j, IF j.kind = "remove" THEN "hook" ELSE "unlink")
        \/ /\ Step(j, "refused") /\ UNCHANGED <<fileRows, linked>>
           /\ IF j.id \in DOMAIN fileRows THEN Fault ELSE Fine
        \/ j.id \in DOMAIN fileRows /\ gone /\ Excused(j, "refused") /\ Fault
  /\ UNCHANGED <<disk, doubted>> /\ ScreenSame

UnlinkBytes(j) ==
  /\ j.pc = "unlink" /\ Unlink(j) /\ Step(j, "ok")
  /\ UNCHANGED <<fileRows, linked, doubted>> /\ ScreenSame

SendServe == \E id \in FileIds : Start("serve", id, "read") /\ UNCHANGED <<pane, fileDeeds>>

\* stat, then the stream opens the file; both find what is there by then.
Serve(j) ==
  /\ \/ j.pc = "stat" /\ Step(j, IF disk[j.id] = "none" THEN "refused" ELSE "open")
     \/ /\ j.pc = "open"
        /\ jobs' = (jobs \ {j}) \cup {[j EXCEPT !.pc = "ok", !.body = disk[j.id]]}
  /\ StoresSame /\ Fine /\ ScreenSame

-----------------------------------------------------------------------------
\* Links are made and dropped by record saves.  A file's row may also go by the
\* generic delete of a record, which knows nothing of bytes.
FileDeed == fileDeeds < MaxFileDeeds /\ fileDeeds' = fileDeeds + 1

LinkFile(id) ==
  /\ FileDeed /\ id \in DOMAIN fileRows
  /\ IF id \in linked THEN linked' = linked \ {id} /\ UNCHANGED jobs
     ELSE /\ linked' = linked \cup {id}
          /\ jobs' = {[j EXCEPT !.late = @ \/ (j.id = id /\ j.pc = "deleteRow")] : j \in jobs}
  /\ UNCHANGED <<disk, fileRows, pane, doubted, fileJobs, fileFaults>>

DeleteRecord(id) ==
  /\ Fault /\ id \in DOMAIN fileRows
  /\ fileRows' = Dropped(id) /\ linked' = linked \ {id}
  /\ UNCHANGED <<disk, jobs, pane, doubted, fileJobs, fileDeeds>>

\* A process dies with what it was handling.
CrashOf(kinds) ==
  /\ \E j \in jobs : j.kind \in kinds /\ j.pc \notin {"ok", "refused"}
  /\ Fault /\ jobs' = {j \in jobs : j.kind \notin kinds}
  /\ UNCHANGED <<disk, fileRows, linked, pane, doubted, fileJobs, fileDeeds>>

-----------------------------------------------------------------------------
\* The screen.  A click on a row opens it, and the effect on the row resets the
\* box; so does every list answered.
Shows(row) == [pane EXCEPT !.file = {row}, !.title = row.title]

OpenFile(id) ==
  /\ FileDeed /\ id \in DOMAIN pane.listed
  /\ pane' = Shows(pane.listed[id])
  /\ UNCHANGED <<disk, fileRows, linked, jobs, doubted, fileJobs, fileFaults>>

TypeTitle == \E row \in pane.file :
  /\ FileDeed /\ pane' = [pane EXCEPT !.title = row.id]
  /\ UNCHANGED <<disk, fileRows, linked, jobs, doubted, fileJobs, fileFaults>>

\* saveTitle: one UPDATE by key; then the list is asked again.
SaveTitle == \E row \in pane.file :
  /\ FileDeed /\ pane.title # row.title /\ row.id \in DOMAIN fileRows
  /\ fileRows' = [fileRows EXCEPT ![row.id] = pane.title]
  /\ pane' = [pane EXCEPT !.asked = TRUE]
  /\ UNCHANGED <<disk, linked, jobs, doubted, fileJobs, fileFaults>>

\* del: the button is off for a row listed with references.
AskDelete == \E row \in pane.file :
  /\ ~row.linked /\ ~\E j \in jobs : j.kind = "consoleDelete" /\ j.pc \notin {"ok", "refused"}
  /\ Start("consoleDelete", row.id, "read")
  /\ pane' = [pane EXCEPT !.asked = TRUE] /\ UNCHANGED fileDeeds

\* A drawer whose file is not in the list keeps the row it had.
FilesListed ==
  /\ pane.asked
  /\ LET now == {Snapshot[id] : id \in {row.id : row \in pane.file} \cap DOMAIN Snapshot}
         listed == [pane EXCEPT !.listed = Snapshot, !.asked = FALSE]
     IN pane' \in IF now = {} THEN {listed}
                  ELSE {[listed EXCEPT !.file = {row}, !.title = row.title] : row \in now}
  /\ UNCHANGED <<disk, fileRows, linked, jobs, doubted, fileBounds>>

FileNext ==
  \/ SendUpload \/ SendRemoval \/ SendServe \/ TypeTitle \/ SaveTitle \/ AskDelete \/ FilesListed
  \/ \E id \in FileIds : LinkFile(id) \/ DeleteRecord(id) \/ OpenFile(id)
  \/ \E j \in jobs : \/ PutBegins(j) \/ PutEnds(j) \/ InsertFile(j) \/ TakeBack(j) \/ Hook(j)
                     \/ Look(j) \/ DeleteRowOf(j) \/ UnlinkBytes(j) \/ Serve(j)
  \/ CrashOf({"upload", "remove", "serve"}) \/ CrashOf({"consoleUpload", "consoleDelete"})

FileSpec == FileInit /\ [][FileNext]_fileVars

-----------------------------------------------------------------------------
\* What the stores and the requests are made of.
FileTypeOK ==
  /\ disk \in [FileIds -> Bytes] /\ linked \subseteq DOMAIN fileRows
  /\ DOMAIN fileRows \subseteq FileIds /\ \A id \in DOMAIN fileRows : fileRows[id] \in Titles
  /\ \A j \in jobs : j.kind \in Kinds /\ j.id \in FileIds /\ j.body \in Bytes
  /\ Cardinality(pane.file) <= 1 /\ pane.title \in Titles

\* A file's row has all its bytes, whatever fails and wherever a process dies,
\* unless its INSERT was reported as failed though it was done; nobody is served
\* a part of them; and the title in the row was typed for it.
FilesAreWhole ==
  /\ \A id \in DOMAIN fileRows : disk[id] = "whole" \/ id \in doubted
  /\ \A j \in jobs : j.body # "part"
  /\ \A id \in DOMAIN fileRows : fileRows[id] \in {Untitled, id}

\* "Bytes without a row are an orphan nothing can reach; take them back"
\* (routes.ts:350): an upload answered with an error left neither, unless the
\* bytes could not be removed, onWrite threw, or an answer was lost.
RefusalsLeaveNothing ==
  \A j \in jobs : j.kind = "upload" /\ j.pc = "refused" /\ ~j.excused =>
    j.id \notin DOMAIN fileRows /\ disk[j.id] = "none"

\* The console deletes no file a row refers to, unless the reference was made
\* after it had looked (files/delete/route.ts:20).
DeletesSpareTheLinked ==
  \A id \in linked \ linked' : \A j \in jobs :
    j.id = id /\ j.kind = "consoleDelete" /\ j.pc = "deleteRow" /\ j \notin jobs' => j.late
=============================================================================
