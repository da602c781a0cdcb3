--------------------------- MODULE SessionsProofs ---------------------------
(***************************************************************************)
(* Proofs about Sessions: the type invariant, single use, the lineage of   *)
(* every session, surface isolation, and the refinement of SessionLeases.  *)
(*                                                                         *)
(* SingleUse is not inductive as it stands: that a rotation finds its pair *)
(* unspent follows from HeadOfLineage, which needs the ledger to refer     *)
(* backwards only, and TypeOK needs every pair a jar or a request names to *)
(* have been issued.  SessionsInv is the conjunction.                      *)
(***************************************************************************)
EXTENDS Sessions, TLAPS

\* A pair replaces an older one and belongs to a session opened no later.
LedgerBackwards ==
  \A i \in Issued : ledger[i].from < i /\ ledger[i].id \in 1 .. i

JarIssued ==
  \A b \in Browsers, s \in Surfaces : jar[b][s] \in Issued \cup {None}

\* What a request names was issued, and what it hands out is of its surface.
SoundRequest(r) ==
  /\ r.pc \in {"select", "update", "revoke"} => r.pair \in Issued
  /\ r.pc = "answer" /\ r.effect = "clear" => r.pair \in Issued
  /\ Carries(r) => r.got \in Issued /\ ledger[r.got].origin = r.surf

RequestsSound == \A c \in Requests : req[c] # Idle => SoundRequest(req[c])

SessionsInv ==
  /\ TypeOK
  /\ SingleUse
  /\ HeadOfLineage
  /\ LedgerBackwards
  /\ JarIssued
  /\ RequestsSound

-----------------------------------------------------------------------------
(* Facts the steps share *)

\* A request that has reached a step of a handler is a full request record.
LEMMA BusyTyped ==
  ASSUME TypeOK, NEW c \in Requests, req[c].pc \in Steps
  PROVE  req[c] \in Request /\ req[c] # Idle
BY DEF TypeOK, Idle, Steps

LEMMA LedgerTyped ==
  ASSUME TypeOK, NEW i \in Issued
  PROVE  /\ ledger[i] \in Issue
         /\ ledger[i].id \in Pair /\ ledger[i].user \in Users
         /\ ledger[i].origin \in Surfaces
<1>1. ledger[i] \in Issue
  BY DEF TypeOK, Issued
<1> QED BY <1>1 DEF Issue

\* Appending to the ledger issues exactly one new pair and changes no old entry.
LEMMA LedgerGrows ==
  ASSUME ledger \in Seq(Issue), NEW e \in Issue, ledger' = Append(ledger, e)
  PROVE  /\ ledger' \in Seq(Issue)
         /\ Len(ledger) \in Nat
         /\ Len(ledger') = Len(ledger) + 1
         /\ \A i \in Issued : i \in Issued' /\ ledger'[i] = ledger[i]
         /\ NewPair \in Issued' /\ NewPair \notin Issued /\ NewPair # None
         /\ ledger'[NewPair] = e
         /\ \A i \in Issued' : i \in Issued \/ i = NewPair
BY DEF Issued, NewPair, None

\* A request that names only issued pairs still does when more are issued.
LEMMA SoundRequestStays ==
  ASSUME NEW r, SoundRequest(r),
         \A i \in Issued : i \in Issued' /\ ledger'[i] = ledger[i]
  PROVE  SoundRequest(r)'
BY DEF SoundRequest, Carries

\* A step that issues nothing keeps the invariant when it adds no row, names only
\* issued pairs, and is well typed.
LEMMA NoIssueInv ==
  ASSUME SessionsInv, TypeOK', JarIssued',
         ledger' = ledger, rows' \subseteq rows,
         \A c \in Requests : req'[c] # Idle => req'[c] = req[c] \/ SoundRequest(req'[c])
  PROVE  SessionsInv'
<1>1. SingleUse' /\ LedgerBackwards'
  BY DEF SessionsInv, SingleUse, LedgerBackwards, Issued
<1>2. HeadOfLineage'
  BY DEF SessionsInv, HeadOfLineage, Issued
<1>3. RequestsSound'
  BY DEF SessionsInv, RequestsSound, SoundRequest, Issued
<1> QED BY <1>1, <1>2, <1>3 DEF SessionsInv

\* Moving one request on, with the tables and jars untouched.
LEMMA BecomeInv ==
  ASSUME SessionsInv, NEW c \in Requests, NEW r \in Request \cup {Idle},
         r # Idle => SoundRequest(r), Become(c, r)
  PROVE  SessionsInv'
<1>1. TypeOK' /\ JarIssued'
  BY DEF SessionsInv, TypeOK, JarIssued, Issued, Become, store, history
<1>2. \A d \in Requests : req'[d] = IF d = c THEN r ELSE req[d]
  BY DEF SessionsInv, TypeOK, Become
<1>3. ledger' = ledger /\ rows' = rows
  BY DEF Become, store, history
<1> QED BY <1>1, <1>2, <1>3, NoIssueInv

-----------------------------------------------------------------------------
(* One lemma per handler *)

LEMMA SendInv ==
  ASSUME SessionsInv, NEW c \in Requests, NEW r \in Request, SoundRequest(r), Send(c, r)
  PROVE  SessionsInv'
<1>1. TypeOK' /\ JarIssued'
  BY DEF SessionsInv, TypeOK, JarIssued, Issued, Send, store, history
<1>2. \A d \in Requests : req'[d] = IF d = c THEN r ELSE req[d]
  BY DEF SessionsInv, TypeOK, Send
<1>3. ledger' = ledger /\ rows' = rows
  BY DEF Send, store, history
<1> QED BY <1>1, <1>2, <1>3, NoIssueInv

LEMMA PersonInv ==
  ASSUME SessionsInv, NEW c \in Requests, NEW b \in Browsers, NEW s \in Surfaces,
         Person(c, b, s)
  PROVE  SessionsInv'
<1>1. ASSUME NEW u \in Users, SendLogin(c, b, s, u)
      PROVE  SessionsInv'
  <2> DEFINE r == [pc |-> "lookup", br |-> b, surf |-> s, user |-> u, ok |-> FALSE,
                   pair |-> None, at |-> 0, got |-> None, effect |-> "keep"]
  <2>1. r \in Request /\ SoundRequest(r)
    BY DEF Request, Steps, JarEffect, Pair, None, SoundRequest, Carries
  <2> QED BY <1>1, <2>1, SendInv DEF SendLogin
<1>2. ASSUME NEW pc \in {"select", "revoke"}, jar[b][s] # None,
             Send(c, [pc |-> pc, br |-> b, surf |-> s, user |-> ledger[jar[b][s]].user,
                      ok |-> FALSE, pair |-> jar[b][s], at |-> 0, got |-> None,
                      effect |-> "keep"])
      PROVE  SessionsInv'
  <2> DEFINE r == [pc |-> pc, br |-> b, surf |-> s, user |-> ledger[jar[b][s]].user,
                   ok |-> FALSE, pair |-> jar[b][s], at |-> 0, got |-> None,
                   effect |-> "keep"]
  <2>1. jar[b][s] \in Issued
    BY <1>2 DEF SessionsInv, JarIssued
  <2>2. ledger[jar[b][s]].user \in Users
    BY <2>1, LedgerTyped DEF SessionsInv
  <2>3. r \in Request
    BY <2>1, <2>2 DEF Request, Steps, JarEffect, Pair, None, Issued
  <2>4. SoundRequest(r)
    BY <2>1 DEF SoundRequest, Carries
  <2> HIDE DEF r
  <2> QED BY <1>2, <2>3, <2>4, SendInv DEF r
<1>3. CASE SendRefresh(c, b, s)
  BY <1>2, <1>3 DEF SendRefresh
<1>4. CASE SendLogout(c, b, s)
  BY <1>2, <1>4 DEF SendLogout
<1> QED BY <1>1, <1>3, <1>4 DEF Person

\* The steps that only move a request on or answer it.
LEMMA QuietInv ==
  ASSUME SessionsInv, NEW c \in Requests,
         \/ LookupUser(c) \/ VerifyPassword(c) \/ RotateSelect(c)
         \/ RevokeFails(c) \/ ServerError(c)
  PROVE  SessionsInv'
<1> DEFINE A == Answered(req[c], "keep")
<1>1. req[c] \in Request /\ SoundRequest(req[c])
  BY BusyTyped DEF LookupUser, VerifyPassword, RotateSelect, RevokeFails, ServerError,
                   Steps, SessionsInv, RequestsSound
<1>2. A \in Request /\ SoundRequest(A)
  BY <1>1 DEF Answered, Request, Steps, JarEffect, SoundRequest, Carries
<1>3. CASE Become(c, A)
  BY <1>2, <1>3, BecomeInv
<1>4. CASE LookupUser(c)
  <2> DEFINE r == [req[c] EXCEPT !.pc = "verify", !.ok = active[req[c].user]]
  <2>1. r \in Request /\ SoundRequest(r)
    BY <1>1 DEF Request, Steps, SoundRequest, Carries, SessionsInv, TypeOK
  <2> QED BY <1>4, <2>1, BecomeInv DEF LookupUser
<1>5. CASE VerifyPassword(c)
  <2> DEFINE r == [req[c] EXCEPT !.pc = "mint"]
  <2>1. r \in Request /\ SoundRequest(r)
    BY <1>1 DEF Request, Steps, SoundRequest, Carries
  <2> QED BY <1>3, <1>5, <2>1, BecomeInv DEF VerifyPassword
<1>6. CASE RotateSelect(c)
  <2> DEFINE r == [req[c] EXCEPT !.pc = "update", !.at = now]
  <2>1. r \in Request /\ SoundRequest(r)
    BY <1>1, <1>6 DEF Request, Steps, SoundRequest, Carries, SessionsInv, TypeOK, RotateSelect
  <2> QED BY <1>3, <1>6, <2>1, BecomeInv DEF RotateSelect, Refused
<1>7. CASE RevokeFails(c) \/ ServerError(c)
  BY <1>3, <1>7 DEF RevokeFails, ServerError
<1> QED BY <1>4, <1>5, <1>6, <1>7

LEMMA WelcomeInv ==
  ASSUME SessionsInv, NEW c \in Requests, Welcome(c)
  PROVE  SessionsInv'
<1> DEFINE A == Answered(req[c], "set")
           K == Answered(req[c], "keep")
<1>1. req[c] \in Request /\ SoundRequest(req[c]) /\ req[c].pc = "welcome"
  BY BusyTyped DEF Welcome, Steps, SessionsInv, RequestsSound
<1>2. A \in Request /\ SoundRequest(A)
  BY <1>1 DEF Answered, Request, Steps, JarEffect, SoundRequest, Carries
<1>3. K \in Request /\ SoundRequest(K)
  BY <1>1 DEF Answered, Request, Steps, JarEffect, SoundRequest, Carries
<1>4. CASE Become(c, A)
  BY <1>2, <1>4, BecomeInv
<1>5. CASE /\ req' = [req EXCEPT ![c] = K]
           /\ abandoned' = abandoned \cup {req[c].got}
           /\ UNCHANGED <<now, store, jar, sent, lost, ledger, signedOut>>
  <2>1. req[c].got \in Pair
    BY <1>1 DEF Request
  <2>2. TypeOK' /\ JarIssued'
    BY <1>3, <1>5, <2>1 DEF SessionsInv, TypeOK, JarIssued, Issued, store
  <2>3. \A d \in Requests : req'[d] = IF d = c THEN K ELSE req[d]
    BY <1>5 DEF SessionsInv, TypeOK
  <2> QED BY <1>3, <1>5, <2>2, <2>3, NoIssueInv DEF store
<1> QED BY <1>4, <1>5 DEF Welcome

\* A step that answers one request and removes rows.
LEMMA AnswerInv ==
  ASSUME SessionsInv, NEW c \in Requests, NEW eff \in JarEffect,
         req[c].pc \in Steps, SoundRequest(Answered(req[c], eff)),
         rows' \subseteq rows, req' = [req EXCEPT ![c] = Answered(req[c], eff)],
         abandoned' \in SUBSET Pair,
         UNCHANGED <<now, active, jar, sent, lost, ledger, signedOut>>
  PROVE  SessionsInv'
<1>1. req[c] \in Request
  BY BusyTyped DEF SessionsInv
<1>2. Answered(req[c], eff) \in Request
  BY <1>1 DEF Answered, Request, Steps
<1>3. TypeOK' /\ JarIssued'
  BY <1>2 DEF SessionsInv, TypeOK, JarIssued, Issued
<1>4. \A d \in Requests : req'[d] = IF d = c THEN Answered(req[c], eff) ELSE req[d]
  BY DEF SessionsInv, TypeOK
<1> QED BY <1>3, <1>4, NoIssueInv

LEMMA RotateSweepInv ==
  ASSUME SessionsInv, NEW c \in Requests, RotateSweep(c)
  PROVE  SessionsInv'
<1>1. req[c].pc = "sweep" /\ req[c] \in Request /\ SoundRequest(req[c])
  BY BusyTyped DEF RotateSweep, Steps, SessionsInv, RequestsSound
<1>2. SoundRequest(Answered(req[c], "set"))
  BY <1>1 DEF Answered, Request, SoundRequest, Carries
<1>3. rows' \subseteq rows /\ UNCHANGED <<now, active, jar, sent, lost, ledger, signedOut, abandoned>>
  BY DEF RotateSweep, history
<1>4. abandoned' \in SUBSET Pair
  BY <1>3 DEF SessionsInv, TypeOK
<1> QED BY <1>1, <1>2, <1>3, <1>4, AnswerInv DEF RotateSweep, JarEffect, Steps

LEMMA RevokeInv ==
  ASSUME SessionsInv, NEW c \in Requests, Revoke(c)
  PROVE  SessionsInv'
<1>1. req[c].pc = "revoke" /\ req[c] \in Request /\ SoundRequest(req[c])
  BY BusyTyped DEF Revoke, Steps, SessionsInv, RequestsSound
<1>2. SoundRequest(Answered(req[c], "clear"))
  BY <1>1 DEF Answered, Request, SoundRequest, Carries
<1>3. IdOf(req[c].pair) \in Pair
  BY <1>1, LedgerTyped DEF SoundRequest, SessionsInv, IdOf
<1>4. abandoned' \in SUBSET Pair
  BY <1>3 DEF SessionsInv, TypeOK, Revoke
<1> QED BY <1>1, <1>2, <1>4, AnswerInv DEF Revoke, JarEffect, Steps

-----------------------------------------------------------------------------
(* The browser and the world *)

LEMMA DroppedTyped ==
  ASSUME SessionsInv, NEW b \in Browsers, NEW s \in Surfaces, NEW i
  PROVE  Dropped(b, s, i) \in SUBSET Pair
<1>1. jar[b][s] # None => jar[b][s] \in Issued
  BY DEF SessionsInv, JarIssued
<1> QED BY <1>1, LedgerTyped DEF Dropped, IdOf, SessionsInv

\* A step that writes one cookie jar with an issued pair, or empties it, and may
\* put the request that brought the answer to rest.
LEMMA JarInv ==
  ASSUME SessionsInv, NEW b \in Browsers, NEW s \in Surfaces,
         NEW p \in Issued \cup {None}, NEW i,
         jar' = [jar EXCEPT ![b][s] = p],
         abandoned' = abandoned \cup Dropped(b, s, i),
         req' = req \/ (\E c \in Requests : req' = [req EXCEPT ![c] = Idle]),
         signedOut' \in SUBSET Pair,
         UNCHANGED <<now, store, sent, lost, ledger>>
  PROVE  SessionsInv'
<1>1. p \in Pair
  BY DEF SessionsInv, TypeOK, Issued, Pair, None
<1>2. jar' \in [Browsers -> [Surfaces -> Pair]]
  BY <1>1 DEF SessionsInv, TypeOK
<1>3. req' \in [Requests -> Request \cup {Idle}]
  BY DEF SessionsInv, TypeOK
<1>4. TypeOK'
  BY <1>2, <1>3, DroppedTyped DEF SessionsInv, TypeOK, store
<1>5. JarIssued'
  BY DEF SessionsInv, JarIssued, TypeOK, Issued
<1>6. \A c \in Requests : req'[c] # Idle => req'[c] = req[c]
  BY DEF SessionsInv, TypeOK
<1> QED BY <1>4, <1>5, <1>6, NoIssueInv DEF store

LEMMA DeliverInv ==
  ASSUME SessionsInv, NEW c \in Requests, Deliver(c)
  PROVE  SessionsInv'
<1>1. req[c].pc = "answer" /\ req[c] \in Request /\ SoundRequest(req[c])
  BY BusyTyped DEF Deliver, Steps, SessionsInv, RequestsSound
<1>2. req[c].br \in Browsers /\ req[c].surf \in Surfaces
  BY <1>1 DEF Request
<1>3. CASE req[c].effect = "keep" /\ UNCHANGED <<jar, signedOut, abandoned>>
  <2>1. TypeOK' /\ JarIssued'
    BY <1>3 DEF SessionsInv, TypeOK, JarIssued, Issued, Deliver, store
  <2>2. \A d \in Requests : req'[d] # Idle => req'[d] = req[d]
    BY DEF SessionsInv, TypeOK, Deliver
  <2> QED BY <2>1, <2>2, NoIssueInv DEF Deliver, store
<1>4. CASE /\ req[c].effect = "set"
           /\ jar' = [jar EXCEPT ![req[c].br][req[c].surf] = req[c].got]
           /\ abandoned' = abandoned \cup Dropped(req[c].br, req[c].surf, IdOf(req[c].got))
           /\ UNCHANGED signedOut
  <2>1. req[c].got \in Issued
    BY <1>1, <1>4 DEF SoundRequest, Carries
  <2>2. signedOut' \in SUBSET Pair
    BY <1>4 DEF SessionsInv, TypeOK
  <2> QED BY <1>2, <1>4, <2>1, <2>2, JarInv DEF Deliver
<1>5. CASE /\ req[c].effect = "clear"
           /\ jar' = [jar EXCEPT ![req[c].br][req[c].surf] = None]
           /\ abandoned' = abandoned \cup Dropped(req[c].br, req[c].surf, IdOf(req[c].pair))
           /\ signedOut' = signedOut \cup {req[c].pair}
  <2>1. signedOut' \in SUBSET Pair
    BY <1>1, <1>5 DEF SessionsInv, TypeOK, Request
  <2> QED BY <1>2, <1>5, <2>1, JarInv DEF Deliver
<1> QED BY <1>3, <1>4, <1>5 DEF Deliver

LEMMA LoseAnswerInv ==
  ASSUME SessionsInv, NEW c \in Requests, LoseAnswer(c)
  PROVE  SessionsInv'
<1>1. req[c].pc = "answer" /\ req[c] \in Request /\ SoundRequest(req[c])
  BY BusyTyped DEF LoseAnswer, Steps, SessionsInv, RequestsSound
<1>2. req[c].effect = "set" => IdOf(req[c].got) \in Pair
  BY <1>1, LedgerTyped DEF SoundRequest, Carries, IdOf, SessionsInv
<1>3. abandoned' \in SUBSET Pair
  BY <1>2 DEF SessionsInv, TypeOK, LoseAnswer
<1>4. TypeOK' /\ JarIssued'
  BY <1>3 DEF SessionsInv, TypeOK, JarIssued, Issued, LoseAnswer, store
<1>5. \A d \in Requests : req'[d] # Idle => req'[d] = req[d]
  BY DEF SessionsInv, TypeOK, LoseAnswer
<1> QED BY <1>4, <1>5, NoIssueInv DEF LoseAnswer, store

LEMMA CookieInv ==
  ASSUME SessionsInv, NEW b \in Browsers, NEW s \in Surfaces, NEW t \in Surfaces,
         CookiesExpire(b, s) \/ CarryCookie(b, s, t)
  PROVE  SessionsInv'
<1>1. signedOut' \in SUBSET Pair
  BY DEF SessionsInv, TypeOK, CookiesExpire, CarryCookie
<1>2. CASE CookiesExpire(b, s)
  BY <1>1, <1>2, JarInv DEF CookiesExpire
<1>3. CASE CarryCookie(b, s, t)
  <2>1. jar[b][s] \in Issued \cup {None}
    BY DEF SessionsInv, JarIssued
  <2> QED BY <1>1, <1>3, <2>1, JarInv DEF CarryCookie
<1> QED BY <1>2, <1>3

LEMMA WorldInv ==
  ASSUME SessionsInv,
         \/ \E u \in Users, v \in BOOLEAN : SetActive(u, v)
         \/ \E u \in Users, p \in Presentable : RevokeAllForUser(u, p)
         \/ Tick
         \/ UNCHANGED vars
  PROVE  SessionsInv'
<1>1. TypeOK' /\ JarIssued'
  BY DEF SessionsInv, TypeOK, JarIssued, Issued, SetActive, RevokeAllForUser, Tick, vars,
         store, history
<1>2. req' = req /\ ledger' = ledger /\ rows' \subseteq rows
  BY DEF SetActive, RevokeAllForUser, Tick, vars, store, history
<1> QED BY <1>1, <1>2, NoIssueInv

-----------------------------------------------------------------------------
(* The two statements that issue a pair *)

\* What an issuing step does beside the table: it appends e to the ledger and
\* leaves the request holding the new pair, which is of the request's surface.
LEMMA IssueInv ==
  ASSUME SessionsInv, NEW c \in Requests, NEW e \in Issue,
         NEW pc \in {"welcome", "sweep"},
         ledger' = Append(ledger, e), e.from \in Issued \cup {None},
         e.id \in Issued \cup {NewPair}, e.origin = req[c].surf,
         req[c] \in Request,
         req' = [req EXCEPT ![c].pc = pc, ![c].got = NewPair],
         rows' \in SUBSET Row,
         UNCHANGED <<now, active, jar, sent, lost, signedOut, abandoned>>
  PROVE  TypeOK' /\ LedgerBackwards' /\ JarIssued' /\ RequestsSound'
<1>1. /\ ledger' \in Seq(Issue)
      /\ Len(ledger) \in Nat
      /\ \A i \in Issued : i \in Issued' /\ ledger'[i] = ledger[i]
      /\ NewPair \in Issued' /\ NewPair \notin Issued
      /\ ledger'[NewPair] = e
      /\ \A i \in Issued' : i \in Issued \/ i = NewPair
  BY LedgerGrows DEF SessionsInv, TypeOK
<1> DEFINE r == [req[c] EXCEPT !.pc = pc, !.got = NewPair]
<1>2. NewPair \in Pair
  BY <1>1 DEF NewPair, Pair
<1>3. r \in Request
  BY <1>2 DEF Request, Steps
<1>4. \A d \in Requests : req'[d] = IF d = c THEN r ELSE req[d]
  BY DEF SessionsInv, TypeOK
<1>5. req' \in [Requests -> Request \cup {Idle}]
  BY <1>3 DEF SessionsInv, TypeOK
<1>6. TypeOK'
  BY <1>1, <1>5 DEF SessionsInv, TypeOK
<1>7. LedgerBackwards'
  <2>1. ASSUME NEW i \in Issued'
        PROVE  ledger'[i].from < i /\ ledger'[i].id \in 1 .. i
    <3>1. CASE i \in Issued
      BY <1>1, <3>1 DEF SessionsInv, LedgerBackwards
    <3>2. CASE i = NewPair
      BY <1>1, <3>2 DEF NewPair, Issued, None, Issue, Pair
    <3> QED BY <1>1, <2>1, <3>1, <3>2
  <2> QED BY <2>1 DEF LedgerBackwards
<1>8. JarIssued'
  BY <1>1 DEF SessionsInv, JarIssued
<1>9. RequestsSound'
  <2>1. SoundRequest(req[c])'
    <3>1. r.pc = pc /\ r.got = NewPair /\ r.surf = req[c].surf
      BY DEF Request
    <3>2. pc \notin {"select", "update", "revoke", "answer"}
      OBVIOUS
    <3>3. ledger'[r.got].origin = r.surf /\ r.got \in Issued'
      BY <1>1, <3>1
    <3>4. req'[c] = r
      BY <1>4
    <3> HIDE DEF r
    <3> QED BY <3>1, <3>2, <3>3, <3>4 DEF SoundRequest, Carries
  <2>2. ASSUME NEW d \in Requests, d # c, req[d] # Idle
        PROVE  SoundRequest(req[d])'
    <3>1. SoundRequest(req[d]) /\ req'[d] = req[d]
      BY <1>4, <2>2 DEF SessionsInv, RequestsSound
    <3> QED BY <1>1, <3>1 DEF SoundRequest, Carries
  <2>3. \A d \in Requests : d # c => req'[d] = req[d]
    BY <1>4
  <2> QED BY <2>1, <2>2, <2>3 DEF RequestsSound, Idle
<1> QED BY <1>6, <1>7, <1>8, <1>9

LEMMA MintInv ==
  ASSUME SessionsAssumption, SessionsInv, NEW c \in Requests, Mint(c)
  PROVE  SessionsInv'
<1> DEFINE e == [from |-> None, id |-> NewPair, user |-> req[c].user, origin |-> req[c].surf]
           new == [id |-> NewPair, user |-> req[c].user, origin |-> req[c].surf,
                   pair |-> NewPair, aexp |-> now + AccessTtl, rexp |-> now + RefreshTtl]
<1>1. req[c] \in Request
  BY BusyTyped DEF Mint, Steps, SessionsInv
<1>2. rows' = rows \cup {new} /\ ledger' = Append(ledger, e)
  BY DEF Mint
<1>3. NewPair \in Nat
  BY DEF NewPair, SessionsInv, TypeOK
<1>4. e \in Issue /\ new \in Row
  BY <1>1, <1>3 DEF Issue, Row, Request, Pair, None, SessionsInv, TypeOK, SessionsAssumption
<1>5. /\ \A i \in Issued : i \in Issued' /\ ledger'[i] = ledger[i]
      /\ NewPair \in Issued' /\ NewPair \notin Issued /\ NewPair # None
      /\ ledger'[NewPair] = e
      /\ \A i \in Issued' : i \in Issued \/ i = NewPair
  BY <1>2, <1>4, LedgerGrows DEF SessionsInv, TypeOK
<1>6. TypeOK' /\ LedgerBackwards' /\ JarIssued' /\ RequestsSound'
  <2>1. rows' \in SUBSET Row
    BY <1>2, <1>4 DEF SessionsInv, TypeOK
  <2>2. req' = [req EXCEPT ![c].pc = "welcome", ![c].got = NewPair]
    BY DEF Mint
  <2>3. UNCHANGED <<now, active, jar, sent, lost, signedOut, abandoned>>
    BY DEF Mint
  <2> QED BY <1>1, <1>2, <1>4, <2>1, <2>2, <2>3, IssueInv
<1>7. SingleUse'
  BY <1>5 DEF SessionsInv, SingleUse
<1>8. HeadOfLineage'
  <2>1. \A r \in rows : r.pair \in Issued /\ r.id \in Issued
    <3>1. ASSUME NEW r \in rows
          PROVE  r.pair \in Issued /\ r.id \in 1 .. r.pair
      BY DEF SessionsInv, HeadOfLineage, LedgerBackwards
    <3> QED BY <3>1 DEF Issued, SessionsInv, TypeOK
  <2>2. ASSUME NEW r \in rows'
        PROVE  /\ r.pair \in Issued'
               /\ ledger'[r.pair].id = r.id /\ ledger'[r.pair].user = r.user
               /\ ledger'[r.pair].origin = r.origin
               /\ \A i \in Issued' : ledger'[i].from # r.pair
    <3>1. CASE r \in rows
      BY <1>5, <3>1 DEF SessionsInv, HeadOfLineage, Issued, None
    <3>2. CASE r = new
      <4>1. \A i \in Issued : ledger[i].from # NewPair
        BY DEF SessionsInv, TypeOK, LedgerBackwards, Issued, NewPair
      <4> QED BY <1>5, <3>2, <4>1
    <3> QED BY <1>2, <3>1, <3>2
  <2>3. \A q, r \in rows' : q.id = r.id => q = r
    BY <1>2, <1>5, <2>1 DEF SessionsInv, HeadOfLineage
  <2> QED BY <2>2, <2>3 DEF HeadOfLineage
<1> QED BY <1>6, <1>7, <1>8 DEF SessionsInv

\* The UPDATE of a rotation matches at most one row, the one whose newest pair is
\* presented; it belongs to the session, user and surface of that pair.
LEMMA ConsumesOne ==
  ASSUME SessionsInv, NEW c \in Requests, NEW m \in Consumed(c)
  PROVE  /\ m \in rows /\ Consumed(c) = {m}
         /\ req[c].pair \in Issued /\ m.pair = req[c].pair
         /\ m.origin = req[c].surf
         /\ ledger[req[c].pair].id = m.id
         /\ ledger[req[c].pair].user = m.user
         /\ ledger[req[c].pair].origin = m.origin
         /\ \A i \in Issued : ledger[i].from # req[c].pair
         /\ \A q \in rows : q.pair = req[c].pair \/ q.id = m.id => q = m
BY DEF SessionsInv, HeadOfLineage, Consumed, Live

LEMMA RotateUpdateInv ==
  ASSUME SessionsAssumption, SessionsInv, NEW c \in Requests, RotateUpdate(c)
  PROVE  SessionsInv'
<1>1. req[c].pc = "update" /\ req[c] \in Request /\ SoundRequest(req[c])
  BY BusyTyped DEF RotateUpdate, Steps, SessionsInv, RequestsSound
<1>2. CASE Consumed(c) = {}
  <2>1. Refused(req[c]) \in Request /\ SoundRequest(Refused(req[c]))
    BY <1>1 DEF Refused, Answered, Request, Steps, JarEffect, SoundRequest, Carries
  <2> QED BY <1>2, <2>1, BecomeInv DEF RotateUpdate
<1>3. CASE Consumed(c) # {}
  <2>1. PICK m \in Consumed(c) : TRUE
    BY <1>3
  <2> DEFINE p == req[c].pair
             new == Renewed(m, NewPair, req[c].at)
             e == [from |-> p, id |-> IdOf(p), user |-> ledger[p].user,
                   origin |-> ledger[p].origin]
  <2>2. /\ m \in rows /\ Consumed(c) = {m} /\ p \in Issued
        /\ m.pair = p /\ m.origin = req[c].surf
        /\ e.id = m.id /\ e.user = m.user /\ e.origin = m.origin
        /\ \A i \in Issued : ledger[i].from # p
        /\ \A q \in rows : q.pair = p \/ q.id = m.id => q = m
    BY <2>1, ConsumesOne DEF IdOf
  <2>3. rows' = (rows \ {m}) \cup {new}
    BY <1>3, <2>2 DEF RotateUpdate
  <2>4. ledger' = Append(ledger, e)
    BY <1>3 DEF RotateUpdate
  <2>5. NewPair \in Pair
    BY DEF NewPair, SessionsInv, TypeOK, Pair
  <2>6. m \in Row /\ req[c].at \in Nat
    BY <1>1, <2>2 DEF SessionsInv, TypeOK, Request
  <2>7. /\ new \in Row /\ new.pair = NewPair /\ new.id = m.id
        /\ new.user = m.user /\ new.origin = m.origin
    <3>1. req[c].at + AccessTtl \in Nat /\ req[c].at + RefreshTtl \in Nat
      BY <2>6 DEF SessionsAssumption
    <3>2. new = [m EXCEPT !.pair = NewPair, !.aexp = req[c].at + AccessTtl,
                          !.rexp = req[c].at + RefreshTtl]
      BY DEF Renewed
    <3> HIDE DEF new
    <3> QED BY <2>5, <2>6, <3>1, <3>2 DEF Row
  <2>8. e \in Issue
    BY <2>2, LedgerTyped DEF Issue, IdOf, SessionsInv, Issued, Pair
  <2>9. /\ \A i \in Issued : i \in Issued' /\ ledger'[i] = ledger[i]
        /\ NewPair \in Issued' /\ NewPair \notin Issued /\ NewPair # None
        /\ ledger'[NewPair] = e
        /\ \A i \in Issued' : i \in Issued \/ i = NewPair
    BY <2>4, <2>8, LedgerGrows DEF SessionsInv, TypeOK
  <2>10. e.from = p /\ e.from \in Issued /\ e.id \in Issued
    BY <2>2 DEF SessionsInv, LedgerBackwards, IdOf, Issued, TypeOK
  <2>11. TypeOK' /\ LedgerBackwards' /\ JarIssued' /\ RequestsSound'
    <3>1. rows' \in SUBSET Row
      BY <2>3, <2>7 DEF SessionsInv, TypeOK
    <3>2. req' = [req EXCEPT ![c].pc = "sweep", ![c].got = NewPair]
      BY <1>3 DEF RotateUpdate
    <3>3. UNCHANGED <<now, active, jar, sent, lost, signedOut, abandoned>>
      BY <1>3 DEF RotateUpdate
    <3>4. e.origin = req[c].surf
      BY <2>2
    <3> HIDE DEF e, new
    <3> QED BY <1>1, <2>4, <2>8, <2>10, <3>1, <3>2, <3>3, <3>4, IssueInv
  <2> HIDE DEF e, new
  <2>12. SingleUse'
    BY <2>2, <2>9, <2>10 DEF SessionsInv, SingleUse
  <2>13. HeadOfLineage'
    <3>1. ASSUME NEW r \in rows'
          PROVE  /\ r.pair \in Issued'
                 /\ ledger'[r.pair].id = r.id /\ ledger'[r.pair].user = r.user
                 /\ ledger'[r.pair].origin = r.origin
                 /\ \A i \in Issued' : ledger'[i].from # r.pair
      <4>1. CASE r \in rows /\ r # m
        BY <2>2, <2>9, <2>10, <4>1 DEF SessionsInv, HeadOfLineage
      <4>2. CASE r = new
        <5>1. \A i \in Issued : ledger[i].from # NewPair
          BY DEF SessionsInv, TypeOK, LedgerBackwards, Issued, NewPair
        <5> QED BY <2>2, <2>7, <2>9, <2>10, <4>2, <5>1
      <4> QED BY <2>3, <4>1, <4>2
    <3>2. \A q, r \in rows' : q.id = r.id => q = r
      BY <2>2, <2>3, <2>7 DEF SessionsInv, HeadOfLineage
    <3> QED BY <3>1, <3>2 DEF HeadOfLineage
  <2> QED BY <2>11, <2>12, <2>13 DEF SessionsInv
<1> QED BY <1>2, <1>3

-----------------------------------------------------------------------------
(* The invariant and what follows from it *)

LEMMA InitInv == Init => SessionsInv
<1> SUFFICES ASSUME Init PROVE SessionsInv
  OBVIOUS
<1>1. TypeOK
  BY DEF Init, TypeOK, Pair, None
<1>2. Issued = {}
  BY DEF Init, Issued
<1>3. HeadOfLineage /\ SingleUse /\ LedgerBackwards /\ JarIssued /\ RequestsSound
  BY <1>2 DEF Init, HeadOfLineage, SingleUse, LedgerBackwards, JarIssued, RequestsSound
<1> QED BY <1>1, <1>3 DEF SessionsInv

LEMMA NextInv ==
  ASSUME SessionsAssumption, SessionsInv, [Next]_vars
  PROVE  SessionsInv'
<1>1. ASSUME NEW c \in Requests, Handler(c) \/ Deliver(c) \/ LoseAnswer(c)
      PROVE  SessionsInv'
  BY <1>1, QuietInv, WelcomeInv, MintInv, RotateUpdateInv, RotateSweepInv, RevokeInv,
     DeliverInv, LoseAnswerInv DEF Handler
<1>2. ASSUME NEW c \in Requests, NEW b \in Browsers, NEW s \in Surfaces, Person(c, b, s)
      PROVE  SessionsInv'
  BY <1>2, PersonInv
<1>3. ASSUME NEW b \in Browsers, NEW s \in Surfaces, NEW t \in Surfaces,
             CookiesExpire(b, s) \/ CarryCookie(b, s, t)
      PROVE  SessionsInv'
  BY <1>3, CookieInv
<1> QED BY <1>1, <1>2, <1>3, WorldInv DEF Next

\* The inductive invariant of the store's statements (sessions.ts) and the handlers
\* around them (routes.ts).
THEOREM SessionsInvariant == Spec => []SessionsInv
BY InitInv, NextInv, SessionsAssumption, PTL DEF Spec

\* Every variable keeps its type: in particular a handler never reads a ledger
\* entry, and a browser never holds a cookie, that was not issued.
THEOREM TypeCorrect == Spec => []TypeOK
<1>1. SessionsInv => TypeOK
  BY DEF SessionsInv
<1> QED BY <1>1, SessionsInvariant, PTL

\* For any number of tabs, browsers, surfaces and accounts, a refresh token is
\* exchanged for a new pair at most once.
THEOREM RefreshIsSingleUse == Spec => []SingleUse
<1>1. SessionsInv => SingleUse
  BY DEF SessionsInv
<1> QED BY <1>1, SessionsInvariant, PTL

\* The table holds each session once, by the newest pair of its lineage, for the
\* user and surface it was opened for: a spent token matches no row.
THEOREM TableHoldsHeads == Spec => []HeadOfLineage
<1>1. SessionsInv => HeadOfLineage
  BY DEF SessionsInv
<1> QED BY <1>1, SessionsInvariant, PTL

\* No cookie carried across makes one surface hand out another's session.
THEOREM SurfacesIsolated == Spec => []AnswerStaysOnSurface
<1>1. SessionsInv => AnswerStaysOnSurface
  BY DEF SessionsInv, RequestsSound, AnswerStaysOnSurface, SoundRequest, Carrying, Carries, Idle
<1> QED BY <1>1, SessionsInvariant, PTL

-----------------------------------------------------------------------------
(* Refinement of SessionLeases, and no revival *)

LEMMA StepShape ==
  ASSUME SessionsInv, [Next]_vars
  PROVE  \/ rows' \subseteq rows /\ ledger' = ledger
         \/ \E c \in Requests : Mint(c)
         \/ \E c \in Requests : RotateUpdate(c) /\ Consumed(c) # {}
<1>1. ASSUME NEW c \in Requests, Handler(c)
      PROVE  \/ rows' \subseteq rows /\ ledger' = ledger
             \/ Mint(c)
             \/ RotateUpdate(c) /\ Consumed(c) # {}
  BY <1>1 DEF Handler, LookupUser, VerifyPassword, Welcome, RotateSelect, RotateUpdate,
              RotateSweep, Revoke, RevokeFails, ServerError, Become, store, history
<1>2. ASSUME NEW c \in Requests, Deliver(c) \/ LoseAnswer(c)
      PROVE  rows' \subseteq rows /\ ledger' = ledger
  BY <1>2 DEF Deliver, LoseAnswer, store, history
<1>3. ASSUME NEW c \in Requests, NEW b \in Browsers, NEW s \in Surfaces, Person(c, b, s)
      PROVE  rows' \subseteq rows /\ ledger' = ledger
  BY <1>3 DEF Person, SendLogin, SendRefresh, SendLogout, Send, store, history
<1>4. ASSUME NEW b \in Browsers, NEW s \in Surfaces, NEW t \in Surfaces,
             CookiesExpire(b, s) \/ CarryCookie(b, s, t)
      PROVE  rows' \subseteq rows /\ ledger' = ledger
  BY <1>4 DEF CookiesExpire, CarryCookie, store, history
<1>5. ASSUME \/ \E u \in Users, v \in BOOLEAN : SetActive(u, v)
             \/ \E u \in Users, p \in Presentable : RevokeAllForUser(u, p)
             \/ Tick
             \/ UNCHANGED vars
      PROVE  rows' \subseteq rows /\ ledger' = ledger
  BY <1>5 DEF SetActive, RevokeAllForUser, Tick, vars, store, history
<1> QED BY <1>1, <1>2, <1>3, <1>4, <1>5 DEF Next

LEMMA LeasesStep ==
  ASSUME SessionsInv, [Next]_vars
  PROVE  [Leases!Next]_<<{LeaseOf(r) : r \in rows}, Len(ledger)>>
<1> DEFINE L == {LeaseOf(r) : r \in rows}
<1>1. CASE rows' \subseteq rows /\ ledger' = ledger
  <2> DEFINE D == L \ L'
  <2>1. L' \subseteq L
    BY <1>1
  <2>2. D \in SUBSET L /\ L' = L \ D
    BY <2>1
  <2>3. Leases!End(D)
    BY <1>1, <2>2 DEF Leases!End
  <2> QED BY <2>2, <2>3 DEF Leases!Next
<1>2. ASSUME NEW c \in Requests, Mint(c)
      PROVE  Leases!Next
  <2>1. req[c].user \in Users /\ req[c].surf \in Surfaces
    BY <1>2, BusyTyped DEF Mint, Steps, SessionsInv, Request
  <2>2. Len(ledger') = Len(ledger) + 1
    BY <1>2 DEF Mint, SessionsInv, TypeOK
  <2>3. L' = L \cup {[id |-> NewPair, user |-> req[c].user, origin |-> req[c].surf,
                      pair |-> NewPair]}
    <3> DEFINE new == [id |-> NewPair, user |-> req[c].user, origin |-> req[c].surf,
                       pair |-> NewPair, aexp |-> now + AccessTtl,
                       rexp |-> now + RefreshTtl]
    <3>1. rows' = rows \cup {new}
      BY <1>2 DEF Mint
    <3>2. LeaseOf(new) = [id |-> NewPair, user |-> req[c].user, origin |-> req[c].surf,
                          pair |-> NewPair]
      BY DEF LeaseOf
    <3> HIDE DEF new
    <3> QED BY <3>1, <3>2
  <2>4. Leases!Open(req[c].user, req[c].surf)
    BY <2>2, <2>3 DEF Leases!Open, NewPair
  <2> QED BY <2>1, <2>4 DEF Leases!Next
<1>3. ASSUME NEW c \in Requests, RotateUpdate(c), Consumed(c) # {}
      PROVE  Leases!Next
  <2>1. PICK m \in Consumed(c) : TRUE
    BY <1>3
  <2>2. /\ m \in rows /\ Consumed(c) = {m}
        /\ \A q \in rows : q.id = m.id => q = m
    BY <2>1, ConsumesOne
  <2> DEFINE new == Renewed(m, NewPair, req[c].at)
  <2>3. rows' = (rows \ {m}) \cup {new}
    BY <1>3, <2>2 DEF RotateUpdate
  <2>4. Len(ledger') = Len(ledger) + 1
    BY <1>3 DEF RotateUpdate, SessionsInv, TypeOK
  <2>5. m \in Row
    BY <2>2 DEF SessionsInv, TypeOK
  <2>6. LeaseOf(new) = [LeaseOf(m) EXCEPT !.pair = NewPair]
    BY <2>5 DEF LeaseOf, Renewed, Row
  <2>7. \A q \in rows : LeaseOf(q) = LeaseOf(m) => q = m
    BY <2>2 DEF LeaseOf
  <2>8. L' = (L \ {LeaseOf(m)}) \cup {LeaseOf(new)}
    <3> HIDE DEF new
    <3>1. L' = {LeaseOf(q) : q \in rows \ {m}} \cup {LeaseOf(new)}
      BY <2>3
    <3>2. {LeaseOf(q) : q \in rows \ {m}} = L \ {LeaseOf(m)}
      BY <2>7
    <3> QED BY <3>1, <3>2
  <2>9. LeaseOf(m) \in L
    BY <2>2
  <2>10. Leases!Renew(LeaseOf(m))
    BY <2>4, <2>6, <2>8 DEF Leases!Renew, NewPair
  <2> QED BY <2>9, <2>10 DEF Leases!Next
<1> QED BY <1>1, <1>2, <1>3, StepShape

\* Whatever the interleaving, the store implements SessionLeases.
THEOREM RefinesLeases == Spec => LeasesSpec
<1>1. Init => Leases!Init
  BY DEF Init, Leases!Init
<1>2. SessionsInv /\ [Next]_vars => [Leases!Next]_<<{LeaseOf(r) : r \in rows}, Len(ledger)>>
  BY LeasesStep
<1> QED BY <1>1, <1>2, SessionsInvariant, PTL DEF Spec, LeasesSpec, Leases!Spec

\* A session that was revoked or swept does not come back, however a rotation of it
\* was interleaved with the revocation.
THEOREM EndedStaysEnded == Spec => NoRevival
<1>1. SessionsInv /\ [Next]_vars
        => [Ids(rows') \subseteq Ids(rows) \cup {i \in {NewPair} : Len(ledger') = i
                                                  /\ ledger'[i].from = None}]_vars
  <2> SUFFICES ASSUME SessionsInv, [Next]_vars
               PROVE  Ids(rows') \subseteq Ids(rows) \cup {i \in {NewPair} : Len(ledger') = i
                                                  /\ ledger'[i].from = None}
    OBVIOUS
  <2>1. CASE rows' \subseteq rows
    BY <2>1 DEF Ids
  <2>2. ASSUME NEW c \in Requests, Mint(c)
        PROVE  Len(ledger') = NewPair /\ ledger'[NewPair].from = None
               /\ Ids(rows') \subseteq Ids(rows) \cup {NewPair}
    BY <2>2 DEF Mint, Ids, NewPair, SessionsInv, TypeOK
  <2>3. ASSUME NEW c \in Requests, RotateUpdate(c), Consumed(c) # {}
        PROVE  Ids(rows') \subseteq Ids(rows)
    <3>1. \A m \in Consumed(c) : m \in rows /\ m \in Row
      BY DEF Consumed, Live, SessionsInv, TypeOK
    <3>2. \A m \in Consumed(c) : Renewed(m, NewPair, req[c].at).id = m.id
      BY <3>1 DEF Renewed, Row
    <3> QED BY <2>3, <3>1, <3>2 DEF RotateUpdate, Ids
  <2> QED BY <2>1, <2>2, <2>3, StepShape
<1> QED BY <1>1, SessionsInvariant, PTL DEF Spec, NoRevival

-----------------------------------------------------------------------------
(* Lineage: nobody loses a session the table still has, a logout misses    *)
(* only what was rotated, dead pairs resolve nothing, suspension holds,    *)
(* and the sweep ends nothing that works.                                  *)
(*                                                                         *)
(* This rests on one fact the code never states: until its answer arrives, *)
(* nobody but the handler knows a new pair (CarriedIsFresh), so it cannot  *)
(* be rotated and is the head of its lineage (UnspentIsHead) when the jar  *)
(* takes it.                                                               *)

\* A pair whose session is in the table is that row's, or was rotated.
UnspentIsHead ==
  \A p \in Issued, r \in rows :
    ledger[p].id = r.id => p = r.pair \/ \E i \in Issued : ledger[i].from = p

\* All pairs of a session are of one surface.
LineageHasSurface ==
  \A p, q \in Issued : ledger[p].id = ledger[q].id => ledger[p].origin = ledger[q].origin

\* Access never outlives refresh.
RowsExpire == \A r \in rows : r.aexp <= r.rexp

SignedOutGone == \A p \in signedOut : p \in Issued /\ \A r \in rows : r.pair # p

\* Handlers that may still rotate the pair they were sent.
Presents(r) == r.pc \in {"select", "update"}

\* A pair on its way to a browser is in no jar, was never presented, and is on one
\* way only.
CarriedIsFresh ==
  \A c \in Requests : Carrying(c) =>
    /\ \A b \in Browsers, s \in Surfaces : jar[b][s] # req[c].got
    /\ \A i \in Issued : ledger[i].from # req[c].got
    /\ \A d \in Requests : Presents(req[d]) => req[d].pair # req[c].got
    /\ \A d \in Requests : Carrying(d) /\ req[d].got = req[c].got => d = c

\* What a handler has established by the step it is at.
Settled(r) ==
  /\ Presents(r) => ledger[r.pair].user = r.user
  /\ r.pc = "mint" => r.ok
  /\ r.pc = "welcome" => ledger[r.got].id = r.got
  /\ r.pc \in {"update", "sweep"} => r.at <= now
  /\ r.pc = "answer" /\ r.effect = "clear" =>
       /\ ledger[r.pair].id \in abandoned
       /\ \A q \in rows : q.pair # r.pair

RequestsSettled == \A c \in Requests : Settled(req[c])

LineageInv ==
  /\ UnspentIsHead
  /\ LineageHasSurface
  /\ RowsExpire
  /\ SignedOutGone
  /\ CarriedIsFresh
  /\ RequestsSettled
  /\ SessionHeld

-----------------------------------------------------------------------------
(* Facts the steps share *)

\* What SessionsInv and LineageInv say of a row and the pair it holds.
LEMMA RowFacts ==
  ASSUME SessionsInv, NEW r \in rows
  PROVE  /\ r \in Row
         /\ r.pair \in Issued /\ ledger[r.pair].id = r.id
         /\ ledger[r.pair].user = r.user /\ ledger[r.pair].origin = r.origin
         /\ \A i \in Issued : ledger[i].from # r.pair
BY DEF SessionsInv, TypeOK, HeadOfLineage

\* A row whose session is that of a pair on its way holds that pair.
LEMMA CarriedIsHead ==
  ASSUME SessionsInv, LineageInv, NEW c \in Requests, Carrying(c),
         NEW r \in rows, r.id = ledger[req[c].got].id
  PROVE  r.pair = req[c].got /\ r.origin = req[c].surf
<1>1. req[c] # Idle
  BY DEF Carrying, Carries, Idle
<1>2. req[c].got \in Issued /\ ledger[req[c].got].origin = req[c].surf
  BY <1>1 DEF SessionsInv, RequestsSound, SoundRequest, Carrying
<1>3. r.pair = req[c].got
  BY <1>2 DEF LineageInv, UnspentIsHead, CarriedIsFresh
<1> QED BY <1>2, <1>3, RowFacts

\* One request's part of a step that neither issues a pair nor writes a jar.
QuietChange(d) ==
  /\ Carrying(d)' => Carrying(d) /\ req'[d].got = req[d].got
  /\ Carrying(d) => Carrying(d)' \/ ledger[req[d].got].id \in abandoned'
  /\ Presents(req[d])' =>
       \/ Presents(req[d]) /\ req'[d].pair = req[d].pair
       \/ \E b \in Browsers, s \in Surfaces : jar[b][s] = req'[d].pair
  /\ Settled(req[d])'

\* What a request has settled stays settled.
LEMMA SettledStays ==
  ASSUME SessionsInv, SessionsInv', NEW d \in Requests, Settled(req[d]),
         req'[d] = req[d], now <= now', abandoned \subseteq abandoned',
         \A i \in Issued : ledger'[i] = ledger[i],
         \A r \in rows' : r \in rows \/ r.pair \notin Issued
  PROVE  Settled(req[d])'
<1>1. Presents(req[d]) => req[d].pair \in Issued
  BY DEF Presents, SessionsInv, RequestsSound, SoundRequest, Idle
<1>2. req[d].pc = "welcome" => req[d].got \in Issued
  BY DEF SessionsInv, RequestsSound, SoundRequest, Carries, Idle
<1>3. req[d].pc = "answer" /\ req[d].effect = "clear" => req[d].pair \in Issued
  BY DEF SessionsInv, RequestsSound, SoundRequest, Idle
<1>4. req[d].pc \in {"update", "sweep"} => req[d].at <= now'
  <2>1. req[d].pc \in {"update", "sweep"} => req[d] \in Request
    BY BusyTyped DEF Steps, SessionsInv
  <2>2. now \in Nat /\ now' \in Nat
    BY DEF SessionsInv, TypeOK
  <2>3. req[d].pc \in {"update", "sweep"} => req[d].at \in Nat
    BY <2>1 DEF Request
  <2> QED BY <2>2, <2>3 DEF Settled
<1> QED BY <1>1, <1>2, <1>3, <1>4 DEF Settled, Presents

LEMMA QuietKeeps ==
  ASSUME SessionsInv, SessionsInv', LineageInv,
         ledger' = ledger, rows' \subseteq rows, jar' = jar, signedOut' = signedOut,
         now <= now', abandoned \subseteq abandoned',
         \A d \in Requests : req'[d] = req[d] \/ QuietChange(d)
  PROVE  LineageInv'
<1>1. UnspentIsHead' /\ LineageHasSurface' /\ RowsExpire' /\ SignedOutGone'
  BY DEF LineageInv, UnspentIsHead, LineageHasSurface, RowsExpire, SignedOutGone, Issued
<1>2. \A d \in Requests : Carrying(d)' => Carrying(d) /\ req'[d].got = req[d].got
  BY DEF QuietChange, Carrying, Carries
<1>3. CarriedIsFresh'
  <2> SUFFICES ASSUME NEW c \in Requests, Carrying(c)'
               PROVE  /\ \A b \in Browsers, s \in Surfaces : jar'[b][s] # req'[c].got
                      /\ \A i \in Issued' : ledger'[i].from # req'[c].got
                      /\ \A d \in Requests : Presents(req[d])' => req'[d].pair # req'[c].got
                      /\ \A d \in Requests : Carrying(d)' /\ req'[d].got = req'[c].got => d = c
    BY DEF CarriedIsFresh
  <2>1. Carrying(c) /\ req'[c].got = req[c].got
    BY <1>2
  <2>2. ASSUME NEW d \in Requests, Presents(req[d])'
        PROVE  req'[d].pair # req'[c].got
    BY <2>1, <2>2 DEF QuietChange, LineageInv, CarriedIsFresh, Presents
  <2> QED BY <1>2, <2>1, <2>2 DEF LineageInv, CarriedIsFresh, Issued
<1>4. RequestsSettled'
  <2> SUFFICES ASSUME NEW d \in Requests PROVE Settled(req[d])'
    BY DEF RequestsSettled
  <2> QED BY SettledStays DEF QuietChange, LineageInv, RequestsSettled
<1>5. SessionHeld'
  <2> SUFFICES ASSUME NEW r \in rows'
               PROVE  \/ r.id \in abandoned'
                      \/ \E b \in Browsers : jar'[b][r.origin] = r.pair
                      \/ \E c \in Requests : Carrying(c)' /\ req'[c].got = r.pair
    BY DEF SessionHeld
  <2>1. CASE r.id \in abandoned \/ \E b \in Browsers : jar[b][r.origin] = r.pair
    BY <2>1
  <2>2. ASSUME NEW c \in Requests, Carrying(c), req[c].got = r.pair
        PROVE  r.id \in abandoned' \/ (Carrying(c)' /\ req'[c].got = r.pair)
    BY <1>2, <2>2, RowFacts DEF QuietChange, Carrying, Carries
  <2> QED BY <2>1, <2>2 DEF LineageInv, SessionHeld
<1> QED BY <1>1, <1>3, <1>4, <1>5 DEF LineageInv

-----------------------------------------------------------------------------
(* The steps that issue nothing and write no jar *)

LEMMA PersonHolds ==
  ASSUME SessionsInv, SessionsInv', LineageInv,
         NEW c \in Requests, NEW b \in Browsers, NEW s \in Surfaces, Person(c, b, s)
  PROVE  LineageInv'
<1>1. /\ req[c] = Idle /\ UNCHANGED <<now, store, jar, lost, history>>
      /\ \A d \in Requests : d # c => req'[d] = req[d]
  BY DEF Person, SendLogin, SendRefresh, SendLogout, Send, SessionsInv, TypeOK
<1>2. QuietChange(c)
  <2>1. ~Carrying(c)
    BY <1>1 DEF Carrying, Carries, Idle
  <2>2. ASSUME NEW u \in Users, SendLogin(c, b, s, u)
        PROVE  QuietChange(c)
    <3>1. req'[c].pc = "lookup"
      BY <2>2 DEF SendLogin, Send, SessionsInv, TypeOK
    <3> QED BY <2>1, <3>1 DEF QuietChange, Carrying, Carries, Presents, Settled
  <2>3. CASE SendRefresh(c, b, s)
    <3>1. /\ req'[c].pc = "select" /\ req'[c].pair = jar[b][s]
          /\ req'[c].user = ledger[jar[b][s]].user
      BY <2>3 DEF SendRefresh, Send, SessionsInv, TypeOK
    <3>2. Settled(req[c])'
      BY <1>1, <3>1 DEF Settled, Presents, history
    <3> QED BY <2>1, <3>1, <3>2 DEF QuietChange, Carrying, Carries, Presents
  <2>4. CASE SendLogout(c, b, s)
    <3>1. req'[c].pc = "revoke"
      BY <2>4 DEF SendLogout, Send, SessionsInv, TypeOK
    <3> QED BY <2>1, <3>1 DEF QuietChange, Carrying, Carries, Presents, Settled
  <2> QED BY <2>2, <2>3, <2>4 DEF Person
<1>3. now <= now'
  BY <1>1 DEF SessionsInv, TypeOK
<1> QED BY <1>1, <1>2, <1>3, QuietKeeps DEF store, history

\* A handler answers "keep" before it has drawn a pair.
LEMMA RefusalIsQuiet ==
  ASSUME SessionsInv, NEW c \in Requests, req[c] \in Request,
         req[c].pc \in {"lookup", "verify", "mint", "select", "update", "revoke"},
         req'[c] = Answered(req[c], "keep")
  PROVE  QuietChange(c)
<1>1. ~Carrying(c)
  BY DEF Carrying, Carries
<1>2. req'[c].pc = "answer" /\ req'[c].effect = "keep"
  BY DEF Answered, Request
<1> QED BY <1>1, <1>2 DEF QuietChange, Carrying, Carries, Presents, Settled

LEMMA QuietHolds ==
  ASSUME SessionsInv, SessionsInv', LineageInv, NEW c \in Requests,
         \/ LookupUser(c) \/ VerifyPassword(c) \/ RotateSelect(c)
         \/ RevokeFails(c) \/ ServerError(c)
         \/ RotateUpdate(c) /\ Consumed(c) = {}
  PROVE  LineageInv'
<1>1. req[c] \in Request
  BY BusyTyped DEF LookupUser, VerifyPassword, RotateSelect, RevokeFails, ServerError,
                   RotateUpdate, Steps, SessionsInv
<1>2. /\ UNCHANGED <<now, store, jar, sent, lost, history>>
      /\ \A d \in Requests : d # c => req'[d] = req[d]
  BY DEF LookupUser, VerifyPassword, RotateSelect, RevokeFails, ServerError, RotateUpdate,
         Become, SessionsInv, TypeOK
<1>3. now <= now'
  BY <1>2 DEF SessionsInv, TypeOK
<1>4. QuietChange(c)
  <2>1. CASE req'[c] = Answered(req[c], "keep")
    BY <1>1, <2>1, RefusalIsQuiet DEF LookupUser, VerifyPassword, RotateSelect,
       RevokeFails, ServerError, RotateUpdate
  <2>2. CASE LookupUser(c)
    <3>1. req[c].pc = "lookup" /\ req'[c].pc = "verify"
      BY <1>1, <2>2 DEF LookupUser, Become, SessionsInv, TypeOK, Request
    <3> QED BY <3>1 DEF QuietChange, Carrying, Carries, Presents, Settled
  <2>3. CASE VerifyPassword(c) /\ req'[c] # Answered(req[c], "keep")
    <3>1. req[c].pc = "verify" /\ req'[c].pc = "mint" /\ req'[c].ok
      BY <1>1, <2>3 DEF VerifyPassword, Become, SessionsInv, TypeOK, Request
    <3> QED BY <3>1 DEF QuietChange, Carrying, Carries, Presents, Settled
  <2>4. CASE RotateSelect(c) /\ req'[c] # Answered(req[c], "keep")
    <3>1. /\ req[c].pc = "select" /\ req'[c].pc = "update" /\ req'[c].at = now
          /\ req'[c].pair = req[c].pair /\ req'[c].user = req[c].user
      <4>1. Become(c, [req[c] EXCEPT !.pc = "update", !.at = now])
        BY <2>4 DEF RotateSelect, Refused, Become, SessionsInv, TypeOK
      <4>2. req'[c] = [req[c] EXCEPT !.pc = "update", !.at = now]
        BY <4>1 DEF Become, SessionsInv, TypeOK
      <4> QED BY <1>1, <2>4, <4>2 DEF RotateSelect, Request
    <3>2. Settled(req[c])'
      BY <1>2, <1>3, <3>1 DEF Settled, Presents, LineageInv, RequestsSettled, history
    <3> QED BY <3>1, <3>2 DEF QuietChange, Carrying, Carries, Presents
  <2>5. RevokeFails(c) \/ ServerError(c) \/ (RotateUpdate(c) /\ Consumed(c) = {})
          => req'[c] = Answered(req[c], "keep")
    BY DEF RevokeFails, ServerError, RotateUpdate, Refused, Become, SessionsInv, TypeOK
  <2> QED BY <2>1, <2>2, <2>3, <2>4, <2>5
<1> QED BY <1>2, <1>3, <1>4, QuietKeeps DEF store, history

LEMMA WelcomeHolds ==
  ASSUME SessionsInv, SessionsInv', LineageInv, NEW c \in Requests, Welcome(c)
  PROVE  LineageInv'
<1>1. req[c] \in Request /\ req[c].pc = "welcome" /\ ledger[req[c].got].id = req[c].got
  BY BusyTyped DEF Welcome, Steps, SessionsInv, LineageInv, RequestsSettled, Settled
<1>2. /\ UNCHANGED <<now, store, jar, sent, lost, ledger, signedOut>>
      /\ abandoned \subseteq abandoned'
      /\ \A d \in Requests : d # c => req'[d] = req[d]
  BY DEF Welcome, Become, SessionsInv, TypeOK, history
<1>3. now <= now'
  BY <1>2 DEF SessionsInv, TypeOK
<1>4. QuietChange(c)
  <2>1. \/ req'[c] = Answered(req[c], "set")
        \/ req'[c] = Answered(req[c], "keep") /\ req[c].got \in abandoned'
    BY DEF Welcome, Become, SessionsInv, TypeOK
  <2>2. /\ req'[c].pc = "answer" /\ req'[c].got = req[c].got
        /\ req'[c].effect = "set" \/ (req'[c].effect = "keep" /\ req[c].got \in abandoned')
    BY <1>1, <2>1 DEF Answered, Request
  <2> QED BY <1>1, <2>2 DEF QuietChange, Carrying, Carries, Presents, Settled
<1> QED BY <1>2, <1>3, <1>4, QuietKeeps DEF store

LEMMA RotateSweepHolds ==
  ASSUME SessionsInv, SessionsInv', LineageInv, NEW c \in Requests, RotateSweep(c)
  PROVE  LineageInv'
<1>1. req[c] \in Request /\ req[c].pc = "sweep"
  BY BusyTyped DEF RotateSweep, Steps, SessionsInv
<1>2. /\ UNCHANGED <<now, jar, sent, lost, history>> /\ rows' \subseteq rows
      /\ \A d \in Requests : d # c => req'[d] = req[d]
  BY DEF RotateSweep, SessionsInv, TypeOK
<1>3. now <= now'
  BY <1>2 DEF SessionsInv, TypeOK
<1>4. QuietChange(c)
  <2>1. req'[c].pc = "answer" /\ req'[c].effect = "set" /\ req'[c].got = req[c].got
    BY <1>1 DEF RotateSweep, Answered, Request, SessionsInv, TypeOK
  <2> QED BY <1>1, <2>1 DEF QuietChange, Carrying, Carries, Presents, Settled
<1> QED BY <1>2, <1>3, <1>4, QuietKeeps DEF history

LEMMA RevokeHolds ==
  ASSUME SessionsInv, SessionsInv', LineageInv, NEW c \in Requests, Revoke(c)
  PROVE  LineageInv'
<1>1. req[c] \in Request /\ req[c].pc = "revoke"
  BY BusyTyped DEF Revoke, Steps, SessionsInv
<1>2. /\ UNCHANGED <<now, jar, sent, lost, ledger, signedOut>>
      /\ rows' = {r \in rows : r.pair # req[c].pair}
      /\ abandoned' = abandoned \cup {ledger[req[c].pair].id}
      /\ \A d \in Requests : d # c => req'[d] = req[d]
  BY DEF Revoke, SessionsInv, TypeOK, IdOf
<1>3. now <= now'
  BY <1>2 DEF SessionsInv, TypeOK
<1>4. QuietChange(c)
  <2>1. req'[c].pc = "answer" /\ req'[c].effect = "clear" /\ req'[c].pair = req[c].pair
    BY <1>1 DEF Revoke, Answered, Request, SessionsInv, TypeOK
  <2> QED BY <1>1, <1>2, <2>1 DEF QuietChange, Carrying, Carries, Presents, Settled
<1> QED BY <1>2, <1>3, <1>4, QuietKeeps

LEMMA LoseAnswerHolds ==
  ASSUME SessionsInv, SessionsInv', LineageInv, NEW c \in Requests, LoseAnswer(c)
  PROVE  LineageInv'
<1>1. /\ UNCHANGED <<now, store, jar, sent, ledger, signedOut>>
      /\ req[c].pc = "answer" /\ req'[c] = Idle
      /\ abandoned \subseteq abandoned'
      /\ req[c].effect = "set" => ledger[req[c].got].id \in abandoned'
      /\ \A d \in Requests : d # c => req'[d] = req[d]
  BY DEF LoseAnswer, SessionsInv, TypeOK, IdOf
<1>2. now <= now'
  BY <1>1 DEF SessionsInv, TypeOK
<1>3. QuietChange(c)
  BY <1>1 DEF QuietChange, Carrying, Carries, Presents, Settled, Idle
<1> QED BY <1>1, <1>2, <1>3, QuietKeeps DEF store

LEMMA WorldHolds ==
  ASSUME SessionsInv, SessionsInv', LineageInv,
         \/ \E u \in Users, v \in BOOLEAN : SetActive(u, v)
         \/ \E u \in Users, p \in Presentable : RevokeAllForUser(u, p)
         \/ Tick
         \/ UNCHANGED vars
  PROVE  LineageInv'
<1>1. UNCHANGED <<jar, req, history>> /\ rows' \subseteq rows
  BY DEF SetActive, RevokeAllForUser, Tick, vars, store, history
<1>2. now <= now'
  BY DEF SetActive, RevokeAllForUser, Tick, vars, SessionsInv, TypeOK
<1> QED BY <1>1, <1>2, QuietKeeps DEF history

-----------------------------------------------------------------------------
(* The steps that write a jar *)

\* Jar b gets pair p for surface s on behalf of session i: p is not on its way to
\* anybody else, and whoever was using the cookie of session i still has it.
JarChange(b, s, p, i) ==
  /\ jar' = [jar EXCEPT ![b][s] = p]
  /\ abandoned' = abandoned \cup Dropped(b, s, i)
  /\ now' = now /\ rows' = rows /\ ledger' = ledger
  /\ \A r \in rows : r.pair = jar[b][s] /\ r.origin = s /\ r.id = i
                       => r.id \in abandoned \/ p = r.pair
  /\ \A d \in Requests : req'[d] = req[d] \/ req'[d] = Idle
  /\ \A d \in Requests : Carrying(d)' => req[d].got # p
  /\ \A d \in Requests : Carrying(d) /\ ~Carrying(d)' => p = req[d].got /\ s = req[d].surf
  /\ \A q \in signedOut' : q \in signedOut \/ (q \in Issued /\ \A r \in rows : r.pair # q)

LEMMA JarKeeps ==
  ASSUME SessionsInv, SessionsInv', LineageInv,
         NEW b \in Browsers, NEW s \in Surfaces, NEW p, NEW i, JarChange(b, s, p, i)
  PROVE  LineageInv'
<1> USE DEF JarChange
<1>1. UnspentIsHead' /\ LineageHasSurface' /\ RowsExpire' /\ SignedOutGone'
  BY DEF LineageInv, UnspentIsHead, LineageHasSurface, RowsExpire, SignedOutGone, Issued
<1>2. \A d \in Requests : Carrying(d)' => Carrying(d) /\ req'[d] = req[d]
  BY DEF Carrying, Carries, Idle
<1>3. /\ jar'[b][s] = p
      /\ \A a \in Browsers, t \in Surfaces : a # b \/ t # s => jar'[a][t] = jar[a][t]
  BY DEF SessionsInv, TypeOK
<1>4. CarriedIsFresh'
  <2> SUFFICES ASSUME NEW c \in Requests, Carrying(c)'
               PROVE  /\ \A a \in Browsers, t \in Surfaces : jar'[a][t] # req'[c].got
                      /\ \A j \in Issued' : ledger'[j].from # req'[c].got
                      /\ \A d \in Requests : Presents(req[d])' => req'[d].pair # req'[c].got
                      /\ \A d \in Requests : Carrying(d)' /\ req'[d].got = req'[c].got => d = c
    BY DEF CarriedIsFresh
  <2>1. Carrying(c) /\ req'[c].got = req[c].got /\ req[c].got # p
    BY <1>2
  <2>2. \A d \in Requests : Presents(req[d])' => Presents(req[d]) /\ req'[d] = req[d]
    BY DEF Presents, Idle
  <2> QED BY <1>2, <1>3, <2>1, <2>2 DEF LineageInv, CarriedIsFresh, Issued
<1>5. RequestsSettled'
  <2> SUFFICES ASSUME NEW d \in Requests PROVE Settled(req[d])'
    BY DEF RequestsSettled
  <2>1. CASE req'[d] = req[d]
    <3>1. now <= now'
      BY DEF SessionsInv, TypeOK
    <3> QED BY <2>1, <3>1, SettledStays DEF LineageInv, RequestsSettled
  <2>2. CASE req'[d] = Idle
    BY <2>2 DEF Settled, Presents, Idle
  <2> QED BY <2>1, <2>2
<1>6. SessionHeld'
  <2> SUFFICES ASSUME NEW r \in rows
               PROVE  \/ r.id \in abandoned'
                      \/ \E a \in Browsers : jar'[a][r.origin] = r.pair
                      \/ \E c \in Requests : Carrying(c)' /\ req'[c].got = r.pair
    BY DEF SessionHeld
  <2>1. r.origin \in Surfaces /\ r.pair # None /\ ledger[r.pair].id = r.id
    BY RowFacts DEF Row, Issued, None
  <2>2. ASSUME NEW a \in Browsers, jar[a][r.origin] = r.pair
        PROVE  r.id \in abandoned' \/ \E e \in Browsers : jar'[e][r.origin] = r.pair
    <3>1. CASE a # b \/ r.origin # s
      BY <1>3, <2>1, <2>2, <3>1
    <3>2. CASE a = b /\ r.origin = s /\ r.id = i
      BY <1>3, <2>2, <3>2
    <3>3. CASE a = b /\ r.origin = s /\ r.id # i
      BY <2>1, <2>2, <3>3 DEF Dropped, IdOf
    <3> QED BY <3>1, <3>2, <3>3
  <2>3. ASSUME NEW c \in Requests, Carrying(c), req[c].got = r.pair
        PROVE  \/ \E e \in Browsers : jar'[e][r.origin] = r.pair
               \/ Carrying(c)' /\ req'[c].got = r.pair
    <3>1. r.origin = req[c].surf
      BY <2>1, <2>3, CarriedIsHead
    <3> QED BY <1>2, <1>3, <2>3, <3>1
  <2> QED BY <2>2, <2>3 DEF LineageInv, SessionHeld
<1> QED BY <1>1, <1>4, <1>5, <1>6 DEF LineageInv

LEMMA DeliverHolds ==
  ASSUME SessionsInv, SessionsInv', LineageInv, NEW c \in Requests, Deliver(c)
  PROVE  LineageInv'
<1>1. req[c].pc = "answer" /\ req[c] \in Request /\ SoundRequest(req[c])
  BY BusyTyped DEF Deliver, Steps, SessionsInv, RequestsSound
<1>2. req[c].br \in Browsers /\ req[c].surf \in Surfaces
  BY <1>1 DEF Request
<1>3. /\ req'[c] = Idle /\ UNCHANGED <<now, store, sent, lost, ledger>>
      /\ \A d \in Requests : d # c => req'[d] = req[d]
  BY DEF Deliver, SessionsInv, TypeOK
<1>4. ~Carrying(c)'
  BY <1>3 DEF Carrying, Carries, Idle
<1>5. CASE req[c].effect = "keep" /\ UNCHANGED <<jar, signedOut, abandoned>>
  <2>1. QuietChange(c)
    BY <1>1, <1>3, <1>5 DEF QuietChange, Carrying, Carries, Presents, Settled, Idle
  <2>2. now <= now'
    BY <1>3 DEF SessionsInv, TypeOK
  <2> QED BY <1>3, <1>5, <2>1, <2>2, QuietKeeps DEF store
<1>6. CASE /\ req[c].effect = "set"
           /\ jar' = [jar EXCEPT ![req[c].br][req[c].surf] = req[c].got]
           /\ abandoned' = abandoned \cup Dropped(req[c].br, req[c].surf, IdOf(req[c].got))
           /\ UNCHANGED signedOut
  <2>1. Carrying(c)
    BY <1>1, <1>6 DEF Carrying, Carries
  <2>2. \A r \in rows : r.id = IdOf(req[c].got) => req[c].got = r.pair
    BY <2>1, CarriedIsHead DEF IdOf
  <2>3. \A d \in Requests : Carrying(d)' => req[d].got # req[c].got
    <3>1. \A d \in Requests : Carrying(d)' => d # c /\ Carrying(d)
      BY <1>3, <1>4 DEF Carrying
    <3> QED BY <2>1, <3>1 DEF LineageInv, CarriedIsFresh
  <2>4. \A d \in Requests : Carrying(d) /\ ~Carrying(d)' => d = c
    BY <1>3 DEF Carrying
  <2>5. JarChange(req[c].br, req[c].surf, req[c].got, IdOf(req[c].got))
    BY <1>3, <1>6, <2>2, <2>3, <2>4 DEF JarChange, store
  <2> QED BY <1>2, <2>5, JarKeeps
<1>7. CASE /\ req[c].effect = "clear"
           /\ jar' = [jar EXCEPT ![req[c].br][req[c].surf] = None]
           /\ abandoned' = abandoned \cup Dropped(req[c].br, req[c].surf, IdOf(req[c].pair))
           /\ signedOut' = signedOut \cup {req[c].pair}
  <2>1. ~Carrying(c)
    BY <1>1, <1>7 DEF Carrying, Carries
  <2>2. \A d \in Requests : Carrying(d)' <=> Carrying(d)
    BY <1>3, <1>4, <2>1 DEF Carrying
  <2>3. \A d \in Requests : Carrying(d) => req[d].got # None
    BY DEF Carrying, Carries, Idle, SessionsInv, RequestsSound, SoundRequest, Issued, None
  <2>4. /\ req[c].pair \in Issued /\ IdOf(req[c].pair) \in abandoned
        /\ \A r \in rows : r.pair # req[c].pair
    BY <1>1, <1>7 DEF SoundRequest, LineageInv, RequestsSettled, Settled, IdOf
  <2>5. \A d \in Requests : req'[d] = req[d] \/ req'[d] = Idle
    BY <1>3
  <2>6. JarChange(req[c].br, req[c].surf, None, IdOf(req[c].pair))
    BY <1>3, <1>7, <2>2, <2>3, <2>4, <2>5 DEF JarChange, store
  <2> QED BY <1>2, <2>6, JarKeeps
<1> QED BY <1>5, <1>6, <1>7 DEF Deliver

LEMMA CookieHolds ==
  ASSUME SessionsInv, SessionsInv', LineageInv,
         NEW b \in Browsers, NEW s \in Surfaces, NEW t \in Surfaces,
         CookiesExpire(b, s) \/ CarryCookie(b, s, t)
  PROVE  LineageInv'
<1>1. \A d \in Requests : Carrying(d) => req[d].got # None
  BY DEF Carrying, Carries, Idle, SessionsInv, RequestsSound, SoundRequest, Issued, None
<1>2. UNCHANGED <<now, rows, req, ledger, signedOut>>
  BY DEF CookiesExpire, CarryCookie, store
<1>3. \A d \in Requests : Carrying(d)' <=> Carrying(d)
  BY <1>2 DEF Carrying
<1>4. CASE CookiesExpire(b, s)
  <2>1. \A r \in rows : r.id # None
    <3>1. ASSUME NEW r \in rows
          PROVE  r.id # None
      BY RowFacts DEF SessionsInv, LedgerBackwards, None
    <3> QED BY <3>1
  <2>2. JarChange(b, s, None, None)
    BY <1>1, <1>2, <1>3, <1>4, <2>1 DEF CookiesExpire, JarChange
  <2> QED BY <2>2, JarKeeps
<1>5. CASE CarryCookie(b, s, t)
  <2>1. jar[b][s] \in Issued /\ ledger[jar[b][s]].origin = s /\ s # t
    BY <1>5 DEF CarryCookie, SessionsInv, JarIssued
  <2>2. \A r \in rows : r.origin = t => r.id # IdOf(jar[b][s])
    <3>1. ASSUME NEW r \in rows, r.origin = t
          PROVE  r.id # IdOf(jar[b][s])
      <4>1. r.pair \in Issued /\ ledger[r.pair].id = r.id /\ ledger[r.pair].origin = t
        BY <3>1, RowFacts
      <4> QED BY <2>1, <4>1 DEF LineageInv, LineageHasSurface, IdOf
    <3> QED BY <3>1
  <2>3. \A d \in Requests : Carrying(d) => req[d].got # jar[b][s]
    BY DEF LineageInv, CarriedIsFresh
  <2>4. JarChange(b, t, jar[b][s], IdOf(jar[b][s]))
    BY <1>2, <1>3, <1>5, <2>2, <2>3 DEF CarryCookie, JarChange
  <2> QED BY <2>4, JarKeeps
<1> QED BY <1>4, <1>5

-----------------------------------------------------------------------------
(* The two statements that issue a pair *)

\* What both do to everybody else: the new pair is known to its request alone, the
\* pair it replaces was not on its way to a jar, and the only new row holds it.
LEMMA IssueKeeps ==
  ASSUME SessionsInv, SessionsInv', LineageInv, NEW c \in Requests, NEW e \in Issue,
         ledger' = Append(ledger, e),
         \A d \in Requests : Carrying(d) => e.from # req[d].got,
         ~Carrying(c), Carrying(c)', req'[c].got = NewPair,
         ~Presents(req[c])', Settled(req[c])',
         \A d \in Requests : d # c => req'[d] = req[d],
         UNCHANGED <<now, jar, signedOut, abandoned>>,
         \A r \in rows' : r \in rows \/ r.pair = NewPair
  PROVE  SignedOutGone' /\ CarriedIsFresh' /\ RequestsSettled' /\ SessionHeld'
<1>1. /\ \A i \in Issued : i \in Issued' /\ ledger'[i] = ledger[i]
      /\ NewPair \notin Issued /\ NewPair # None
      /\ ledger'[NewPair] = e
      /\ \A i \in Issued' : i \in Issued \/ i = NewPair
  BY LedgerGrows DEF SessionsInv, TypeOK
<1>2. SignedOutGone'
  BY <1>1 DEF LineageInv, SignedOutGone
<1>3. \A d \in Requests : Carrying(d)' => d = c \/ (d # c /\ Carrying(d) /\ req'[d] = req[d])
  BY DEF Carrying
<1>4. \A d \in Requests : Carrying(d) => req[d].got \in Issued
  BY DEF Carrying, Carries, Idle, SessionsInv, RequestsSound, SoundRequest
<1>5. CarriedIsFresh'
  <2> SUFFICES ASSUME NEW a \in Requests, Carrying(a)'
               PROVE  /\ \A b \in Browsers, s \in Surfaces : jar'[b][s] # req'[a].got
                      /\ \A i \in Issued' : ledger'[i].from # req'[a].got
                      /\ \A d \in Requests : Presents(req[d])' => req'[d].pair # req'[a].got
                      /\ \A d \in Requests : Carrying(d)' /\ req'[d].got = req'[a].got => d = a
    BY DEF CarriedIsFresh
  <2>1. \A d \in Requests : Presents(req[d])' => /\ Presents(req[d]) /\ req'[d] = req[d]
                                                /\ req[d].pair \in Issued
    BY DEF Presents, Idle, SessionsInv, RequestsSound, SoundRequest
  <2>2. CASE a = c
    <3>1. \A b \in Browsers, s \in Surfaces : jar'[b][s] # NewPair
      BY <1>1 DEF SessionsInv, JarIssued
    <3>2. \A i \in Issued' : ledger'[i].from # NewPair
      BY <1>1 DEF SessionsInv, TypeOK, LedgerBackwards, Issued, NewPair, Issue, Pair
    <3> QED BY <1>1, <1>3, <1>4, <2>1, <2>2, <3>1, <3>2
  <2>3. CASE a # c
    <3>1. Carrying(a) /\ req'[a] = req[a]
      BY <1>3, <2>3
    <3>2. \A i \in Issued' : ledger'[i].from # req[a].got
      <4>1. req[a].got \in Issued /\ \A i \in Issued : ledger[i].from # req[a].got
        BY <1>4, <3>1 DEF LineageInv, CarriedIsFresh
      <4>2. ledger'[NewPair].from # req[a].got
        BY <1>1, <3>1
      <4> QED BY <1>1, <4>1, <4>2
    <3>3. \A d \in Requests : Carrying(d)' /\ req'[d].got = req[a].got => d = a
      BY <1>1, <1>3, <1>4, <3>1 DEF LineageInv, CarriedIsFresh
    <3>4. \A b \in Browsers, s \in Surfaces : jar'[b][s] # req'[a].got
      BY <1>3, <3>1 DEF LineageInv, CarriedIsFresh
    <3>5. \A d \in Requests : Presents(req[d])' => req'[d].pair # req'[a].got
      BY <2>1, <3>1 DEF LineageInv, CarriedIsFresh
    <3> QED BY <3>1, <3>2, <3>3, <3>4, <3>5
  <2> QED BY <2>2, <2>3
<1>6. RequestsSettled'
  <2> SUFFICES ASSUME NEW d \in Requests, d # c PROVE Settled(req[d])'
    BY DEF RequestsSettled
  <2>1. now <= now'
    BY DEF SessionsInv, TypeOK
  <2>2. \A r \in rows' : r \in rows \/ r.pair \notin Issued
    BY <1>1
  <2> QED BY <1>1, <2>1, <2>2, SettledStays DEF LineageInv, RequestsSettled
<1>7. SessionHeld'
  <2> SUFFICES ASSUME NEW r \in rows'
               PROVE  \/ r.id \in abandoned'
                      \/ \E b \in Browsers : jar'[b][r.origin] = r.pair
                      \/ \E a \in Requests : Carrying(a)' /\ req'[a].got = r.pair
    BY DEF SessionHeld
  <2>1. CASE r.pair = NewPair
    BY <2>1
  <2>2. CASE r \in rows
    <3>1. \A a \in Requests : Carrying(a) => Carrying(a)' /\ req'[a] = req[a]
      BY DEF Carrying
    <3> QED BY <2>2, <3>1 DEF LineageInv, SessionHeld
  <2> QED BY <2>1, <2>2
<1> QED BY <1>2, <1>5, <1>6, <1>7

LEMMA MintHolds ==
  ASSUME SessionsAssumption, SessionsInv, SessionsInv', LineageInv,
         NEW c \in Requests, Mint(c)
  PROVE  LineageInv'
<1> DEFINE e == [from |-> None, id |-> NewPair, user |-> req[c].user, origin |-> req[c].surf]
           new == [id |-> NewPair, user |-> req[c].user, origin |-> req[c].surf,
                   pair |-> NewPair, aexp |-> now + AccessTtl, rexp |-> now + RefreshTtl]
<1>1. req[c] \in Request /\ req[c].pc = "mint"
  BY BusyTyped DEF Mint, Steps, SessionsInv
<1>2. /\ rows' = rows \cup {new} /\ ledger' = Append(ledger, e)
      /\ UNCHANGED <<now, jar, signedOut, abandoned>>
      /\ \A d \in Requests : d # c => req'[d] = req[d]
      /\ req'[c].pc = "welcome" /\ req'[c].got = NewPair
  BY <1>1 DEF Mint, SessionsInv, TypeOK, Request
<1>3. e \in Issue
  BY <1>1 DEF Issue, Request, Pair, None, NewPair, SessionsInv, TypeOK
<1>4. /\ \A i \in Issued : i \in Issued' /\ ledger'[i] = ledger[i]
      /\ NewPair \in Issued' /\ NewPair \notin Issued /\ NewPair # None
      /\ ledger'[NewPair] = e
      /\ \A i \in Issued' : i \in Issued \/ i = NewPair
  BY <1>2, <1>3, LedgerGrows DEF SessionsInv, TypeOK
<1>41. /\ e.from = None /\ e.id = NewPair /\ e.origin = req[c].surf
      /\ new.id = NewPair /\ new.pair = NewPair
      /\ new.aexp = now + AccessTtl /\ new.rexp = now + RefreshTtl
  OBVIOUS
<1> HIDE DEF e, new
<1>5. SignedOutGone' /\ CarriedIsFresh' /\ RequestsSettled' /\ SessionHeld'
  <2>1. \A d \in Requests : Carrying(d) => e.from # req[d].got
    BY <1>41 DEF Carrying, Carries, Idle, SessionsInv, RequestsSound, SoundRequest, Issued, None
  <2>2. ~Carrying(c) /\ Carrying(c)' /\ ~Presents(req[c])'
    BY <1>1, <1>2 DEF Carrying, Carries, Presents
  <2>3. Settled(req[c])'
    BY <1>2, <1>4, <1>41 DEF Settled, Presents
  <2>4. \A r \in rows' : r \in rows \/ r.pair = NewPair
    BY <1>2, <1>41
  <2> QED BY <1>2, <1>3, <2>1, <2>2, <2>3, <2>4, IssueKeeps
\* No older pair is of the new session.
<1>6. \A i \in Issued : ledger[i].id # NewPair
  <2>1. Len(ledger) \in Nat /\ \A i \in Issued : i \in Nat /\ i <= Len(ledger)
    BY DEF SessionsInv, TypeOK, Issued
  <2>2. \A i \in Issued : ledger[i].id \in 1 .. i
    BY DEF SessionsInv, LedgerBackwards
  <2> QED BY <2>1, <2>2 DEF NewPair
<1>7. \A r \in rows : r.id # NewPair
  <2>1. ASSUME NEW r \in rows PROVE r.id # NewPair
    BY <1>6, RowFacts
  <2> QED BY <2>1
<1>8. UnspentIsHead'
  <2> SUFFICES ASSUME NEW q \in Issued', NEW r \in rows', ledger'[q].id = r.id
               PROVE  q = r.pair \/ \E i \in Issued' : ledger'[i].from = q
    BY DEF UnspentIsHead
  <2>1. CASE r \in rows
    <3>1. q \in Issued /\ ledger[q].id = r.id
      BY <1>4, <1>7, <1>41, <2>1
    <3> QED BY <1>4, <2>1, <3>1 DEF LineageInv, UnspentIsHead
  <2>2. CASE r = new
    BY <1>4, <1>6, <1>41, <2>2
  <2> QED BY <1>2, <2>1, <2>2
<1>9. LineageHasSurface'
  BY <1>4, <1>6, <1>41 DEF LineageInv, LineageHasSurface
<1>10. RowsExpire'
  <2>1. new.aexp <= new.rexp
    BY <1>41 DEF SessionsAssumption, SessionsInv, TypeOK
  <2> QED BY <1>2, <2>1 DEF LineageInv, RowsExpire
<1> QED BY <1>5, <1>8, <1>9, <1>10 DEF LineageInv

LEMMA RotateUpdateHolds ==
  ASSUME SessionsAssumption, SessionsInv, SessionsInv', LineageInv,
         NEW c \in Requests, RotateUpdate(c), Consumed(c) # {}
  PROVE  LineageInv'
<1>1. req[c] \in Request /\ req[c].pc = "update" /\ Settled(req[c])
  BY BusyTyped DEF RotateUpdate, Steps, SessionsInv, LineageInv, RequestsSettled
<1>2. PICK m \in Consumed(c) : TRUE
  OBVIOUS
<1> DEFINE p == req[c].pair
           new == Renewed(m, NewPair, req[c].at)
           e == [from |-> p, id |-> IdOf(p), user |-> ledger[p].user,
                 origin |-> ledger[p].origin]
<1>3. /\ m \in rows /\ Consumed(c) = {m} /\ p \in Issued /\ m.pair = p
      /\ e.id = m.id /\ e.origin = m.origin
      /\ \A q \in rows : q.pair = p \/ q.id = m.id => q = m
  BY <1>2, ConsumesOne DEF IdOf
<1>4. /\ rows' = (rows \ {m}) \cup {new} /\ ledger' = Append(ledger, e)
      /\ UNCHANGED <<now, jar, signedOut, abandoned>>
      /\ req' = [req EXCEPT ![c].pc = "sweep", ![c].got = NewPair]
  BY <1>3 DEF RotateUpdate
<1>5. /\ \A d \in Requests : d # c => req'[d] = req[d]
      /\ req'[c].pc = "sweep" /\ req'[c].got = NewPair /\ req'[c].at = req[c].at
  BY <1>1, <1>4 DEF SessionsInv, TypeOK, Request
<1>6. m \in Row /\ req[c].at \in Nat
  BY <1>1, <1>3 DEF SessionsInv, TypeOK, Request
<1>7. /\ new.pair = NewPair /\ new.id = m.id
      /\ new.aexp = req[c].at + AccessTtl /\ new.rexp = req[c].at + RefreshTtl
  BY <1>6 DEF Renewed, Row
<1>8. e \in Issue
  BY <1>3, LedgerTyped DEF Issue, IdOf, SessionsInv, Issued, Pair
<1>9. /\ \A i \in Issued : i \in Issued' /\ ledger'[i] = ledger[i]
      /\ NewPair \in Issued' /\ NewPair \notin Issued /\ NewPair # None
      /\ ledger'[NewPair] = e
      /\ \A i \in Issued' : i \in Issued \/ i = NewPair
  BY <1>4, <1>8, LedgerGrows DEF SessionsInv, TypeOK
<1>10. e.from = p
  OBVIOUS
<1>11. Presents(req[c])
  BY <1>1 DEF Presents
<1> HIDE DEF e, new
<1>12. SignedOutGone' /\ CarriedIsFresh' /\ RequestsSettled' /\ SessionHeld'
  <2>1. \A d \in Requests : Carrying(d) => e.from # req[d].got
    BY <1>10, <1>11 DEF LineageInv, CarriedIsFresh
  <2>2. ~Carrying(c) /\ Carrying(c)' /\ ~Presents(req[c])'
    BY <1>1, <1>5 DEF Carrying, Carries, Presents
  <2>3. Settled(req[c])'
    BY <1>1, <1>4, <1>5 DEF Settled, Presents
  <2>4. \A r \in rows' : r \in rows \/ r.pair = NewPair
    BY <1>4, <1>7
  <2> QED BY <1>4, <1>5, <1>8, <2>1, <2>2, <2>3, <2>4, IssueKeeps
<1>13. UnspentIsHead'
  <2> SUFFICES ASSUME NEW q \in Issued', NEW r \in rows', ledger'[q].id = r.id
               PROVE  q = r.pair \/ \E i \in Issued' : ledger'[i].from = q
    BY DEF UnspentIsHead
  <2>1. CASE r # new
    <3>1. r \in rows /\ r.id # m.id
      BY <1>3, <1>4, <2>1
    <3>2. q \in Issued
      BY <1>3, <1>9, <3>1
    <3> QED BY <1>9, <3>1, <3>2 DEF LineageInv, UnspentIsHead
  <2>2. CASE r = new /\ q \in Issued
    <3>1. ledger[q].id = m.id
      BY <1>7, <1>9, <2>2
    <3>2. q = m.pair \/ \E i \in Issued : ledger[i].from = q
      BY <1>3, <2>2, <3>1 DEF LineageInv, UnspentIsHead
    <3> QED BY <1>3, <1>9, <1>10, <2>2, <3>2
  <2> QED BY <1>7, <1>9, <2>1, <2>2
<1>14. LineageHasSurface'
  <2>1. e.id = ledger[p].id /\ e.origin = ledger[p].origin
    BY DEF e, IdOf
  <2> QED BY <1>3, <1>9, <2>1 DEF LineageInv, LineageHasSurface
<1>15. RowsExpire'
  <2>1. new.aexp <= new.rexp
    BY <1>6, <1>7 DEF SessionsAssumption
  <2> QED BY <1>4, <2>1 DEF LineageInv, RowsExpire
<1> QED BY <1>12, <1>13, <1>14, <1>15 DEF LineageInv

-----------------------------------------------------------------------------
(* The invariant and what follows from it *)

LEMMA InitLineage == Init => LineageInv
<1> SUFFICES ASSUME Init PROVE LineageInv
  OBVIOUS
<1>1. Issued = {} /\ rows = {} /\ signedOut = {} /\ \A c \in Requests : req[c] = Idle
  BY DEF Init, Issued
<1>2. RequestsSettled /\ CarriedIsFresh
  BY <1>1 DEF RequestsSettled, Settled, Presents, CarriedIsFresh, Carrying, Carries, Idle
<1> QED BY <1>1, <1>2 DEF LineageInv, UnspentIsHead, LineageHasSurface, RowsExpire,
                          SignedOutGone, SessionHeld

LEMMA NextLineage ==
  ASSUME SessionsAssumption, SessionsInv, SessionsInv', LineageInv, [Next]_vars
  PROVE  LineageInv'
<1>1. ASSUME NEW c \in Requests, Handler(c) \/ Deliver(c) \/ LoseAnswer(c)
      PROVE  LineageInv'
  BY <1>1, QuietHolds, WelcomeHolds, MintHolds, RotateUpdateHolds, RotateSweepHolds,
     RevokeHolds, DeliverHolds, LoseAnswerHolds DEF Handler
<1>2. ASSUME NEW c \in Requests, NEW b \in Browsers, NEW s \in Surfaces, Person(c, b, s)
      PROVE  LineageInv'
  BY <1>2, PersonHolds
<1>3. ASSUME NEW b \in Browsers, NEW s \in Surfaces, NEW t \in Surfaces,
             CookiesExpire(b, s) \/ CarryCookie(b, s, t)
      PROVE  LineageInv'
  BY <1>3, CookieHolds
<1> QED BY <1>1, <1>2, <1>3, WorldHolds DEF Next

\* The inductive invariant: what browsers, requests and answers hold (sessions.ts,
\* routes.ts), placed on the lineages in the table.
THEOREM LineageInvariant == Spec => []LineageInv
<1>1. Init => LineageInv
  BY InitLineage
<1>2. SessionsInv /\ SessionsInv' /\ LineageInv /\ [Next]_vars => LineageInv'
  BY NextLineage, SessionsAssumption
<1> QED BY <1>1, <1>2, SessionsInvariant, PTL DEF Spec

\* However tabs race, a session in the table is in a jar or on its way to one,
\* unless it was logged out of, or its answer or cookie was lost.
THEOREM NobodyIsLockedOut == Spec => []SessionHeld
<1>1. LineageInv => SessionHeld
  BY DEF LineageInv
<1> QED BY <1>1, LineageInvariant, PTL

\* A logout answered 200 leaves its session only where a rotation had replaced the
\* pair it presented: whoever rotated has the session, nobody else does.
THEOREM LogoutMissesOnlyRaces == Spec => []LogoutMissesOnlyRotated
<1>1. SessionsInv /\ LineageInv => LogoutMissesOnlyRotated
  BY DEF LineageInv, SignedOutGone, UnspentIsHead, LogoutMissesOnlyRotated, IdOf
<1> QED BY <1>1, SessionsInvariant, LineageInvariant, PTL

\* An access token answers only at its surface, and not once its pair was rotated or
\* presented to a logout that was answered.
THEOREM DeadPairsStayDead == Spec => []DeadPairsResolveNothing
<1>1. SessionsInv /\ LineageInv => DeadPairsResolveNothing
  BY RowFacts DEF LineageInv, SignedOutGone, DeadPairsResolveNothing, ResolveUser
<1> QED BY <1>1, SessionsInvariant, LineageInvariant, PTL

-----------------------------------------------------------------------------
(* What a step may never do *)

\* Past the account check of its user u, and not written yet.
Past(r, u) ==
  r # Idle /\ r.user = u /\ (r.pc = "update" \/ (r.pc \in {"verify", "mint"} /\ r.ok))

\* The step that c takes while u is suspended and nobody is past the check.
LEMMA NobodyPasses ==
  ASSUME SessionsInv, LineageInv, NEW c \in Requests, NEW u \in Users, ~active[u],
         ~Past(req[c], u),
         \/ Handler(c) \/ Deliver(c) \/ LoseAnswer(c)
         \/ \E b \in Browsers, s \in Surfaces : Person(c, b, s)
  PROVE  ~Past(req[c], u)'
<1>1. SUFFICES ASSUME req'[c] # req[c]
               PROVE  ~Past(req[c], u)'
  BY DEF Past
<1>2. CASE req'[c] = Idle \/ req'[c].pc \in {"lookup", "select", "sweep", "welcome", "revoke", "answer"}
  BY <1>2 DEF Past
<1>3. CASE LookupUser(c)
  <2>1. req[c] \in Request
    BY <1>3, BusyTyped DEF LookupUser, Steps, SessionsInv
  <2>2. /\ req'[c].pc = "verify" /\ req'[c].user = req[c].user
        /\ req'[c].ok = active[req[c].user]
    BY <1>3, <2>1 DEF LookupUser, Become, SessionsInv, TypeOK, Request
  <2> QED BY <2>2 DEF Past
<1>4. CASE VerifyPassword(c)
  <2>1. req[c] \in Request /\ req[c] # Idle /\ req[c].pc = "verify"
    BY <1>4, BusyTyped DEF VerifyPassword, Steps, SessionsInv
  <2>2. \/ req'[c].pc = "answer"
        \/ req[c].ok /\ req'[c].user = req[c].user
    BY <1>4, <2>1 DEF VerifyPassword, Become, Answered, SessionsInv, TypeOK, Request
  <2> QED BY <2>1, <2>2 DEF Past
<1>5. CASE RotateSelect(c)
  <2>1. req[c] \in Request /\ req[c].pc = "select"
    BY <1>5, BusyTyped DEF RotateSelect, Steps, SessionsInv
  <2>2. CASE \E r \in Live(req[c].pair, req[c].surf, now) : active[r.user]
    <3>1. PICK r \in rows : r.pair = req[c].pair /\ active[r.user]
      BY <2>2 DEF Live
    <3>2. req[c].user = r.user
      BY <2>1, <3>1, RowFacts DEF LineageInv, RequestsSettled, Settled, Presents
    <3>3. req'[c] = [req[c] EXCEPT !.pc = "update", !.at = now]
      BY <1>5, <2>2 DEF RotateSelect, Become, SessionsInv, TypeOK
    <3>4. req'[c].user = req[c].user
      BY <2>1, <3>3 DEF Request
    <3> QED BY <3>1, <3>2, <3>4 DEF Past
  <2>3. CASE ~\E r \in Live(req[c].pair, req[c].surf, now) : active[r.user]
    <3>1. req'[c].pc = "answer"
      BY <1>5, <2>1, <2>3 DEF RotateSelect, Refused, Answered, Become, SessionsInv, TypeOK, Request
    <3> QED BY <3>1 DEF Past
  <2> QED BY <2>2, <2>3
<1>6. CASE Deliver(c) \/ LoseAnswer(c)
  BY <1>2, <1>6 DEF Deliver, LoseAnswer, SessionsInv, TypeOK
<1>7. CASE Mint(c)
  <2>1. req[c] \in Request
    BY <1>7, BusyTyped DEF Mint, Steps, SessionsInv
  <2>2. req'[c].pc = "welcome"
    BY <1>7, <2>1 DEF Mint, Request, SessionsInv, TypeOK
  <2> QED BY <1>2, <2>2
<1>8. CASE RotateUpdate(c) /\ Consumed(c) # {}
  <2>1. req[c] \in Request
    BY <1>8, BusyTyped DEF RotateUpdate, Steps, SessionsInv
  <2>2. req'[c].pc = "sweep"
    BY <1>8, <2>1 DEF RotateUpdate, Request, SessionsInv, TypeOK
  <2> QED BY <1>2, <2>2
<1>9. CASE \/ Welcome(c) \/ RotateSweep(c) \/ Revoke(c) \/ RevokeFails(c) \/ ServerError(c)
           \/ RotateUpdate(c) /\ Consumed(c) = {}
  <2>1. req[c] \in Request
    BY <1>9, BusyTyped DEF Welcome, RotateSweep, Revoke, RevokeFails, ServerError,
       RotateUpdate, Steps, SessionsInv
  <2>2. PICK eff \in JarEffect : req'[c] = Answered(req[c], eff)
    BY <1>9 DEF Welcome, RotateSweep, Revoke, RevokeFails, ServerError, RotateUpdate, Refused,
       Become, JarEffect, SessionsInv, TypeOK
  <2>3. req'[c].pc = "answer"
    BY <2>1, <2>2 DEF Answered, Request
  <2> QED BY <1>2, <2>3
<1>10. ASSUME NEW b \in Browsers, NEW s \in Surfaces, Person(c, b, s)
      PROVE  ~Past(req[c], u)'
  <2>1. req'[c].pc \in {"lookup", "select", "revoke"}
    BY <1>10 DEF Person, SendLogin, SendRefresh, SendLogout, Send, SessionsInv, TypeOK
  <2> QED BY <1>2, <2>1
<1> QED BY <1>3, <1>4, <1>5, <1>6, <1>7, <1>8, <1>9, <1>10 DEF Handler

LEMMA SuspensionStep ==
  ASSUME SessionsInv, LineageInv, [Next]_vars, NEW u \in Users, ~active[u], PastCheck(u) = {}
  PROVE  /\ PastCheck(u)' = {}
         /\ \A i \in 1 .. Len(ledger') : i > Len(ledger) => ledger'[i].user # u
<1>1. \A c \in Requests : ~Past(req[c], u)
  BY DEF PastCheck, Past
<1>2. ASSUME NEW d \in Requests
      PROVE  ~Past(req[d], u)'
  <2>1. CASE req'[d] = req[d]
    BY <1>1, <2>1 DEF Past
  <2>2. CASE req'[d] # req[d]
    <3>1. ASSUME NEW c \in Requests, Handler(c) \/ Deliver(c) \/ LoseAnswer(c)
          PROVE  d = c
      BY <2>2, <3>1 DEF Handler, LookupUser, VerifyPassword, Mint, Welcome, RotateSelect,
         RotateUpdate, RotateSweep, Revoke, RevokeFails, ServerError, Deliver, LoseAnswer,
         Become, SessionsInv, TypeOK
    <3>2. ASSUME NEW c \in Requests, NEW b \in Browsers, NEW s \in Surfaces, Person(c, b, s)
          PROVE  d = c
      BY <2>2, <3>2 DEF Person, SendLogin, SendRefresh, SendLogout, Send, SessionsInv, TypeOK
    <3>3. ASSUME \/ \E b \in Browsers, s \in Surfaces : CookiesExpire(b, s)
                 \/ \E b \in Browsers, s, t \in Surfaces : CarryCookie(b, s, t)
                 \/ \E v \in Users, a \in BOOLEAN : SetActive(v, a)
                 \/ \E v \in Users, p \in Presentable : RevokeAllForUser(v, p)
                 \/ Tick
                 \/ UNCHANGED vars
          PROVE  FALSE
      BY <2>2, <3>3 DEF CookiesExpire, CarryCookie, SetActive, RevokeAllForUser, Tick, vars
    <3>4. \/ Handler(d) \/ Deliver(d) \/ LoseAnswer(d)
          \/ \E b \in Browsers, s \in Surfaces : Person(d, b, s)
      BY <3>1, <3>2, <3>3 DEF Next
    <3> QED BY <1>1, <3>4, NobodyPasses
  <2> QED BY <2>1, <2>2
<1>3. PastCheck(u)' = {}
  BY <1>2 DEF PastCheck, Past
<1>4. \A i \in 1 .. Len(ledger') : i > Len(ledger) => ledger'[i].user # u
  <2>1. CASE ledger' = ledger
    BY <2>1 DEF SessionsInv, TypeOK
  <2>2. ASSUME NEW c \in Requests, Mint(c)
        PROVE  \A i \in 1 .. Len(ledger') : i > Len(ledger) => ledger'[i].user # u
    <3> DEFINE e == [from |-> None, id |-> NewPair, user |-> req[c].user, origin |-> req[c].surf]
    <3>1. req[c] # Idle /\ req[c].pc = "mint" /\ req[c].ok
      BY <2>2 DEF Mint, Idle, LineageInv, RequestsSettled, Settled
    <3>2. e.user # u
      BY <1>1, <3>1 DEF Past
    <3>3. ledger' = Append(ledger, e)
      BY <2>2 DEF Mint
    <3> HIDE DEF e
    <3> QED BY <3>2, <3>3 DEF SessionsInv, TypeOK
  <2>3. ASSUME NEW c \in Requests, RotateUpdate(c), Consumed(c) # {}
        PROVE  \A i \in 1 .. Len(ledger') : i > Len(ledger) => ledger'[i].user # u
    <3> DEFINE p == req[c].pair
               e == [from |-> p, id |-> IdOf(p), user |-> ledger[p].user,
                     origin |-> ledger[p].origin]
    <3>1. req[c] # Idle /\ req[c].pc = "update" /\ ledger[p].user = req[c].user
      BY <2>3 DEF RotateUpdate, Idle, LineageInv, RequestsSettled, Settled, Presents
    <3>2. e.user # u
      BY <1>1, <3>1 DEF Past
    <3>3. ledger' = Append(ledger, e)
      BY <2>3 DEF RotateUpdate
    <3> HIDE DEF e
    <3> QED BY <3>2, <3>3 DEF SessionsInv, TypeOK
  <2> QED BY <2>1, <2>2, <2>3, StepShape
<1> QED BY <1>3, <1>4

\* Once an account is suspended and those that had looked at it are done, nobody is
\* issued anything for it until it is reinstated.
THEOREM SuspensionIsFinal == Spec => SuspensionHolds
<1>1. SessionsInv /\ LineageInv /\ [Next]_vars
        => [\A u \in Users :
              ~active[u] /\ PastCheck(u) = {} =>
                /\ PastCheck(u)' = {}
                /\ \A i \in 1 .. Len(ledger') : i > Len(ledger) => ledger'[i].user # u]_vars
  BY SuspensionStep
<1> QED BY <1>1, SessionsInvariant, LineageInvariant, PTL DEF Spec, SuspensionHolds

-----------------------------------------------------------------------------
(* What ends a session *)

\* The sweep takes only rows whose refresh token is past.
LEMMA SweepSparesLive ==
  ASSUME SessionsAssumption, SessionsInv, LineageInv, NEW c \in Requests, RotateSweep(c),
         NEW r \in rows, r.aexp > now \/ r.rexp > now
  PROVE  r \in rows'
<1>1. req[c] \in Request /\ req[c].pc = "sweep"
  BY BusyTyped DEF RotateSweep, Steps, SessionsInv
<1>2. req[c].at \in Nat /\ req[c].at <= now
  BY <1>1 DEF Request, LineageInv, RequestsSettled, Settled
<1>3. r.aexp \in Nat /\ r.rexp \in Nat /\ r.aexp <= r.rexp
  BY RowFacts DEF Row, LineageInv, RowsExpire
<1>4. r \notin LongDead(req[c].at)
  BY <1>2, <1>3 DEF LongDead, SessionsAssumption, SessionsInv, TypeOK
<1> QED BY <1>4 DEF RotateSweep

LEMMA EndedByRevocation ==
  ASSUME SessionsAssumption, SessionsInv, LineageInv, [Next]_vars,
         NEW r \in rows, r.aexp > now \/ r.rexp > now, r.id \notin Ids(rows')
  PROVE  \/ \E c \in Requests : req[c].pc = "revoke" /\ req[c].pair = r.pair
                                /\ req'[c].pc = "answer"
         \/ req' = req /\ \E p \in Presentable : RevokeAllForUser(r.user, p)
<1>1. r \notin rows'
  BY DEF Ids
<1>2. ASSUME NEW c \in Requests, Handler(c)
      PROVE  req[c].pc = "revoke" /\ req[c].pair = r.pair /\ req'[c].pc = "answer"
  <2>1. CASE Revoke(c)
    <3>1. req[c] \in Request
      BY <2>1, BusyTyped DEF Revoke, Steps, SessionsInv
    <3> QED BY <1>1, <2>1, <3>1 DEF Revoke, Answered, Request, SessionsInv, TypeOK
  <2>2. CASE RotateSweep(c)
    BY <1>1, <2>2, SweepSparesLive
  <2>3. CASE RotateUpdate(c) /\ Consumed(c) # {}
    <3>1. \A m \in Consumed(c) : m \in Row
      BY DEF Consumed, Live, SessionsInv, TypeOK
    <3>2. \A m \in Consumed(c) : Renewed(m, NewPair, req[c].at).id = m.id
      BY <3>1 DEF Renewed, Row
    <3> QED BY <2>3, <3>2 DEF RotateUpdate, Ids
  <2>4. CASE \/ LookupUser(c) \/ VerifyPassword(c) \/ Mint(c) \/ Welcome(c) \/ RotateSelect(c)
             \/ RevokeFails(c) \/ ServerError(c) \/ (RotateUpdate(c) /\ Consumed(c) = {})
    <3>1. Mint(c) => rows \subseteq rows'
      BY DEF Mint
    <3>2. ~Mint(c) => rows' = rows
      BY <2>4 DEF LookupUser, VerifyPassword, Welcome, RotateSelect, RevokeFails,
         ServerError, RotateUpdate, Become, store
    <3> QED BY <1>1, <3>1, <3>2
  <2> QED BY <1>2, <2>1, <2>2, <2>3, <2>4 DEF Handler
<1>3. ASSUME NEW v \in Users, NEW p \in Presentable, RevokeAllForUser(v, p)
      PROVE  req' = req /\ RevokeAllForUser(r.user, p)
  <2>1. r.user = v
    BY <1>1, <1>3 DEF RevokeAllForUser
  <2> QED BY <1>3, <2>1 DEF RevokeAllForUser
<1>4. ASSUME NEW c \in Requests, NEW b \in Browsers, NEW s \in Surfaces,
             Deliver(c) \/ LoseAnswer(c) \/ Person(c, b, s)
      PROVE  FALSE
  BY <1>1, <1>4 DEF Deliver, LoseAnswer, Person, SendLogin, SendRefresh, SendLogout, Send, store
<1>5. ASSUME NEW c \in Requests, Deliver(c) \/ LoseAnswer(c)
      PROVE  FALSE
  BY <1>1, <1>5 DEF Deliver, LoseAnswer, store
<1>6. ASSUME \/ \E b \in Browsers, s \in Surfaces : CookiesExpire(b, s)
             \/ \E b \in Browsers, s, t \in Surfaces : CarryCookie(b, s, t)
             \/ \E v \in Users, a \in BOOLEAN : SetActive(v, a)
             \/ Tick
             \/ UNCHANGED vars
      PROVE  FALSE
  BY <1>1, <1>6 DEF CookiesExpire, CarryCookie, SetActive, Tick, vars, store
<1> QED BY <1>2, <1>3, <1>4, <1>5, <1>6 DEF Next

\* Nothing but a logout or a revocation of the account ends a session that works,
\* and in particular not the lazy sweep, with the clock of an earlier statement.
THEOREM OnlyRevocationEnds == Spec => OnlyRevocationEndsLiveSession
<1>1. SessionsInv /\ LineageInv /\ [Next]_vars
        => [\A r \in rows :
              (r.aexp > now \/ r.rexp > now) /\ r.id \notin Ids(rows') =>
                \/ \E c \in Requests : req[c].pc = "revoke" /\ req[c].pair = r.pair
                                       /\ req'[c].pc = "answer"
                \/ req' = req /\ \E p \in Presentable : RevokeAllForUser(r.user, p)]_vars
  BY EndedByRevocation, SessionsAssumption
<1> QED BY <1>1, SessionsInvariant, LineageInvariant, PTL DEF Spec, OnlyRevocationEndsLiveSession
=============================================================================
