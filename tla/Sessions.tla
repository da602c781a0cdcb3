------------------------------ MODULE Sessions ------------------------------
(***************************************************************************)
(* The session store (packages/auth/src/sessions.ts) together with the     *)
(* login, refresh and logout handlers that drive it                        *)
(* (packages/auth/src/routes.ts) and the cookie jar those handlers write   *)
(* (packages/auth/src/cookies.ts).                                         *)
(*                                                                         *)
(* One action is one database statement of a handler, so that the requests *)
(* of several tabs interleave exactly where the handlers await.  An access *)
(* token and its refresh token are always drawn, stored and set together,  *)
(* so a "pair" is one number: the index of the pair in `ledger`, the       *)
(* history of everything ever issued.  0 stands for no cookie.             *)
(***************************************************************************)
EXTENDS Naturals, Sequences

CONSTANTS
  Users,       \* accounts
  Surfaces,    \* values of `origin`: one createAuthRoutes per surface
  Browsers,    \* cookie jars; the tabs of a browser share one
  Requests,    \* handler invocations that can be in flight together
  AccessTtl,   \* accessTtlMs, in ticks
  RefreshTtl,  \* refreshTtlMs, in ticks
  SweepGrace,  \* sweepGraceMs, in ticks
  MaxClock,    \* bound: the clock stops here
  MaxSends,    \* bound: requests sent in one behaviour
  MaxLost      \* bound: answers the network may lose

ASSUME SessionsAssumption ==
  /\ AccessTtl \in Nat /\ RefreshTtl \in Nat /\ SweepGrace \in Nat
  /\ AccessTtl <= RefreshTtl
  /\ MaxClock \in Nat /\ MaxSends \in Nat /\ MaxLost \in Nat

VARIABLES
  now,        \* Date.now(), in ticks
  active,     \* isUserActive of each user's row
  rows,       \* the sessions table
  jar,        \* the pair each browser holds for each surface
  req,        \* the handler invocations
  sent,       \* requests sent so far
  lost,       \* answers lost so far
  ledger,     \* history: every pair issued, with the pair it replaced
  signedOut,  \* history: pairs presented by logouts answered 200
  abandoned   \* history: sessions logged out of, or whose cookie was lost or dropped

store == <<active, rows>>
history == <<ledger, signedOut, abandoned>>
vars == <<now, active, rows, jar, req, sent, lost, ledger, signedOut, abandoned>>

-----------------------------------------------------------------------------
(* Data *)

Pair == Nat
None == 0

\* A row of the sessions table.  `id` is the first pair the session held.
Row == [id: Pair, user: Users, origin: Surfaces, pair: Pair, aexp: Nat, rexp: Nat]

Issue == [from: Pair, id: Pair, user: Users, origin: Surfaces]

Steps == {"lookup", "verify", "mint", "welcome",
          "select", "update", "sweep", "revoke", "answer"}

\* What an answer does to the three cookies: nothing, SessionCookies.set, or
\* SessionCookies.clear.
JarEffect == {"keep", "set", "clear"}

Request == [pc: Steps, br: Browsers, surf: Surfaces, user: Users, ok: BOOLEAN,
            pair: Pair, at: Nat, got: Pair, effect: JarEffect]

Ids(R) == {r.id : r \in R}
Issued == 1 .. Len(ledger)

Idle == [pc |-> "idle"]

\* Its handler holds, or its answer carries, a pair that is not in a jar yet.
Carries(r) == r.pc \in {"welcome", "sweep"} \/ (r.pc = "answer" /\ r.effect = "set")
Carrying(c) == Carries(req[c])

-----------------------------------------------------------------------------
(* The WHERE clauses *)

\* Mutation: the originClause left out.
LiveAnywhere(p, s, t) == {r \in rows : r.pair = p /\ r.rexp > t}

\* rotate: the `live` conditions, scoped by originClause({ equals: s }).
Live(p, s, t) == {r \in rows : r.pair = p /\ r.rexp > t /\ r.origin = s}

\* Mutation: the access token is looked up without its surface.
ResolveUserAnywhere(p, s) == {r \in rows : r.pair = p /\ r.aexp > now /\ active[r.user]}

\* resolveUser: what a GET /me at surface s finds for the access token of p.
ResolveUser(p, s) ==
  {r \in rows : r.pair = p /\ r.aexp > now /\ r.origin = s /\ active[r.user]}

-----------------------------------------------------------------------------
TypeOK ==
  /\ now \in Nat
  /\ active \in [Users -> BOOLEAN]
  /\ rows \in SUBSET Row
  /\ jar \in [Browsers -> [Surfaces -> Pair]]
  /\ req \in [Requests -> Request \cup {Idle}]
  /\ sent \in Nat
  /\ lost \in Nat
  /\ ledger \in Seq(Issue)
  /\ signedOut \in SUBSET Pair
  /\ abandoned \in SUBSET Pair

Init ==
  /\ now = 0
  /\ active = [u \in Users |-> TRUE]
  /\ rows = {}
  /\ jar = [b \in Browsers |-> [s \in Surfaces |-> None]]
  /\ req = [c \in Requests |-> Idle]
  /\ sent = 0
  /\ lost = 0
  /\ ledger = <<>>
  /\ signedOut = {}
  /\ abandoned = {}

-----------------------------------------------------------------------------
(* Steps shared by the handlers *)

Send(c, r) ==
  /\ req[c] = Idle
  /\ sent < MaxSends
  /\ sent' = sent + 1
  /\ req' = [req EXCEPT ![c] = r]
  /\ UNCHANGED <<now, store, jar, lost, history>>

\* The handler moves on, or answers, without touching the tables.
Become(c, r) ==
  /\ req' = [req EXCEPT ![c] = r]
  /\ UNCHANGED <<now, store, jar, sent, lost, history>>

Answered(r, eff) == [r EXCEPT !.pc = "answer", !.effect = eff]

\* Mutation: a refused refresh clears the cookies.
RefusedAndCleared(r) == Answered(r, "clear")

\* The 401 of refresh leaves the cookies alone.
Refused(r) == Answered(r, "keep")

IdOf(p) == ledger[p].id

\* The pair newToken draws: random in the code, so never one drawn before.
NewPair == Len(ledger) + 1

-----------------------------------------------------------------------------
(* login *)

SendLogin(c, b, s, u) ==
  Send(c, [pc |-> "lookup", br |-> b, surf |-> s, user |-> u, ok |-> FALSE,
           pair |-> None, at |-> 0, got |-> None, effect |-> "keep"])

\* findUserByEmail: the digest and the status are read here and used below.
LookupUser(c) ==
  /\ req[c].pc = "lookup"
  /\ Become(c, [req[c] EXCEPT !.pc = "verify", !.ok = active[req[c].user]])

\* verifyPassword, then the status read before it.
VerifyPassword(c) ==
  /\ req[c].pc = "verify"
  /\ \/ Become(c, Answered(req[c], "keep"))
     \/ req[c].ok /\ Become(c, [req[c] EXCEPT !.pc = "mint"])

\* Mutation: user and origin exchanged in the INSERT.
MintSwapped(c) ==
  /\ req[c].pc = "mint"
  /\ rows' = rows \cup {[id |-> NewPair, user |-> req[c].surf, origin |-> req[c].user,
                         pair |-> NewPair, aexp |-> now, rexp |-> now + RefreshTtl]}
  /\ req' = [req EXCEPT ![c] = Refused(req[c])]
  /\ UNCHANGED <<now, active, jar, sent, lost, history>>

Mint(c) ==
  /\ req[c].pc = "mint"
  /\ LET r == req[c]
     IN  /\ rows' = rows \cup {[id |-> NewPair, user |-> r.user, origin |-> r.surf,
                                pair |-> NewPair, aexp |-> now + AccessTtl,
                                rexp |-> now + RefreshTtl]}
         /\ ledger' = Append(ledger, [from |-> None, id |-> NewPair,
                                      user |-> r.user, origin |-> r.surf])
         /\ req' = [req EXCEPT ![c].pc = "welcome", ![c].got = NewPair]
  /\ UNCHANGED <<now, active, jar, sent, lost, signedOut, abandoned>>

\* The resolveUser that fills the answer's body reads only; when it throws, the
\* session exists and nobody holds its cookies.
Welcome(c) ==
  /\ req[c].pc = "welcome"
  /\ \/ Become(c, Answered(req[c], "set"))
     \/ /\ req' = [req EXCEPT ![c] = Answered(req[c], "keep")]
        /\ abandoned' = abandoned \cup {req[c].got}
        /\ UNCHANGED <<now, store, jar, sent, lost, ledger, signedOut>>

-----------------------------------------------------------------------------
(* refresh *)

SendRefresh(c, b, s) ==
  /\ jar[b][s] # None
  /\ Send(c, [pc |-> "select", br |-> b, surf |-> s, user |-> ledger[jar[b][s]].user,
              ok |-> FALSE, pair |-> jar[b][s], at |-> 0, got |-> None,
              effect |-> "keep"])

\* Mutation: any live row will do, whatever the state of its account.
RotateSelectUnchecked(c) ==
  /\ req[c].pc = "select"
  /\ IF Live(req[c].pair, req[c].surf, now) # {}
     THEN Become(c, [req[c] EXCEPT !.pc = "update", !.at = now])
     ELSE Become(c, Refused(req[c]))

\* rotate's SELECT.  `now` is captured once and serves both statements.
RotateSelect(c) ==
  /\ req[c].pc = "select"
  /\ IF \E r \in Live(req[c].pair, req[c].surf, now) : active[r.user]
     THEN Become(c, [req[c] EXCEPT !.pc = "update", !.at = now])
     ELSE Become(c, Refused(req[c]))

\* Mutation: the old refresh hash is kept beside the new one.
RenewedInPlace(r, p, t) == [r EXCEPT !.aexp = t + AccessTtl, !.rexp = t + RefreshTtl]

\* Mutation: a rotation opens a session of its own.
RenewedAsNew(r, p, t) ==
  [r EXCEPT !.id = p, !.pair = p, !.aexp = t + AccessTtl, !.rexp = t + RefreshTtl]

Renewed(r, p, t) == [r EXCEPT !.pair = p, !.aexp = t + AccessTtl, !.rexp = t + RefreshTtl]

\* Mutation: the UPDATE names the session the SELECT found, not the hash.
ConsumedById(c) == {r \in rows : r.id = IdOf(req[c].pair) /\ r.rexp > req[c].at}

\* Mutation: the row the SELECT found is saved back, whatever became of it since.
ConsumedFromMemory(c) ==
  {[id |-> IdOf(req[c].pair), user |-> req[c].user, origin |-> req[c].surf,
    pair |-> req[c].pair, aexp |-> req[c].at, rexp |-> req[c].at]}

\* The rows the UPDATE's WHERE consumes.
Consumed(c) == Live(req[c].pair, req[c].surf, req[c].at)

RotateUpdate(c) ==
  /\ req[c].pc = "update"
  /\ IF Consumed(c) = {}
     THEN Become(c, Refused(req[c]))
     ELSE /\ rows' = (rows \ Consumed(c))
                        \cup {Renewed(r, NewPair, req[c].at) : r \in Consumed(c)}
          /\ ledger' = Append(ledger, [from |-> req[c].pair,
                                       id |-> IdOf(req[c].pair),
                                       user |-> ledger[req[c].pair].user,
                                       origin |-> ledger[req[c].pair].origin])
          /\ req' = [req EXCEPT ![c].pc = "sweep", ![c].got = NewPair]
          /\ UNCHANGED <<now, active, jar, sent, lost, signedOut, abandoned>>

\* Mutation: the sweep goes by the access expiry.
LongDeadAccess(t) == {r \in rows : r.aexp + SweepGrace <= t}

\* lt(refreshExpiresAt, now - sweepGraceMs)
LongDead(t) == {r \in rows : r.rexp + SweepGrace < t}

\* Mutation: an error in the sweep loses the new cookies.
RotateSweepFragile(c) ==
  /\ req[c].pc = "sweep"
  /\ \/ /\ rows' = rows \ LongDead(req[c].at)
        /\ req' = [req EXCEPT ![c] = Answered(req[c], "set")]
     \/ /\ rows' = rows
        /\ req' = [req EXCEPT ![c] = Answered(req[c], "keep")]
  /\ UNCHANGED <<now, active, jar, sent, lost, history>>

\* The lazy sweep; an error in it is swallowed.
RotateSweep(c) ==
  /\ req[c].pc = "sweep"
  /\ \/ rows' = rows \ LongDead(req[c].at)
     \/ rows' = rows
  /\ req' = [req EXCEPT ![c] = Answered(req[c], "set")]
  /\ UNCHANGED <<now, active, jar, sent, lost, history>>

-----------------------------------------------------------------------------
(* logout *)

SendLogout(c, b, s) ==
  /\ jar[b][s] # None
  /\ Send(c, [pc |-> "revoke", br |-> b, surf |-> s, user |-> ledger[jar[b][s]].user,
              ok |-> FALSE, pair |-> jar[b][s], at |-> 0, got |-> None,
              effect |-> "keep"])

\* revoke: DELETE by either hash.  The number of rows deleted is not looked at.
Revoke(c) ==
  /\ req[c].pc = "revoke"
  /\ rows' = {r \in rows : r.pair # req[c].pair}
  /\ req' = [req EXCEPT ![c] = Answered(req[c], "clear")]
  /\ abandoned' = abandoned \cup {IdOf(req[c].pair)}
  /\ UNCHANGED <<now, active, jar, sent, lost, ledger, signedOut>>

\* Mutation: the failure is swallowed and the cookies are cleared.
RevokeFailsQuietly(c) ==
  /\ req[c].pc = "revoke"
  /\ Become(c, Answered(req[c], "clear"))

\* The database refuses: the answer is a 500 and the cookies stay.
RevokeFails(c) ==
  /\ req[c].pc = "revoke"
  /\ Become(c, Answered(req[c], "keep"))

\* Any other statement that throws rejects the handler before it set a cookie.
ServerError(c) ==
  /\ req[c].pc \in {"lookup", "mint", "select", "update"}
  /\ Become(c, Answered(req[c], "keep"))

-----------------------------------------------------------------------------
(* The browser *)

\* Writing jar[b][s] on behalf of session i takes the cookie of any other session.
Dropped(b, s, i) ==
  IF jar[b][s] = None \/ IdOf(jar[b][s]) = i THEN {} ELSE {IdOf(jar[b][s])}

\* The answer arrives: the browser applies its Set-Cookie headers.
Deliver(c) ==
  /\ req[c].pc = "answer"
  /\ LET r == req[c]
     IN  \/ /\ r.effect = "keep"
           /\ UNCHANGED <<jar, signedOut, abandoned>>
        \/ /\ r.effect = "set"
           /\ jar' = [jar EXCEPT ![r.br][r.surf] = r.got]
           /\ abandoned' = abandoned \cup Dropped(r.br, r.surf, IdOf(r.got))
           /\ UNCHANGED signedOut
        \/ /\ r.effect = "clear"
           /\ jar' = [jar EXCEPT ![r.br][r.surf] = None]
           /\ abandoned' = abandoned \cup Dropped(r.br, r.surf, IdOf(r.pair))
           /\ signedOut' = signedOut \cup {r.pair}
  /\ req' = [req EXCEPT ![c] = Idle]
  /\ UNCHANGED <<now, store, sent, lost, ledger>>

\* The answer is lost: the tab is closed or the connection drops.
LoseAnswer(c) ==
  /\ req[c].pc = "answer"
  /\ lost < MaxLost
  /\ lost' = lost + 1
  /\ abandoned' = IF req[c].effect = "set"
                  THEN abandoned \cup {IdOf(req[c].got)} ELSE abandoned
  /\ req' = [req EXCEPT ![c] = Idle]
  /\ UNCHANGED <<now, store, jar, sent, ledger, signedOut>>

\* The cookies reach their maxAge, or the person clears them.
CookiesExpire(b, s) ==
  /\ jar[b][s] # None
  /\ jar' = [jar EXCEPT ![b][s] = None]
  /\ abandoned' = abandoned \cup Dropped(b, s, None)
  /\ UNCHANGED <<now, store, req, sent, lost, ledger, signedOut>>

\* A cookie value carried by hand from surface s to surface t.
CarryCookie(b, s, t) ==
  /\ s # t
  /\ jar[b][s] # None /\ ledger[jar[b][s]].origin = s
  /\ jar' = [jar EXCEPT ![b][t] = jar[b][s]]
  /\ abandoned' = abandoned \cup Dropped(b, t, IdOf(jar[b][s]))
  /\ UNCHANGED <<now, store, req, sent, lost, ledger, signedOut>>

-----------------------------------------------------------------------------
(* The rest of the world *)

\* An administrator suspends or reinstates an account.
SetActive(u, v) ==
  /\ active[u] # v
  /\ active' = [active EXCEPT ![u] = v]
  /\ UNCHANGED <<now, rows, jar, req, sent, lost, history>>

\* revokeAllForUser, sparing the session of the access token p (None: nobody).
RevokeAllForUser(u, p) ==
  /\ rows' = {r \in rows : r.user # u \/ (p # None /\ r.pair = p)}
  /\ UNCHANGED <<now, active, jar, req, sent, lost, history>>

Tick ==
  /\ now < MaxClock
  /\ now' = now + 1
  /\ UNCHANGED <<store, jar, req, sent, lost, history>>

-----------------------------------------------------------------------------
Handler(c) ==
  \/ LookupUser(c) \/ VerifyPassword(c) \/ Mint(c) \/ Welcome(c)
  \/ RotateSelect(c) \/ RotateUpdate(c) \/ RotateSweep(c)
  \/ Revoke(c) \/ RevokeFails(c) \/ ServerError(c)

Person(c, b, s) ==
  \/ \E u \in Users : SendLogin(c, b, s, u)
  \/ SendRefresh(c, b, s)
  \/ SendLogout(c, b, s)

Presentable == {None} \cup {jar[b][s] : b \in Browsers, s \in Surfaces}

Next ==
  \/ \E c \in Requests : Handler(c) \/ Deliver(c) \/ LoseAnswer(c)
  \/ \E c \in Requests, b \in Browsers, s \in Surfaces : Person(c, b, s)
  \/ \E b \in Browsers, s \in Surfaces : CookiesExpire(b, s)
  \/ \E b \in Browsers, s, t \in Surfaces : CarryCookie(b, s, t)
  \/ \E u \in Users, v \in BOOLEAN : SetActive(u, v)
  \/ \E u \in Users, p \in Presentable : RevokeAllForUser(u, p)
  \/ Tick

Spec == Init /\ [][Next]_vars

\* The server runs every handler it has started and the network delivers every
\* answer it does not lose.  Nobody is obliged to send, suspend or revoke.
Fairness == \A c \in Requests : WF_vars(Handler(c)) /\ WF_vars(Deliver(c))

FairSpec == Spec /\ Fairness

-----------------------------------------------------------------------------
(* Refinement: the store keeps the promises of SessionLeases *)

\* A row without its expiries.
LeaseOf(r) == [id |-> r.id, user |-> r.user, origin |-> r.origin, pair |-> r.pair]

Leases == INSTANCE SessionLeases WITH
  leases <- {LeaseOf(r) : r \in rows},
  issued <- Len(ledger)

\* Whatever the requests interleave to, the table only ever opens a lease with a
\* fresh pair, renews one lease with a fresh pair, or ends leases for good.
LeasesSpec == Leases!Spec

-----------------------------------------------------------------------------
(* Safety *)

\* Single use (sessions.ts, rotate): however many tabs refresh with the same
\* token at once, at most one of them is given a new pair for it.
SingleUse ==
  \A i, j \in Issued :
    ledger[i].from # None /\ ledger[i].from = ledger[j].from => i = j

\* The table never holds a spent token, nor a session twice: each row holds the
\* newest pair of its own lineage, for the user and surface it was opened for.
HeadOfLineage ==
  /\ \A r \in rows :
       /\ r.pair \in Issued
       /\ ledger[r.pair].id = r.id
       /\ ledger[r.pair].user = r.user
       /\ ledger[r.pair].origin = r.origin
       /\ \A i \in Issued : ledger[i].from # r.pair
  /\ \A q, r \in rows : q.id = r.id => q = r

\* A handler only ever answers with cookies of its own surface, whatever cookie
\* was carried to it: neither login nor refresh at one surface hands out a pair
\* of a session opened at another (routes.ts, refresh).
AnswerStaysOnSurface ==
  \A c \in Requests : Carrying(c) => ledger[req[c].got].origin = req[c].surf

\* An access token answers /me only where it was issued, and never again once it
\* was exchanged by a refresh or presented to a logout that was answered 200.
DeadPairsResolveNothing ==
  \A p \in Issued, s \in Surfaces :
    ResolveUser(p, s) # {} =>
      /\ ledger[p].origin = s
      /\ p \notin signedOut
      /\ \A i \in Issued : ledger[i].from # p

\* "Never two valid sessions or zero" (packages/auth/README.md): as long as no
\* answer was lost and no cookie thrown away, the live pair of every session in
\* the table is in a browser's jar or on its way to one.  Racing refreshes and
\* logins therefore never leave a session that its person cannot use.
SessionHeld ==
  \A r \in rows :
    \/ r.id \in abandoned
    \/ \E b \in Browsers : jar[b][r.origin] = r.pair
    \/ \E c \in Requests : Carrying(c) /\ req[c].got = r.pair

\* After a logout answered 200, a row of that session is left only where a
\* rotation had already replaced the pair the logout presented.
LogoutMissesOnlyRotated ==
  \A r \in rows, p \in signedOut :
    IdOf(p) = r.id => \E i \in Issued : ledger[i].from = p

\* What routes.ts (logout) says: a logout never leaves "someone believing they
\* are signed out while their session lives on in the database".
LogoutEndsSession == \A r \in rows, p \in signedOut : IdOf(p) # r.id

-----------------------------------------------------------------------------
(* Action properties *)

\* A session that was revoked, swept or never opened does not appear: the only
\* session a step adds is the one a login has just opened.  In particular an
\* UPDATE whose SELECT ran before a revoke does not bring the session back.
NoRevival ==
  [][Ids(rows') \subseteq Ids(rows) \cup {i \in {NewPair} : Len(ledger') = i
                                                  /\ ledger'[i].from = None}]_vars

\* Only a revocation ends a session that still works: the lazy sweep and the
\* rotations leave every unexpired session in the table.
OnlyRevocationEndsLiveSession ==
  [][\A r \in rows :
       (r.aexp > now \/ r.rexp > now) /\ r.id \notin Ids(rows') =>
         \/ \E c \in Requests : req[c].pc = "revoke" /\ req[c].pair = r.pair
                                /\ req'[c].pc = "answer"
         \/ req' = req /\ \E p \in Presentable : RevokeAllForUser(r.user, p)]_vars

\* Handlers of user u that have passed the account check and not yet written.
PastCheck(u) ==
  {c \in Requests : /\ req[c] # Idle /\ req[c].user = u
                    /\ \/ req[c].pc = "update"
                       \/ req[c].pc \in {"verify", "mint"} /\ req[c].ok}

\* Once an account is suspended and the handlers that had already looked at it
\* are done, it is issued nothing: no login and no refresh gets past its check.
SuspensionHolds ==
  [][\A u \in Users :
       ~active[u] /\ PastCheck(u) = {} =>
         /\ PastCheck(u)' = {}
         /\ \A i \in 1 .. Len(ledger') : i > Len(ledger) => ledger'[i].user # u]_vars

-----------------------------------------------------------------------------
(* Liveness *)

\* jar[b][s] holds a pair of an open session that has moved on to another pair.
Behind(b, s) ==
  /\ jar[b][s] # None
  /\ \E r \in rows : r.id = IdOf(jar[b][s]) /\ r.origin = s /\ r.pair # jar[b][s]

\* A browser whose tabs raced catches up: the loser's 401 leaves the cookies
\* alone and the winner's answer brings the new ones, unless it was lost.
JarCatchesUp ==
  \A b \in Browsers, s \in Surfaces : Behind(b, s) ~> (~Behind(b, s) \/ lost > 0)
=============================================================================
