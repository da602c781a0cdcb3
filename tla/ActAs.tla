-------------------------------- MODULE ActAs --------------------------------
(***************************************************************************)
(* "Act as" (packages/auth/src/actAs.ts): a signed-in user starts to act   *)
(* as another and is handed a ticket; every later request presents the     *)
(* ticket beside its session, and resolve decides whether the request runs *)
(* as the target, and whether it may write.                                *)
(*                                                                         *)
(* resolve and start read the actor, then await the target's row: roles,   *)
(* the switch, the key and the clock may all move between those reads.     *)
(* canActAs and mode are the wiring of docs/act-as.md and of the tests:    *)
(* predicates of a user's role; canBeTarget is the default.                *)
(***************************************************************************)
EXTENDS Naturals

CONSTANTS
  Users,
  Roles,
  ActingRoles,  \* canActAs: the roles that may act as others
  FullRoles,    \* mode: those of them that may write while acting
  Keys,         \* values the secret may take
  Development,  \* isDevelopment
  Requests,     \* requests in flight together
  Ttl,          \* ttlMs, in ticks
  Second,       \* ticks in a second: a ticket's expiry is in whole seconds
  MaxClock,     \* bound: the clock stops here
  MaxTickets,   \* bound: tickets minted
  MaxChanges    \* bound: changes of a role, the switch or the secret

ASSUME ActAsAssumption ==
  /\ FullRoles \subseteq ActingRoles /\ ActingRoles \subseteq Roles
  /\ Development \in BOOLEAN
  /\ Ttl \in Nat /\ Second \in Nat \ {0}
  /\ MaxClock \in Nat /\ MaxTickets \in Nat /\ MaxChanges \in Nat

VARIABLES
  now,      \* Date.now()
  role,     \* the role in each user's row, or Gone
  switch,   \* opts.enabled()
  key,      \* opts.secret()
  tickets,  \* every ticket minted: any of them may sit in any browser
  req,      \* the requests
  writes,   \* history: writes made in a target's name
  minted,   \* tickets minted so far
  changes   \* changes made so far

vars == <<now, role, switch, key, tickets, req, writes, minted, changes>>
world == <<now, role, switch, key, changes>>

-----------------------------------------------------------------------------
Gone == "gone"
Modes == {"full", "readonly"}

\* The payload of a ticket and the key it was signed with; `at` and `as` are
\* history: when it was minted, and the actor's role then.
Ticket == [actor : Users, target : Users, mode : Modes, exp : Nat, key : Keys,
           at : Nat, as : Roles]

Refusals == {"none", "disabled", "invalid-ticket", "expired", "actor-mismatch",
             "not-authorized", "target-missing", "target-blocked", "self"}

Idle == [pc |-> "idle"]

\* real and role: the session's user as this request read it.  seen: the target's
\* role as this request loaded it.
Starting == [pc : {"start", "startload"}, real : Users, role : Roles, target : Users]
Resolving == [pc : {"resolve", "load"}, real : Users, role : Roles, tk : Ticket]
Resolved == [pc : {"answer"}, real : Users, role : Roles, tk : Ticket,
             acting : BOOLEAN, mode : Modes, refusal : Refusals, seen : Roles \cup {Gone}]

Write == [tk : Ticket, role : Roles]

TypeOK ==
  /\ now \in Nat
  /\ role \in [Users -> Roles \cup {Gone}]
  /\ switch \in {"unset", "on", "off"}
  /\ key \in Keys
  /\ tickets \in SUBSET Ticket
  /\ req \in [Requests -> Starting \cup Resolving \cup Resolved \cup {Idle}]
  /\ writes \in SUBSET Write
  /\ minted \in Nat
  /\ changes \in Nat

Init ==
  /\ now = 0
  /\ role \in [Users -> Roles]
  /\ switch \in {"unset", "on", "off"}
  /\ key \in Keys
  /\ tickets = {}
  /\ req = [c \in Requests |-> Idle]
  /\ writes = {}
  /\ minted = 0
  /\ changes = 0

-----------------------------------------------------------------------------
(* The callbacks and the switch *)

\* enabled: unset means on in development and off elsewhere.
Enabled == IF switch = "unset" THEN Development ELSE switch = "on"

CanActAs(r) == r \in ActingRoles

\* canBeTarget's default: whoever may act as others is nobody's target.
CanBeTarget(r) == ~CanActAs(r)

ModeFor(r) == IF r \in FullRoles THEN "full" ELSE "readonly"

\* Mutation: the expiry is rounded up to the next second.
ExpiryLate(t) == (t + Ttl) \div Second + 1

Expiry(t) == (t + Ttl) \div Second

\* Mutation: the mode is not looked at.
BlocksWriteNever(r) == r.acting /\ r.refusal # "none"

\* blocksWrite, for a method other than GET, HEAD and OPTIONS.
BlocksWrite(r) == r.acting /\ r.mode = "readonly"

Become(c, r) == req' = [req EXCEPT ![c] = r]

-----------------------------------------------------------------------------
(* start *)

\* A person asks to act as t.  The request has read its own session first.
SendStart(c, u, t) ==
  /\ req[c] = Idle
  /\ role[u] # Gone
  /\ Become(c, [pc |-> "start", real |-> u, role |-> role[u], target |-> t])
  /\ UNCHANGED <<world, tickets, writes, minted>>

\* disabled, not-authorized, self: refused, and nothing is minted.
CheckStart(c) ==
  /\ req[c].pc = "start"
  /\ Become(c, IF Enabled /\ CanActAs(req[c].role) /\ req[c].target # req[c].real
               THEN [req[c] EXCEPT !.pc = "startload"] ELSE Idle)
  /\ UNCHANGED <<world, tickets, writes, minted>>

\* Mutation: the actor is read again for the signature, and may be gone by then.
MintTicketReread(c) ==
  /\ req[c].pc = "startload"
  /\ LET r == req[c]
         seen == role[r.target]
     IN  IF seen = Gone \/ ~CanBeTarget(seen)
         THEN UNCHANGED <<tickets, minted>>
         ELSE /\ minted < MaxTickets
              /\ minted' = minted + 1
              /\ tickets' = tickets \cup
                   {[actor |-> r.real, target |-> r.target, mode |-> ModeFor(role[r.real]),
                     exp |-> Expiry(now), key |-> key, at |-> now, as |-> role[r.real]]}
  /\ Become(c, Idle)
  /\ UNCHANGED <<world, writes>>

\* The target is loaded; missing or blocked, it refuses, else a ticket is signed.
MintTicket(c) ==
  /\ req[c].pc = "startload"
  /\ LET r == req[c]
         seen == role[r.target]
     IN  IF seen = Gone \/ ~CanBeTarget(seen)
         THEN UNCHANGED <<tickets, minted>>
         ELSE /\ minted < MaxTickets
              /\ minted' = minted + 1
              /\ tickets' = tickets \cup
                   {[actor |-> r.real, target |-> r.target, mode |-> ModeFor(r.role),
                     exp |-> Expiry(now), key |-> key, at |-> now, as |-> r.role]}
  /\ Become(c, Idle)
  /\ UNCHANGED <<world, writes>>

-----------------------------------------------------------------------------
(* resolve *)

\* A request arrives with a session and a ticket.  The ticket may be another
\* person's: it stays in the browser when the session changes hands.
SendRequest(c, u, tk) ==
  /\ req[c] = Idle
  /\ role[u] # Gone
  /\ Become(c, [pc |-> "resolve", real |-> u, role |-> role[u], tk |-> tk])
  /\ UNCHANGED <<world, tickets, writes, minted>>

\* Mutation: the switch is looked at by start only.
RefusalOfAlways(r) ==
  IF r.tk.key # key THEN "invalid-ticket"
  ELSE IF r.tk.exp * Second < now THEN "expired"
  ELSE IF r.tk.actor # r.real THEN "actor-mismatch"
  ELSE IF ~CanActAs(r.role) THEN "not-authorized"
  ELSE "none"

\* The checks resolve makes before it loads the target, in its order.
RefusalOf(r) ==
  IF ~Enabled THEN "disabled"
  ELSE IF r.tk.key # key THEN "invalid-ticket"
  ELSE IF r.tk.exp * Second < now THEN "expired"
  ELSE IF r.tk.actor # r.real THEN "actor-mismatch"
  ELSE IF ~CanActAs(r.role) THEN "not-authorized"
  ELSE "none"

\* Not honoured: the request runs as the real user, and says why.
RefusedAs(r, why, seen) ==
  [pc |-> "answer", real |-> r.real, role |-> r.role, tk |-> r.tk,
   acting |-> FALSE, mode |-> "full", refusal |-> why, seen |-> seen]

Check(c) ==
  /\ req[c].pc = "resolve"
  /\ LET why == RefusalOf(req[c])
     IN  Become(c, IF why = "none" THEN [req[c] EXCEPT !.pc = "load"]
                   ELSE RefusedAs(req[c], why, Gone))
  /\ UNCHANGED <<world, tickets, writes, minted>>

\* Mutation: whoever could be started on stays a target.
LoadTargetTrusting(c) ==
  /\ req[c].pc = "load"
  /\ LET r == req[c]
         seen == role[r.tk.target]
     IN  Become(c,
           IF seen = Gone THEN RefusedAs(r, "target-missing", seen)
           ELSE [RefusedAs(r, "none", seen) EXCEPT !.acting = TRUE, !.mode = r.tk.mode])
  /\ UNCHANGED <<world, tickets, writes, minted>>

\* The target is loaded, and checked again; the mode is the ticket's.
LoadTarget(c) ==
  /\ req[c].pc = "load"
  /\ LET r == req[c]
         seen == role[r.tk.target]
     IN  Become(c,
           IF seen = Gone THEN RefusedAs(r, "target-missing", seen)
           ELSE IF ~CanBeTarget(seen) THEN RefusedAs(r, "target-blocked", seen)
           ELSE [RefusedAs(r, "none", seen) EXCEPT !.acting = TRUE, !.mode = r.tk.mode])
  /\ UNCHANGED <<world, tickets, writes, minted>>

\* The request reads, or its write is refused, or it writes.
Respond(c) ==
  /\ req[c].pc = "answer"
  /\ \/ UNCHANGED writes
     \/ /\ req[c].acting /\ ~BlocksWrite(req[c])
        /\ writes' = writes \cup {[tk |-> req[c].tk, role |-> req[c].role]}
  /\ Become(c, Idle)
  /\ UNCHANGED <<world, tickets, minted>>

-----------------------------------------------------------------------------
(* The rest of the world *)

Change ==
  /\ changes < MaxChanges
  /\ changes' = changes + 1
  /\ UNCHANGED <<now, tickets, req, writes, minted>>

SetRole(u, r) ==
  /\ role[u] # r
  /\ role' = [role EXCEPT ![u] = r]
  /\ Change
  /\ UNCHANGED <<switch, key>>

SetSwitch(s) ==
  /\ switch # s
  /\ switch' = s
  /\ Change
  /\ UNCHANGED <<role, key>>

SetKey(k) ==
  /\ key # k
  /\ key' = k
  /\ Change
  /\ UNCHANGED <<role, switch>>

Tick ==
  /\ now < MaxClock
  /\ now' = now + 1
  /\ UNCHANGED <<role, switch, key, changes, tickets, req, writes, minted>>

-----------------------------------------------------------------------------
Handler(c) ==
  CheckStart(c) \/ MintTicket(c) \/ Check(c) \/ LoadTarget(c) \/ Respond(c)

Next ==
  \/ \E c \in Requests : Handler(c)
  \/ \E c \in Requests, u, t \in Users : SendStart(c, u, t)
  \/ \E c \in Requests, u \in Users, tk \in tickets : SendRequest(c, u, tk)
  \/ \E u \in Users, r \in Roles \cup {Gone} : SetRole(u, r)
  \/ \E s \in {"unset", "on", "off"} : SetSwitch(s)
  \/ \E k \in Keys : SetKey(k)
  \/ Tick

Spec == Init /\ [][Next]_vars

-----------------------------------------------------------------------------
(* Properties *)

Acting(c) == req[c].pc = "answer" /\ req[c].acting

\* A request runs as another user only in the browser of the ticket's own actor,
\* who may act as others by the role this very request read, and only as a user
\* who was found and may not act as others: never as oneself, never as a chain.
ActingIsAuthorised ==
  \A c \in Requests : Acting(c) =>
    /\ req[c].tk.actor = req[c].real
    /\ CanActAs(req[c].role)
    /\ req[c].seen \in Roles /\ ~CanActAs(req[c].seen)
    /\ req[c].tk.target # req[c].real

\* A write in a target's name was made with a ticket started by a user who could
\* then write while acting, and who may still act as others.
OnlyFullActorsWrite ==
  \A w \in writes : w.tk.as \in FullRoles /\ CanActAs(w.role)

\* Requests that have passed resolve's checks and have not answered.
PastCheck == {c \in Requests : req[c].pc = "load" \/ Acting(c)}

\* Switched off, the feature ends the impersonations in flight too: once the
\* requests already past the check are done, nobody acts until it is on again.
SwitchEndsActing ==
  [][~Enabled /\ PastCheck = {} => PastCheck' = {}]_vars

\* A ticket is honoured for its ttl, give or take the second its expiry is
\* rounded to: never later, and never refused as expired earlier.
Lifetime(c) ==
  req[c].pc = "resolve" =>
    /\ req'[c].pc = "load" => now <= req[c].tk.at + Ttl
    /\ req'[c].pc = "answer" /\ req'[c].refusal = "expired" =>
         now + Second > req[c].tk.at + Ttl

TicketsLiveTheirTtl == [][\A c \in Requests : Lifetime(c)]_vars

\* docs/act-as.md: "Demote a superadmin and every impersonation they have open
\* dies on their next request".  A request acts with full access only if the
\* actor's role, as the request read it, allows that.
FullModeNeedsFullRole ==
  \A c \in Requests : Acting(c) /\ req[c].mode = "full" => req[c].role \in FullRoles
=============================================================================
