----------------------------- MODULE ActAsProofs -----------------------------
(***************************************************************************)
(* Proofs about ActAs.  What a request may do was settled by steps it took *)
(* earlier, and by the start of its ticket earlier still: the inductive    *)
(* invariant carries along what each step settled.                         *)
(***************************************************************************)
EXTENDS ActAs, Integers, TLAPS

\* What start settled about a ticket.
TicketSound(tk) ==
  /\ tk.target # tk.actor
  /\ tk.mode = ModeFor(tk.as)
  /\ tk.exp = Expiry(tk.at)

\* What a request's earlier steps settled.
StartSound(r) == r.pc = "startload" => r.target # r.real
LoadSound(r) ==
  r.pc = "load" => r.tk.actor = r.real /\ CanActAs(r.role)
AnswerSound(r) ==
  r.pc = "answer" /\ r.acting =>
    /\ r.tk.actor = r.real /\ CanActAs(r.role)
    /\ r.seen \in Roles /\ ~CanActAs(r.seen)
    /\ r.mode = r.tk.mode
HoldsTicket(r) == r.pc \in {"resolve", "load", "answer"} => TicketSound(r.tk)

RequestSound(r) == StartSound(r) /\ LoadSound(r) /\ AnswerSound(r) /\ HoldsTicket(r)

ActAsInv ==
  /\ TypeOK
  /\ \A tk \in tickets : TicketSound(tk)
  /\ \A c \in Requests : RequestSound(req[c])
  /\ OnlyFullActorsWrite

-----------------------------------------------------------------------------
(* What the sets of requests say of one *)

LEMMA RequestTyped ==
  ASSUME TypeOK, NEW c \in Requests
  PROVE  /\ req[c].pc \in {"start", "startload"} => req[c] \in Starting
         /\ req[c].pc \in {"resolve", "load"} => req[c] \in Resolving
         /\ req[c].pc = "answer" => req[c] \in Resolved
<1>1. req[c] \in Starting \cup Resolving \cup Resolved \cup {Idle}
  BY DEF TypeOK
<1>2. CASE req[c] \in Starting
  BY <1>2 DEF Starting
<1>3. CASE req[c] \in Resolving
  BY <1>3 DEF Resolving
<1>4. CASE req[c] \in Resolved
  BY <1>4 DEF Resolved
<1>5. CASE req[c] = Idle
  BY <1>5 DEF Idle
<1> QED BY <1>1, <1>2, <1>3, <1>4, <1>5

\* Nothing but the step of c itself changes c.
LEMMA BecomeOnly ==
  ASSUME TypeOK, NEW c \in Requests, NEW r, Become(c, r), NEW d \in Requests
  PROVE  req'[d] = IF d = c THEN r ELSE req[d]
  BY DEF Become, TypeOK

\* Rounding down to a second loses less than one.
LEMMA FloorBounds ==
  ASSUME NEW n \in Nat, NEW s \in Nat \ {0}
  PROVE  /\ n \div s \in Nat
         /\ (n \div s) * s <= n
         /\ n < (n \div s) * s + s
<1>1. n \div s \in Int /\ n \div s >= 0
  BY SMT
<1>2. (n \div s) * s <= n
  BY SMT
<1>3. n < (n \div s) * s + s
  BY SMT
<1> QED BY <1>1, <1>2, <1>3

LEMMA ExpiryTyped ==
  ASSUME NEW t \in Nat
  PROVE  Expiry(t) \in Nat
<1>1. t + Ttl \in Nat /\ Second \in Nat \ {0}
  BY ActAsAssumption
<1> QED BY <1>1, FloorBounds DEF Expiry

-----------------------------------------------------------------------------
(* Each action *)

LEMMA SendStartStep ==
  ASSUME ActAsInv, NEW c \in Requests, NEW u \in Users, NEW t \in Users, SendStart(c, u, t)
  PROVE  ActAsInv'
<1> DEFINE r == [pc |-> "start", real |-> u, role |-> role[u], target |-> t]
<1>1. r \in Starting
  BY DEF SendStart, ActAsInv, TypeOK, Starting
<1>2. RequestSound(r)
  BY DEF RequestSound, StartSound, LoadSound, AnswerSound, HoldsTicket
<1> HIDE DEF r
<1>3. Become(c, r)
  BY DEF SendStart, r
<1>4. TypeOK'
  BY <1>1, <1>3 DEF SendStart, world, ActAsInv, TypeOK, Become
<1>5. \A d \in Requests : RequestSound(req'[d])
  BY <1>2, <1>3, BecomeOnly DEF ActAsInv
<1> QED BY <1>4, <1>5 DEF SendStart, ActAsInv, OnlyFullActorsWrite

LEMMA CheckStartStep ==
  ASSUME ActAsInv, NEW c \in Requests, CheckStart(c)
  PROVE  ActAsInv'
<1> DEFINE go == Enabled /\ CanActAs(req[c].role) /\ req[c].target # req[c].real
           r == IF go THEN [req[c] EXCEPT !.pc = "startload"] ELSE Idle
<1>1. req[c] \in Starting
  BY RequestTyped DEF CheckStart, ActAsInv
<1>2. r \in Starting \cup {Idle}
  BY <1>1 DEF Starting
<1>3. RequestSound(r)
  <2>1. CASE go
    <3>1. r = [req[c] EXCEPT !.pc = "startload"]
      BY <2>1
    <3>2. r.pc = "startload" /\ r.target = req[c].target /\ r.real = req[c].real
      BY <1>1, <3>1 DEF Starting
    <3> QED BY <2>1, <3>2 DEF RequestSound, StartSound, LoadSound, AnswerSound, HoldsTicket
  <2>2. CASE ~go
    BY <2>2 DEF Idle, RequestSound, StartSound, LoadSound, AnswerSound, HoldsTicket
  <2> QED BY <2>1, <2>2
<1>4. Become(c, r)
  BY DEF CheckStart
<1> HIDE DEF r
<1>5. TypeOK'
  BY <1>2, <1>4 DEF CheckStart, world, ActAsInv, TypeOK, Become
<1>6. \A d \in Requests : RequestSound(req'[d])
  BY <1>3, <1>4, BecomeOnly DEF ActAsInv
<1> QED BY <1>5, <1>6 DEF CheckStart, ActAsInv, OnlyFullActorsWrite

LEMMA MintTicketStep ==
  ASSUME ActAsInv, NEW c \in Requests, MintTicket(c)
  PROVE  ActAsInv'
<1> DEFINE r == req[c]
           tk == [actor |-> r.real, target |-> r.target, mode |-> ModeFor(r.role),
                  exp |-> Expiry(now), key |-> key, at |-> now, as |-> r.role]
<1>1. r \in Starting /\ r.target # r.real
  BY RequestTyped DEF MintTicket, ActAsInv, RequestSound, StartSound
<1>2. tk \in Ticket /\ TicketSound(tk)
  <2>1. Expiry(now) \in Nat /\ now \in Nat /\ key \in Keys
    BY ExpiryTyped DEF ActAsInv, TypeOK
  <2>2. ModeFor(r.role) \in Modes
    BY DEF ModeFor, Modes
  <2> QED BY <1>1, <2>1, <2>2 DEF Starting, Ticket, TicketSound
<1>3. Become(c, Idle) /\ RequestSound(Idle)
  BY DEF MintTicket, Idle, RequestSound, StartSound, LoadSound, AnswerSound, HoldsTicket
<1>4. tickets' \subseteq tickets \cup {tk}
  BY DEF MintTicket
<1>5. minted' \in Nat
  BY DEF MintTicket, ActAsInv, TypeOK
<1> HIDE DEF tk
<1>6. TypeOK'
  BY <1>2, <1>3, <1>4, <1>5 DEF MintTicket, world, ActAsInv, TypeOK, Become
<1>7. \A d \in Requests : RequestSound(req'[d])
  BY <1>3, BecomeOnly DEF ActAsInv
<1>8. \A k \in tickets' : TicketSound(k)
  BY <1>2, <1>4 DEF ActAsInv
<1> QED BY <1>6, <1>7, <1>8 DEF MintTicket, ActAsInv, OnlyFullActorsWrite

LEMMA SendRequestStep ==
  ASSUME ActAsInv, NEW c \in Requests, NEW u \in Users, NEW tk \in tickets,
         SendRequest(c, u, tk)
  PROVE  ActAsInv'
<1> DEFINE r == [pc |-> "resolve", real |-> u, role |-> role[u], tk |-> tk]
<1>1. r \in Resolving
  BY DEF SendRequest, ActAsInv, TypeOK, Resolving
<1>2. RequestSound(r)
  BY DEF ActAsInv, RequestSound, StartSound, LoadSound, AnswerSound, HoldsTicket
<1> HIDE DEF r
<1>3. Become(c, r)
  BY DEF SendRequest, r
<1>4. TypeOK'
  BY <1>1, <1>3 DEF SendRequest, world, ActAsInv, TypeOK, Become
<1>5. \A d \in Requests : RequestSound(req'[d])
  BY <1>2, <1>3, BecomeOnly DEF ActAsInv
<1> QED BY <1>4, <1>5 DEF SendRequest, ActAsInv, OnlyFullActorsWrite

\* A refused request holds its ticket and acts as nobody.
LEMMA RefusedSound ==
  ASSUME NEW r \in Resolving, TicketSound(r.tk), NEW why \in Refusals,
         NEW seen \in Roles \cup {Gone}
  PROVE  RefusedAs(r, why, seen) \in Resolved /\ RequestSound(RefusedAs(r, why, seen))
<1>1. RefusedAs(r, why, seen) \in Resolved
  BY DEF RefusedAs, Resolving, Resolved, Modes
<1>2. RequestSound(RefusedAs(r, why, seen))
  BY DEF RefusedAs, RequestSound, StartSound, LoadSound, AnswerSound, HoldsTicket
<1> QED BY <1>1, <1>2

LEMMA CheckStep ==
  ASSUME ActAsInv, NEW c \in Requests, Check(c)
  PROVE  ActAsInv'
<1> DEFINE why == RefusalOf(req[c])
           r == IF why = "none" THEN [req[c] EXCEPT !.pc = "load"]
                ELSE RefusedAs(req[c], why, Gone)
<1>1. req[c] \in Resolving /\ TicketSound(req[c].tk)
  BY RequestTyped DEF Check, ActAsInv, RequestSound, HoldsTicket
<1>2. why \in Refusals
  BY DEF RefusalOf, Refusals
<1>3. r \in Resolving \cup Resolved /\ RequestSound(r)
  <2>1. CASE why = "none"
    <3>1. req[c].tk.actor = req[c].real /\ CanActAs(req[c].role)
      BY <2>1 DEF RefusalOf
    <3>2. /\ r \in Resolving
          /\ r.pc = "load" /\ r.tk = req[c].tk /\ r.real = req[c].real /\ r.role = req[c].role
      BY <1>1, <2>1 DEF Resolving
    <3> QED BY <1>1, <3>1, <3>2 DEF RequestSound, StartSound, LoadSound, AnswerSound, HoldsTicket
  <2>2. CASE why # "none"
    <3>1. r = RefusedAs(req[c], why, Gone)
      BY <2>2
    <3> HIDE DEF why
    <3> QED BY <1>1, <1>2, <3>1, RefusedSound
  <2> QED BY <2>1, <2>2
<1>4. Become(c, r)
  BY DEF Check
<1> HIDE DEF r
<1>5. TypeOK'
  BY <1>3, <1>4 DEF Check, world, ActAsInv, TypeOK, Become
<1>6. \A d \in Requests : RequestSound(req'[d])
  BY <1>3, <1>4, BecomeOnly DEF ActAsInv
<1> QED BY <1>5, <1>6 DEF Check, ActAsInv, OnlyFullActorsWrite

LEMMA LoadTargetStep ==
  ASSUME ActAsInv, NEW c \in Requests, LoadTarget(c)
  PROVE  ActAsInv'
<1> DEFINE q == req[c]
           seen == role[q.tk.target]
           acted == [RefusedAs(q, "none", seen) EXCEPT !.acting = TRUE, !.mode = q.tk.mode]
           r == IF seen = Gone THEN RefusedAs(q, "target-missing", seen)
                ELSE IF ~CanBeTarget(seen) THEN RefusedAs(q, "target-blocked", seen)
                ELSE acted
<1>1. q \in Resolving /\ TicketSound(q.tk) /\ q.tk.actor = q.real /\ CanActAs(q.role)
  BY RequestTyped DEF LoadTarget, ActAsInv, RequestSound, HoldsTicket, LoadSound
<1>2. seen \in Roles \cup {Gone}
  BY <1>1 DEF Resolving, Ticket, ActAsInv, TypeOK
<1>3. r \in Resolved /\ RequestSound(r)
  <2>1. CASE seen = Gone
    <3>1. r = RefusedAs(q, "target-missing", seen) /\ "target-missing" \in Refusals
      BY <2>1 DEF Refusals
    <3> HIDE DEF seen, q
    <3> QED BY <1>1, <1>2, <3>1, RefusedSound
  <2>2. CASE seen # Gone /\ ~CanBeTarget(seen)
    <3>1. r = RefusedAs(q, "target-blocked", seen) /\ "target-blocked" \in Refusals
      BY <2>2 DEF Refusals
    <3> HIDE DEF seen, q
    <3> QED BY <1>1, <1>2, <3>1, RefusedSound
  <2>3. CASE seen # Gone /\ CanBeTarget(seen)
    <3>1. seen \in Roles /\ ~CanActAs(seen)
      BY <1>2, <2>3 DEF CanBeTarget
    <3>2. RefusedAs(q, "none", seen) \in Resolved
      <4>1. "none" \in Refusals
        BY DEF Refusals
      <4> HIDE DEF seen, q
      <4> QED BY <1>1, <1>2, <4>1, RefusedSound
    <3>3. /\ acted \in Resolved
          /\ acted.mode = q.tk.mode /\ acted.pc = "answer"
          /\ acted.seen = seen /\ acted.tk = q.tk
          /\ acted.real = q.real /\ acted.role = q.role
      <4>1. q.tk.mode \in Modes
        BY <1>1 DEF Resolving, Ticket
      <4> QED BY <3>2, <4>1 DEF RefusedAs, Resolved
    <3>4. RequestSound(acted)
      BY <1>1, <3>1, <3>3 DEF RequestSound, StartSound, LoadSound, AnswerSound, HoldsTicket
    <3>5. r = acted
      BY <2>3
    <3> QED BY <3>3, <3>4, <3>5
  <2> QED BY <2>1, <2>2, <2>3
<1>4. Become(c, r)
  BY DEF LoadTarget
<1> HIDE DEF r
<1>5. TypeOK'
  BY <1>3, <1>4 DEF LoadTarget, world, ActAsInv, TypeOK, Become
<1>6. \A d \in Requests : RequestSound(req'[d])
  BY <1>3, <1>4, BecomeOnly DEF ActAsInv
<1> QED BY <1>5, <1>6 DEF LoadTarget, ActAsInv, OnlyFullActorsWrite

LEMMA RespondStep ==
  ASSUME ActAsInv, NEW c \in Requests, Respond(c)
  PROVE  ActAsInv'
<1> DEFINE r == req[c]
           w == [tk |-> r.tk, role |-> r.role]
<1>1. r \in Resolved /\ TicketSound(r.tk) /\ AnswerSound(r)
  BY RequestTyped DEF Respond, ActAsInv, RequestSound, HoldsTicket
<1>2. Become(c, Idle) /\ RequestSound(Idle)
  BY DEF Respond, Idle, RequestSound, StartSound, LoadSound, AnswerSound, HoldsTicket
<1>3. w \in Write
  BY <1>1 DEF Resolved, Write
<1>4. ASSUME r.acting, ~BlocksWrite(r)
      PROVE  w.tk.as \in FullRoles /\ CanActAs(w.role)
  <2>1. r.mode = ModeFor(r.tk.as) /\ r.mode # "readonly" /\ CanActAs(r.role)
    BY <1>1, <1>4 DEF Respond, AnswerSound, TicketSound, BlocksWrite
  <2> QED BY <2>1 DEF ModeFor
<1>5. \/ writes' = writes
      \/ r.acting /\ ~BlocksWrite(r) /\ writes' = writes \cup {w}
  BY DEF Respond
<1> HIDE DEF w
<1>6. TypeOK'
  BY <1>2, <1>3, <1>5 DEF Respond, world, ActAsInv, TypeOK, Become
<1>7. \A d \in Requests : RequestSound(req'[d])
  BY <1>2, BecomeOnly DEF ActAsInv
<1>8. OnlyFullActorsWrite'
  BY <1>4, <1>5 DEF ActAsInv, OnlyFullActorsWrite
<1> QED BY <1>6, <1>7, <1>8 DEF Respond, ActAsInv

\* A role, the switch, the key and the clock move under everyone's feet.
LEMMA WorldStep ==
  ASSUME ActAsInv, UNCHANGED <<tickets, req, writes, minted>>,
         now' \in Nat, role' \in [Users -> Roles \cup {Gone}],
         switch' \in {"unset", "on", "off"}, key' \in Keys, changes' \in Nat
  PROVE  ActAsInv'
<1>1. TypeOK'
  BY DEF ActAsInv, TypeOK
<1> QED BY <1>1 DEF ActAsInv, OnlyFullActorsWrite

-----------------------------------------------------------------------------
(* The theorems *)

\* The inductive invariant of start, stop and the actor's resolution (actAs.ts).
THEOREM ActAsInvariant == Spec => []ActAsInv
<1>1. Init => ActAsInv
  <2> SUFFICES ASSUME Init PROVE ActAsInv
    OBVIOUS
  <2>1. TypeOK
    BY DEF Init, TypeOK
  <2>2. \A c \in Requests : RequestSound(req[c])
    BY DEF Init, Idle, RequestSound, StartSound, LoadSound, AnswerSound, HoldsTicket
  <2> QED BY <2>1, <2>2 DEF Init, ActAsInv, OnlyFullActorsWrite
<1>2. ActAsInv /\ [Next]_vars => ActAsInv'
  <2> SUFFICES ASSUME ActAsInv, [Next]_vars PROVE ActAsInv'
    OBVIOUS
  <2>1. CASE \E c \in Requests : Handler(c)
    BY <2>1, CheckStartStep, MintTicketStep, CheckStep, LoadTargetStep, RespondStep DEF Handler
  <2>2. CASE \E c \in Requests, u, t \in Users : SendStart(c, u, t)
    BY <2>2, SendStartStep
  <2>3. CASE \E c \in Requests, u \in Users, tk \in tickets : SendRequest(c, u, tk)
    BY <2>3, SendRequestStep
  <2>4. CASE \E u \in Users, r \in Roles \cup {Gone} : SetRole(u, r)
    BY <2>4, WorldStep DEF SetRole, Change, ActAsInv, TypeOK
  <2>5. CASE \E s \in {"unset", "on", "off"} : SetSwitch(s)
    BY <2>5, WorldStep DEF SetSwitch, Change, ActAsInv, TypeOK
  <2>6. CASE \E k \in Keys : SetKey(k)
    BY <2>6, WorldStep DEF SetKey, Change, ActAsInv, TypeOK
  <2>7. CASE Tick
    BY <2>7, WorldStep DEF Tick, ActAsInv, TypeOK
  <2>8. CASE UNCHANGED vars
    BY <2>8, WorldStep DEF vars, ActAsInv, TypeOK
  <2> QED BY <2>1, <2>2, <2>3, <2>4, <2>5, <2>6, <2>7, <2>8 DEF Next
<1> QED BY <1>1, <1>2, PTL DEF Spec

\* Every state is well typed.
THEOREM ActAsTyped == Spec => []TypeOK
<1>1. ActAsInv => TypeOK
  BY DEF ActAsInv
<1> QED BY <1>1, ActAsInvariant, PTL

\* A request acts only for the ticket's own actor, who may act as others by the
\* role the request read, as a user who was found and may not.
THEOREM ActingAuthorised == Spec => []ActingIsAuthorised
<1>1. ActAsInv => ActingIsAuthorised
  BY DEF ActAsInv, ActingIsAuthorised, Acting, RequestSound, AnswerSound, HoldsTicket, TicketSound
<1> QED BY <1>1, ActAsInvariant, PTL

\* A write in a target's name stands on a ticket started with full access.
THEOREM WritesAreFull == Spec => []OnlyFullActorsWrite
<1>1. ActAsInv => OnlyFullActorsWrite
  BY DEF ActAsInv
<1> QED BY <1>1, ActAsInvariant, PTL

\* Once the switch is off and the requests past the check are done, nobody acts.
THEOREM SwitchIsFinal == Spec => SwitchEndsActing
<1>1. ASSUME ActAsInv, [Next]_vars, ~Enabled, PastCheck = {}
      PROVE  PastCheck' = {}
  <2> SUFFICES ASSUME NEW c \in Requests, req'[c].pc = "load" \/ Acting(c)'
               PROVE  FALSE
    BY DEF PastCheck
  <2>1. ~(req[c].pc = "load") /\ ~Acting(c)
    BY <1>1 DEF PastCheck
  <2>2. req'[c] # req[c]
    BY <2>1 DEF Acting
  <2>3. CASE \E d \in Requests : CheckStart(d) \/ MintTicket(d) \/ Respond(d)
    <3> PICK d \in Requests : CheckStart(d) \/ MintTicket(d) \/ Respond(d)
      BY <2>3
    <3>1. d = c
      BY <1>1, <2>2, BecomeOnly DEF CheckStart, MintTicket, Respond, ActAsInv
    <3>2. req'[c].pc \in {"startload", "idle"}
      <4>1. CheckStart(c) => req[c] \in Starting
        BY <1>1, RequestTyped DEF CheckStart, ActAsInv
      <4> QED BY <1>1, <3>1, <4>1, BecomeOnly
              DEF CheckStart, MintTicket, Respond, ActAsInv, Idle, Starting
    <3> QED BY <3>2 DEF Acting
  <2>4. CASE \E d \in Requests : Check(d)
    <3> PICK d \in Requests : Check(d)
      BY <2>4
    <3>1. d = c
      BY <1>1, <2>2, BecomeOnly DEF Check, ActAsInv
    <3>2. RefusalOf(req[c]) = "disabled"
      BY <1>1 DEF RefusalOf
    <3>3. req'[c] = RefusedAs(req[c], "disabled", Gone)
      BY <1>1, <3>1, <3>2, BecomeOnly DEF Check, ActAsInv
    <3> QED BY <3>3 DEF RefusedAs, Acting
  <2>5. CASE \E d \in Requests : LoadTarget(d)
    BY <1>1, <2>5 DEF LoadTarget, PastCheck
  <2>6. CASE \E d \in Requests, u, t \in Users : SendStart(d, u, t)
    <3> PICK d \in Requests, u \in Users, t \in Users : SendStart(d, u, t)
      BY <2>6
    <3>1. req'[c].pc = "start"
      BY <1>1, <2>2, BecomeOnly DEF SendStart, ActAsInv
    <3> QED BY <3>1 DEF Acting
  <2>7. CASE \E d \in Requests, u \in Users, tk \in tickets : SendRequest(d, u, tk)
    <3> PICK d \in Requests, u \in Users, tk \in tickets : SendRequest(d, u, tk)
      BY <2>7
    <3>1. req'[c].pc = "resolve"
      BY <1>1, <2>2, BecomeOnly DEF SendRequest, ActAsInv
    <3> QED BY <3>1 DEF Acting
  <2>8. CASE req' = req
    BY <2>2, <2>8
  <2> QED BY <1>1, <2>3, <2>4, <2>5, <2>6, <2>7, <2>8
          DEF Next, Handler, SetRole, SetSwitch, SetKey, Change, Tick, vars
<1>2. ActAsInv /\ [Next]_vars => [~Enabled /\ PastCheck = {} => PastCheck' = {}]_vars
  BY <1>1
<1> QED BY <1>2, ActAsInvariant, PTL DEF Spec, SwitchEndsActing

\* Only the check decides on a ticket's age.
LEMMA CheckDecides ==
  ASSUME ActAsInv, [Next]_vars, NEW c \in Requests, req[c].pc = "resolve", req'[c] # req[c]
  PROVE  Check(c)
<1>1. CASE \E d \in Requests : Handler(d)
  <2> PICK d \in Requests : Handler(d)
    BY <1>1
  <2>1. d = c
    BY BecomeOnly DEF Handler, CheckStart, MintTicket, Check, LoadTarget, Respond, ActAsInv
  <2> QED BY <2>1 DEF Handler, CheckStart, MintTicket, LoadTarget, Respond
<1>2. CASE \E d \in Requests, u, t \in Users : SendStart(d, u, t)
  BY <1>2, BecomeOnly DEF SendStart, Idle, ActAsInv
<1>3. CASE \E d \in Requests, u \in Users, tk \in tickets : SendRequest(d, u, tk)
  BY <1>3, BecomeOnly DEF SendRequest, Idle, ActAsInv
<1>4. CASE req' = req
  BY <1>4
<1> QED BY <1>1, <1>2, <1>3, <1>4
        DEF Next, SetRole, SetSwitch, SetKey, Change, Tick, vars

\* A ticket is honoured for its ttl, to the second it is rounded to.
THEOREM TicketLifetime == Spec => TicketsLiveTheirTtl
<1>1. ASSUME ActAsInv, [Next]_vars, NEW c \in Requests
      PROVE  Lifetime(c)
  <2> SUFFICES ASSUME req[c].pc = "resolve"
               PROVE  /\ req'[c].pc = "load" => now <= req[c].tk.at + Ttl
                      /\ req'[c].pc = "answer" /\ req'[c].refusal = "expired" =>
                           now + Second > req[c].tk.at + Ttl
    BY DEF Lifetime
  <2>1. CASE req'[c] = req[c]
    BY <2>1
  <2>2. CASE req'[c] # req[c]
    <3> DEFINE n == req[c].tk.at + Ttl
               e == req[c].tk.exp
    <3>1. Check(c)
      BY <1>1, <2>2, CheckDecides
    <3>2. req[c] \in Resolving /\ TicketSound(req[c].tk)
      BY <1>1, RequestTyped DEF ActAsInv, RequestSound, HoldsTicket
    <3>3. n \in Nat /\ now \in Nat /\ e \in Nat /\ Second \in Nat \ {0}
      BY <1>1, <3>2, ActAsAssumption DEF Resolving, Ticket, ActAsInv, TypeOK
    <3>4. e * Second <= n /\ n < e * Second + Second
      BY <3>2, <3>3, FloorBounds DEF TicketSound, Expiry
    <3>5. e * Second \in Nat
      BY <3>3
    <3>6. req'[c] = IF RefusalOf(req[c]) = "none" THEN [req[c] EXCEPT !.pc = "load"]
                    ELSE RefusedAs(req[c], RefusalOf(req[c]), Gone)
      BY <1>1, <3>1, BecomeOnly DEF Check, ActAsInv
    <3>7. req'[c].pc = "load" => RefusalOf(req[c]) = "none"
      BY <3>6 DEF RefusedAs
    <3>8. req'[c].pc = "answer" /\ req'[c].refusal = "expired" => RefusalOf(req[c]) = "expired"
      BY <3>2, <3>6 DEF RefusedAs, Resolving
    <3>9. RefusalOf(req[c]) = "none" => ~(e * Second < now)
      BY DEF RefusalOf
    <3>10. RefusalOf(req[c]) = "expired" => e * Second < now
      BY DEF RefusalOf
    <3> HIDE DEF n, e
    <3>11. now <= n \/ e * Second < now
      BY <3>3, <3>4, <3>5
    <3>12. e * Second < now => now + Second > n
      BY <3>3, <3>4, <3>5
    <3> QED BY <3>7, <3>8, <3>9, <3>10, <3>11, <3>12 DEF n
  <2> QED BY <2>1, <2>2
<1>2. ActAsInv /\ [Next]_vars => [\A c \in Requests : Lifetime(c)]_vars
  BY <1>1
<1> QED BY <1>2, ActAsInvariant, PTL DEF Spec, TicketsLiveTheirTtl
=============================================================================
