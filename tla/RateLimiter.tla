----------------------------- MODULE RateLimiter -----------------------------
(***************************************************************************)
(* The sliding-window limiter (packages/auth/src/rateLimit.ts) as the      *)
(* login handler uses it (routes.ts): one key for the email and one for    *)
(* the address, with limits of their own and a sweep now and then.         *)
(***************************************************************************)
EXTENDS Naturals, FiniteSets

CONSTANTS
  Emails, Ips,      \* who tries to log in, and from where
  PerEmail, PerIp,  \* limits
  Window,           \* windowMs
  SweepInterval,    \* sweepIntervalMs
  MaxLimitTime,     \* bound: the clock
  MaxAttempts       \* bound: attempts

ASSUME LimiterAssumption ==
  /\ Emails \cap Ips = {} /\ PerEmail \in Nat /\ PerIp \in Nat /\ Window \in Nat \ {0}
  /\ SweepInterval \in Nat /\ MaxLimitTime \in Nat /\ MaxAttempts \in Nat

VARIABLES
  clock,
  buckets,    \* the keys in the map, each with its window and its hits (oldest first in
              \*   the code: here each with the number of the attempt that pushed it)
  lastSweep,
  tries       \* history: every attempt and what the limiter said of its keys

limitVars == <<clock, buckets, lastSweep, tries>>

-----------------------------------------------------------------------------
NoIp == ""   \* no address header
LimitInit ==
  /\ clock = Window /\ lastSweep = Window  \* so that no cutoff is negative
  /\ buckets = [k \in {} |-> 0] /\ tries = {}

\* Mutation: a bucket goes when its oldest hit is out of the window.
ExpiredByOldest(b) == b.times = {} \/
  \E oldest \in b.times : (\A h \in b.times : h.n >= oldest.n) /\ oldest.at <= clock - b.window

\* A bucket whose newest hit is out of its own window.
Expired(b) == b.times = {} \/
  \E newest \in b.times : (\A h \in b.times : h.n <= newest.n) /\ newest.at <= clock - b.window

Due == clock - lastSweep >= SweepInterval
Swept(bs) == IF ~Due THEN bs ELSE [k \in {x \in DOMAIN bs : ~Expired(bs[x])} |-> bs[k]]

\* limit: the hits of a key that are still in the window.
Hits(bs, key) ==
  IF key \in DOMAIN bs THEN {h \in bs[key].times : h.at > clock - Window} ELSE {}
Allows(bs, key, max) == Cardinality(Hits(bs, key)) < max
Pushed == [n |-> Cardinality(tries) + 1, at |-> clock]

\* The map after the call; a refused attempt is not recorded.
Limited(bs, key, max) ==
  [k \in DOMAIN bs \cup {key} |->
    IF k # key THEN bs[k]
    ELSE [window |-> Window,
          times |-> Hits(bs, key) \cup IF Allows(bs, key, max) THEN {Pushed} ELSE {}]]

\* login: both keys are counted, whatever the first one says.
Attempt(email, ip) ==
  /\ Cardinality(tries) < MaxAttempts
  /\ LET first == Swept(buckets)
         second == Limited(first, email, PerEmail)
     IN /\ buckets' = IF ip = NoIp THEN second ELSE Limited(second, ip, PerIp)
        /\ tries' = tries \cup
             {[n |-> Cardinality(tries) + 1, at |-> clock, email |-> email, ip |-> ip,
               emailOk |-> Allows(first, email, PerEmail),
               ipOk |-> ip = NoIp \/ Allows(second, ip, PerIp)]}
  /\ lastSweep' = IF Due THEN clock ELSE lastSweep
  /\ UNCHANGED clock

LimitTick ==
  /\ clock < MaxLimitTime /\ clock' = clock + 1 /\ UNCHANGED <<buckets, lastSweep, tries>>

LimitNext == LimitTick \/ \E email \in Emails, ip \in Ips \cup {NoIp} : Attempt(email, ip)
LimitSpec == LimitInit /\ [][LimitNext]_limitVars

-----------------------------------------------------------------------------
\* The types of the buckets and the attempts.
LimitTypeOK ==
  /\ clock \in Nat /\ lastSweep \in 0..clock /\ DOMAIN buckets \subseteq Emails \cup Ips
  /\ \A k \in DOMAIN buckets : \A h \in buckets[k].times : h.at \in 0..clock
  /\ \A a \in tries : a.n \in 1..MaxAttempts /\ a.at <= clock

\* The hits of one key before an attempt and within its window.
Counted(a, hit(_)) == Cardinality({b \in tries : hit(b) /\ b.n < a.n /\ b.at > a.at - Window})

\* Sweeping, forgetting old hits and not recording refused ones never show: an email
\* or an address is refused exactly when as many of its attempts as the limit were
\* let through by it during the window before (rateLimit.ts:44).
LimiterIsASlidingWindow ==
  \A a \in tries :
    /\ a.emailOk <=> Counted(a, LAMBDA b : b.email = a.email /\ b.emailOk) < PerEmail
    /\ a.ip # NoIp => (a.ipOk <=> Counted(a, LAMBDA b : b.ip = a.ip /\ b.ipOk) < PerIp)
=============================================================================
