----------------------------- MODULE ResetTokens -----------------------------
(***************************************************************************)
(* Signed tokens without a store (packages/auth/src/signedTokens.ts): the  *)
(* password-reset token, whose key mixes in the password hash of its user. *)
(* The reset route belongs to the application: it loads the user,          *)
(* verifies, and stores a new hash some time later.                        *)
(*                                                                         *)
(* A signature is kept as what its key was made of.                        *)
(***************************************************************************)
EXTENDS Naturals, FiniteSets

CONSTANTS
  TokenTtl,         \* ttlMs
  MaxTokenTime,     \* bound: the clock
  MaxTokens,        \* bound: tokens made
  MaxResets,        \* bound: resets begun
  MaxSecrets        \* bound: changes of the secret

ASSUME TokenAssumption ==
  /\ TokenTtl \in Nat /\ MaxTokenTime \in Nat /\ MaxTokens \in Nat /\ MaxResets \in Nat
  /\ MaxSecrets \in Nat

VARIABLES
  time,
  hash,       \* the user's password hash: argon2 salts it, so each one is new
  secret,     \* the configured secret, none when it is unset
  tokens,     \* tokens handed out
  resets,     \* resets begun: the token used and what it was verified against; when
              \*   stored, the hash it became and the last reset begun by then
  secrets

tokenVars == <<time, hash, secret, tokens, resets, secrets>>

-----------------------------------------------------------------------------
TokenInit ==
  /\ time = 0 /\ hash = 0 /\ secret = {0} /\ tokens = {} /\ resets = {} /\ secrets = 0

\* Mutation: the key is the secret alone.
KeyOfSecret(s, h) == <<s, 0>>

\* resetKey.
Key(s, h) == <<s, h>>

\* make: throws without a secret.
Make ==
  /\ Cardinality(tokens) < MaxTokens
  /\ \E s \in secret : tokens' = tokens \cup
       {[n |-> Cardinality(tokens) + 1, key |-> Key(s, hash), exp |-> time + TokenTtl,
        on |-> hash, with |-> s]}
  /\ UNCHANGED <<time, hash, secret, resets, secrets>>

\* verify: false without a secret; the signature under the current hash; not expired.
Verifies(tok, h) == \E s \in secret : tok.key = Key(s, h) /\ time < tok.exp

\* The route loads the user, verifies and hashes the new password ...
BeginReset(tok) ==
  /\ Cardinality(resets) < MaxResets
  /\ resets' = resets \cup
       {[n |-> Cardinality(resets) + 1, tok |-> tok.n, at |-> time, seen |-> hash,
         under |-> secret, became |-> 0, last |-> 0,
         pc |-> IF Verifies(tok, hash) THEN "verified" ELSE "refused"]}
  /\ UNCHANGED <<time, hash, secret, tokens, secrets>>

\* ... and stores it.  Nothing is verified again.
EndReset(r) ==
  /\ r.pc = "verified" /\ hash' = hash + 1
  /\ resets' = (resets \ {r}) \cup
       {[r EXCEPT !.pc = "stored", !.became = hash', !.last = Cardinality(resets)]}
  /\ UNCHANGED <<time, secret, tokens, secrets>>

\* The secret is replaced, or unset.
ChangeSecret ==
  /\ secrets < MaxSecrets /\ secrets' = secrets + 1 /\ secret' \in {{}, {secrets'}}
  /\ UNCHANGED <<time, hash, tokens, resets>>
TokenTick ==
  /\ time < MaxTokenTime /\ time' = time + 1 /\ UNCHANGED <<hash, secret, tokens, resets, secrets>>

TokenNext ==
  \/ Make \/ ChangeSecret \/ TokenTick
  \/ \E tok \in tokens : BeginReset(tok)
  \/ \E r \in resets : EndReset(r)
TokenSpec == TokenInit /\ [][TokenNext]_tokenVars

-----------------------------------------------------------------------------
\* The types of the tokens and the resets.
TokenTypeOK ==
  /\ time \in 0..MaxTokenTime /\ hash \in 0..MaxResets /\ Cardinality(secret) <= 1
  /\ \A tok \in tokens : tok.n \in 1..MaxTokens /\ tok.exp \in 0..(MaxTokenTime + TokenTtl)
  /\ \A r \in resets : r.seen <= hash /\ r.pc \in {"refused", "verified", "stored"}

\* A token is taken under the secret and the password it was made for, before it
\* expires, and only by resets that began before the first change of the password
\* after it was made was stored, whichever token made that change: two resets in
\* flight may both pass, a third does not (signedTokens.ts:108).
TokensDieWithThePassword ==
  \A r \in resets, tok \in tokens : r.tok = tok.n /\ r.pc # "refused" =>
    /\ r.seen = tok.on /\ r.under = {tok.with} /\ r.at < tok.exp
    /\ \A other \in resets :
         other.pc = "stored" /\ other.became > tok.on => r.n <= other.last
=============================================================================
