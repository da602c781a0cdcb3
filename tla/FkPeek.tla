-------------------------------- MODULE FkPeek --------------------------------
(***************************************************************************)
(* The card that peeks through a foreign key (app/content/FkPeek.tsx):     *)
(* hover or focus a link and, after a delay, a card shows the row it       *)
(* points at, from a cache all links of the page share.  Timers open and   *)
(* close the card; a loading entry is awaited by every card that met it.   *)
(*                                                                         *)
(* A link is keyed by its row and column, so the grid may hand it another  *)
(* value while its card is up (ContentBrowser.tsx:324).                    *)
(***************************************************************************)
EXTENDS Naturals, Sequences, FiniteSets

CONSTANTS
  Cells,          \* links on screen
  PeekValues,     \* what they point at
  CacheMax,       \* CACHE_MAX
  MaxPeekActs     \* bound: pointer events and changes of the grid

ASSUME PeekAssumption == CacheMax \in Nat /\ MaxPeekActs \in Nat

VARIABLES
  cards,      \* each link: its value, its timers, the card and the entry in it
  cache,      \* CACHE, oldest first
  peeks,      \* loads in flight
  waits,      \* cards that await a load, with the value they were opened for
  turned,     \* history: links handed another value with the old one pending
  peekActs

peekVars == <<cards, cache, peeks, waits, turned, peekActs>>

-----------------------------------------------------------------------------
States == {"none", "dropped", "loading", "done", "failed"}
Entry == [state : States, key : PeekValues, load : Nat]

\* A card not opened yet; `due` is the value its timer was set for.
Shut(k) == [key |-> k, due |-> k, opening |-> FALSE, closing |-> FALSE, placed |-> FALSE,
            entry |-> [state |-> "none", key |-> k, load |-> 0]]

PeekInit ==
  /\ cards \in [Cells -> {Shut(k) : k \in PeekValues}]
  /\ cache = <<>> /\ peeks = {} /\ waits = {} /\ turned = {} /\ peekActs = 0

PeekAct == peekActs < MaxPeekActs /\ peekActs' = peekActs + 1

\* What a cache holds for a value: one entry at most.
EntryOf(s, k) == {s[i] : i \in {j \in 1..Len(s) : s[j].key = k}}
Cached(k) == EntryOf(cache, k)

\* A new load: after a trim there may be two for one value.
Loading(k) == [state |-> "loading", key |-> k,
               load |-> CHOOSE n \in 1..(Cardinality(peeks) + 1) : \A l \in peeks : l.load # n]

\* open: both timers go, and the delay starts.
Hover(c) ==
  /\ PeekAct
  /\ cards' = [cards EXCEPT ![c].opening = TRUE, ![c].due = cards[c].key, ![c].closing = FALSE]
  /\ UNCHANGED <<cache, peeks, waits, turned>>

\* scheduleClose, from the link or from its card.
Leave(c) ==
  /\ PeekAct /\ cards' = [cards EXCEPT ![c].opening = FALSE, ![c].closing = TRUE]
  /\ UNCHANGED <<cache, peeks, waits, turned>>

\* cancelClose: the pointer has reached the card.
StayOnCard(c) ==
  /\ cards[c].closing /\ cards[c].placed /\ PeekAct
  /\ cards' = [cards EXCEPT ![c].closing = FALSE]
  /\ UNCHANGED <<cache, peeks, waits, turned>>

\* A value that is not cached is asked for.
Fetches(k) ==
  /\ Cached(k) = {}
  /\ cache' = Append(cache, Loading(k)) /\ peeks' = peeks \cup {Loading(k)}

\* The card is placed with an entry, and waits for one that is loading.
Places(c, e) ==
  /\ cards' = [cards EXCEPT ![c].opening = FALSE, ![c].placed = TRUE, ![c].entry = e]
  /\ waits' = IF e.state = "loading" THEN waits \cup {[cell |-> c, on |-> e]} ELSE waits
  /\ turned' = IF e.key = cards[c].key /\ \A w \in waits : w.cell = c => w.on.key = e.key
               THEN turned \ {c} ELSE turned

\* The delay is over: the card shows the entry that is cached, or one it asks for.
OpenFires(c) ==
  /\ cards[c].opening
  /\ LET k == cards[c].due
     IN \/ Fetches(k) /\ Places(c, Loading(k))
        \/ \E e \in Cached(k) : Places(c, e) /\ UNCHANGED <<cache, peeks>>
  /\ UNCHANGED peekActs

CloseFires(c) ==
  /\ cards[c].closing /\ cards' = [cards EXCEPT ![c].closing = FALSE, ![c].placed = FALSE]
  /\ UNCHANGED <<cache, peeks, waits, turned, peekActs>>

\* prefetchPeek: the pointer crosses a row, and every foreign key in it is asked for.
Prefetch(k) ==
  /\ PeekAct /\ Fetches(k)
  /\ UNCHANGED <<cards, waits, turned>>

\* CACHE.set: an entry that is there keeps its place.
Stored(e) ==
  IF Cached(e.key) = {} THEN Append(cache, e)
  ELSE [i \in 1..Len(cache) |-> IF cache[i].key = e.key THEN e ELSE cache[i]]

\* trimCache: the oldest go, loading or not.
Trimmed(s) == IF Len(s) <= CacheMax THEN s ELSE SubSeq(s, Len(s) - CacheMax + 1, Len(s))

\* Mutation: a refused load leaves its entry loading.
OutcomeOnlyDone(l, fine) == [l EXCEPT !.state = IF fine THEN "done" ELSE "loading"]

Outcome(l, fine) == [l EXCEPT !.state = IF fine THEN "done" ELSE "failed"]

\* What a card that waited for a load takes from the cache: the entry for its value,
\* nothing when trimming dropped it (PeekBody then goes on saying "Loading").
Taken(s, l) ==
  IF EntryOf(s, l.key) = {} THEN {[l EXCEPT !.state = "dropped"]} ELSE EntryOf(s, l.key)

\* The cards that wait for a load.
CardsOn(l) == {w.cell : w \in {v \in waits : v.on = l}}

\* loadPeek's answer is cached, and the cards that waited for it take what is there.
PeekArrives(l, fine) ==
  LET kept == Trimmed(Stored(Outcome(l, fine)))
  IN /\ cache' = kept /\ peeks' = peeks \ {l}
     /\ waits' = {w \in waits : w.on # l}
     /\ \E e \in Taken(kept, l) :
          cards' = [c \in Cells |-> IF c \in CardsOn(l) THEN [cards[c] EXCEPT !.entry = e] ELSE cards[c]]
     /\ UNCHANGED <<turned, peekActs>>

-----------------------------------------------------------------------------
\* The grid is read again: the link stays and its value changes, or (another row,
\* another place) the link goes, with its timers and its interest in answers.
Retarget(c) ==
  /\ PeekAct /\ \E k \in PeekValues \ {cards[c].key} : cards' = [cards EXCEPT ![c].key = k]
  /\ turned' = IF cards[c].placed \/ cards[c].opening \/ \E w \in waits : w.cell = c
               THEN turned \cup {c} ELSE turned
  /\ UNCHANGED <<cache, peeks, waits>>

Unmount(c) ==
  /\ PeekAct /\ \E k \in PeekValues : cards' = [cards EXCEPT ![c] = Shut(k)]
  /\ waits' = {w \in waits : w.cell # c} /\ turned' = turned \ {c}
  /\ UNCHANGED <<cache, peeks>>

PeekSettles ==
  \/ \E c \in Cells : OpenFires(c) \/ CloseFires(c)
  \/ \E l \in peeks, fine \in BOOLEAN : PeekArrives(l, fine)

PeekNext ==
  \/ PeekSettles
  \/ \E k \in PeekValues : Prefetch(k)
  \/ \E c \in Cells : Hover(c) \/ Leave(c) \/ StayOnCard(c) \/ Retarget(c) \/ Unmount(c)

\* Timers fire, and fetch settles.
PeekSpec == PeekInit /\ [][PeekNext]_peekVars /\ WF_peekVars(PeekSettles)

-----------------------------------------------------------------------------
\* What the cards, the cache and the loads are made of.
PeekTypeOK ==
  /\ \A c \in Cells : /\ cards[c].key \in PeekValues /\ cards[c].due \in PeekValues
                      /\ cards[c].entry \in Entry
  /\ \A i \in 1..Len(cache) : cache[i] \in Entry /\ cache[i].state # "none"
  /\ peeks \subseteq Entry /\ \A w \in waits : w.cell \in Cells /\ w.on \in peeks

\* A card is about the value its link has, whatever was hovered before and whichever
\* answers are late, unless the value changed with the card up or on its way; a card
\* whose entry is loading has an answer coming; and the cache, "bounded so a long
\* session can't grow forever" (FkPeek.tsx:49), exceeds its bound only by what is
\* being loaded.
CardsShowTheirLink ==
  /\ \A c \in Cells : cards[c].placed =>
       /\ c \notin turned => cards[c].entry.key = cards[c].key
       /\ cards[c].entry.state # "none"
       /\ cards[c].entry.state = "loading" =>
            \E w \in waits : w.cell = c /\ w.on = cards[c].entry
  /\ Len(cache) <= CacheMax + Cardinality(peeks)
  /\ \A i, j \in 1..Len(cache) : cache[i].key = cache[j].key => i = j

\* No card waits for ever for an answer that is coming.  (One whose entry was trimmed
\* in the meantime has had its answer, and says "Loading" until it is hovered again:
\* state "dropped", FkPeek.tsx:60.)
PeeksComeToRest == <>[](\A c \in Cells : ~cards[c].opening /\ cards[c].entry.state # "loading")
=============================================================================
