------------------------------ MODULE AdminList ------------------------------
(***************************************************************************)
(* The list screen (packages/admin/src/react: useAdminView, useAdminList,  *)
(* FilterBar, AdminList) over the resolver's list.                         *)
(*                                                                         *)
(* What the operator asks for (page, search, sort, filters) changes faster *)
(* than it is answered.  The search is taken up by a timer; every change   *)
(* of the query cancels the request before it; the server reads the rows   *)
(* and their number in two queries, and the table moves in between.        *)
(***************************************************************************)
EXTENDS Integers, FiniteSets

CONSTANTS
  Rows,         \* the rows the table may hold: numbers, in the view's order
  Matching,     \* the rows a search for "term" finds
  Passing,      \* the rows the operator's filter lets through
  PageSize,
  MaxAsks,      \* bound: what the operator asks for
  MaxChanges    \* bound: requests refused, and rows inserted and deleted by others

ASSUME ListAssumption ==
  /\ Rows \subseteq Int /\ IsFiniteSet(Rows) /\ PageSize \in Nat \ {0}
  /\ MaxAsks \in Nat /\ MaxChanges \in Nat

VARIABLES
  view,       \* "asked", "here" or "failed": the resolved view
  query,      \* what the next request asks for
  search,     \* the search box
  timer,      \* its 250 ms timer is running
  requests,   \* list requests in flight
  answer,     \* rows and total on screen, and the query they answer
  busy,       \* loading
  failed,     \* error
  table,
  moved,      \* history: the table changed since the answer on screen was read
  asks, changes

listVars == <<view, query, search, timer, requests, answer, busy, failed, table,
              moved, asks, changes>>
listScreen == <<view, query, search, timer, requests, answer, busy, failed>>

-----------------------------------------------------------------------------
Terms == {"", "term"}
Directions == {"default", "asc", "desc"}

Query == [page : Nat \ {0}, term : Terms, sort : Directions, filtered : BOOLEAN, tick : Nat]

\* where: the view's filter, the grant and the scope are in Rows already.
Where(q, rows) == {r \in rows : (q.term = "term" => r \in Matching) /\ (q.filtered => r \in Passing)}

Before(q, r, s) == IF q.sort = "desc" THEN r > s ELSE r < s

\* order by, limit and offset.
Page(q, rows) ==
  LET found == Where(q, rows)
      place(r) == Cardinality({s \in found : Before(q, s, r)})
  IN {r \in found : place(r) \in (q.page - 1) * PageSize .. q.page * PageSize - 1}

pageCount == LET pages == (answer.total + PageSize - 1) \div PageSize
             IN IF pages < 1 THEN 1 ELSE pages

ListInit ==
  /\ view = "asked" /\ search = "" /\ timer = TRUE
  /\ query = [page |-> 1, term |-> "", sort |-> "default", filtered |-> FALSE, tick |-> 0]
  /\ answer = [query |-> query, rows |-> {}, total |-> 0]
  /\ requests = {} /\ busy = FALSE /\ failed = FALSE
  /\ table = Rows /\ moved = FALSE
  /\ asks = 0 /\ changes = 0

\* Mutation: the effect has no cleanup.
FetchBeside ==
  IF view' = "here" /\ (query' # query \/ view # "here")
  THEN /\ busy' = TRUE
       /\ requests' = requests \cup
            {[query |-> query', cancelled |-> FALSE, stage |-> "asked", rows |-> {}, total |-> 0,
              moved |-> FALSE]}
  ELSE UNCHANGED <<busy, requests>>

\* The effect: when the query changed, the request before is cancelled.
Fetch ==
  IF view' = "here" /\ (query' # query \/ view # "here")
  THEN /\ busy' = TRUE
       /\ requests' = {[r EXCEPT !.cancelled = TRUE] : r \in requests} \cup
            {[query |-> query', cancelled |-> FALSE, stage |-> "asked", rows |-> {}, total |-> 0,
              moved |-> FALSE]}
  ELSE UNCHANGED <<busy, requests>>

ViewArrives ==
  /\ view = "asked" /\ view' \in {"here", "failed"}
  /\ failed' = (view' = "failed")
  /\ UNCHANGED query /\ Fetch
  /\ UNCHANGED <<search, timer, answer, table, moved, asks, changes>>

-----------------------------------------------------------------------------
Ask == view = "here" /\ asks < MaxAsks /\ asks' = asks + 1

Asks(q) ==
  /\ Ask /\ query' = q /\ UNCHANGED view /\ Fetch
  /\ UNCHANGED <<search, timer, answer, failed, table, moved, changes>>

\* Previous and Next wait for the list: pageCount is that of the answer shown.
CanTurn(p) == ~busy /\ p \in 1..pageCount
SetPage == \E p \in {query.page - 1, query.page + 1} : CanTurn(p) /\ Asks([query EXCEPT !.page = p])

ToggleSort ==
  Asks([query EXCEPT !.sort = IF @ = "asc" THEN "desc" ELSE "asc", !.page = 1])

\* Mutation: a filter leaves the page where it is.
RefilteredInPlace == [query EXCEPT !.filtered = ~@]

\* changeFilters: back to the first page.
Refiltered == [query EXCEPT !.filtered = ~@, !.page = 1]

\* The bar's addFilter, removeFilter and clearFilters.
ChangeFilters == Asks(Refiltered)

Refresh == Asks([query EXCEPT !.tick = @ + 1])

\* Typing restarts the timer; when it fires the request takes the search up.
SetSearch ==
  /\ Ask /\ search' \in Terms \ {search} /\ timer' = TRUE
  /\ UNCHANGED <<view, query, requests, answer, busy, failed, table, moved, changes>>

Debounced == [query EXCEPT !.term = search, !.page = 1]

TimerFires ==
  /\ timer /\ timer' = FALSE
  /\ query' = Debounced /\ UNCHANGED view /\ Fetch
  /\ UNCHANGED <<search, answer, failed, table, moved, asks, changes>>

-----------------------------------------------------------------------------
Replace(r, s) == requests' = (requests \ {r}) \cup {s}

\* Promise.all: the rows and the count, each from the table as it is then.
ReadRows(r) ==
  /\ r.stage = "asked"
  /\ Replace(r, [r EXCEPT !.stage = "rows", !.rows = Page(r.query, table)])
  /\ UNCHANGED <<view, query, search, timer, answer, busy, failed, table, moved, asks, changes>>

ReadCount(r) ==
  /\ r.stage = "rows"
  /\ Replace(r, [r EXCEPT !.stage = "counted", !.total = Cardinality(Where(r.query, table))])
  /\ UNCHANGED <<view, query, search, timer, answer, busy, failed, table, moved, asks, changes>>

\* Mutation: an answer is taken whatever was asked since.
StaleNever(r) == FALSE

Stale(r) == r.cancelled

\* A request not answered is refused: a filter the view opted out of, a grant, the
\* network.  The rows of the query before stay on screen.
ListArrives(r) ==
  /\ requests' = requests \ {r}
  /\ changes' = IF r.stage = "counted" THEN changes ELSE changes + 1
  /\ changes' <= MaxChanges
  /\ IF Stale(r) THEN UNCHANGED <<busy, answer, failed, moved>>
     ELSE /\ busy' = FALSE
          /\ failed' = (r.stage # "counted")
          /\ IF r.stage = "counted"
             THEN /\ answer' = [query |-> r.query, rows |-> r.rows, total |-> r.total]
                  /\ moved' = r.moved
             ELSE UNCHANGED <<answer, moved>>
  /\ UNCHANGED <<view, query, search, timer, table, asks>>

\* Someone inserts or deletes a row.
TableChanges ==
  /\ changes < MaxChanges /\ changes' = changes + 1 /\ moved' = TRUE
  /\ \E r \in Rows : table' = IF r \in table THEN table \ {r} ELSE table \cup {r}
  /\ requests' = {[r EXCEPT !.moved = @ \/ r.stage # "asked"] : r \in requests}
  /\ UNCHANGED <<view, query, search, timer, answer, busy, failed, asks>>

Answering == \E r \in requests : ReadRows(r) \/ ReadCount(r) \/ ListArrives(r)

ListNext ==
  \/ ViewArrives \/ TimerFires \/ Answering \/ TableChanges
  \/ SetPage \/ ToggleSort \/ ChangeFilters \/ Refresh \/ SetSearch

\* Timers fire, and fetch settles.
ListFairness == WF_listVars(ViewArrives) /\ WF_listVars(TimerFires) /\ WF_listVars(Answering)

ListSpec == ListInit /\ [][ListNext]_listVars /\ ListFairness

-----------------------------------------------------------------------------
\* What the list's state is made of.
ListTypeOK ==
  /\ view \in {"asked", "here", "failed"} /\ {query, answer.query} \subseteq Query
  /\ search \in Terms /\ {timer, busy, failed, moved} \subseteq BOOLEAN
  /\ \A r \in requests : r.query \in Query /\ r.rows \subseteq Rows /\ r.total \in Nat
  /\ Cardinality({r \in requests : ~r.cancelled}) <= 1
  /\ table \subseteq Rows /\ answer.rows \subseteq Rows /\ answer.total \in Nat

Settled == view = "here" /\ ~busy /\ ~timer

\* A list at rest that reports no error shows the answer to what its controls
\* say, whatever order the answers came in; and the rows and the total agree with
\* the table, unless it changed after they were read.
RowsAnswerTheQuery ==
  Settled /\ ~failed =>
    /\ answer.query = query /\ query.term = search
    /\ ~moved => /\ answer.rows = Page(query, table)
                 /\ answer.total = Cardinality(Where(query, table))

\* "Staying on page 7 of a result set that now has two pages shows an empty
\* table" (hooks.ts:214): an empty page means no row is found, unless rows were
\* deleted by others, or a refused request left an old total to turn pages by.
NoEmptyPage ==
  Settled /\ ~failed /\ answer.rows = {} => answer.total = 0 \/ changes > 0

\* The screen stops loading, and the search box is taken up.
ListSettles == <>[](~busy /\ ~timer)
=============================================================================
