# A verification development for allodium

TLA+ modules, TLC configurations and TLAPS proofs for
[allodium](../src/README.md), a TypeScript admin framework over PostgreSQL. The
models follow the code statement by statement where it awaits; the properties
are about what interleavings, failures and stale reads can do to it.

`PROJECT.json` lists every component, run, mutant, hazard, finding and theorem,
and maps each definition to the source lines it models. This file explains them.

## The system

Allodium is a set of libraries and one application:

| package | what it is |
|---|---|
| `packages/auth` | sessions, login/refresh/logout handlers, permission matrix, "act as", rate limiting, signed tokens |
| `packages/admin` | the resolver (lists, records, writes under grants), metadata cache, view files, HTTP handler, uploads, React hooks |
| `packages/db`, `packages/storage` | pool, wire format, errors; object storage and image addresses |
| `apps/console` | the staff console: schema changes, view editor, permission matrix, files, SQL console |
| `packages/from-directus`, `dev`, `scripts` | migration helper, seed data, build scripts |

The packages run inside somebody's Node processes (several of them, in general)
in front of one PostgreSQL database. A process handles many requests at once and
switches between them at every `await`. Nothing is locked in the process; what
protects shared state is the WHERE clause of a statement, a transaction, or
nothing. Three kinds of copy of the database live outside it: caches in process
memory (grants, table metadata, console catalog), tokens and tickets in
browsers, and forms and lists in React state. Most of what is hard in this code
is one of these copies being used after the original has moved.

### Inventory

**auth: session store** (`sessions.ts`). State: the `sessions` table, one row per
session with the hashes and expiries of one access and one refresh token and the
surface (`origin`) it belongs to. Operations: `mint` (INSERT), `rotate` (SELECT,
UPDATE, lazy sweep), `resolveUser`, `revoke` (DELETE by either hash),
`revokeAllForUser`. Hard: two tabs refreshing with one token; logout racing
refresh; suspension between two statements; the sweep deleting other people's
rows. Correct when: a refresh token is exchanged at most once, no live session
disappears unless somebody ended it, no ended session returns, and no session of
one surface is reached from another.

**auth: login, refresh, logout, me handlers and cookies** (`routes.ts`,
`cookies.ts`). State: none of their own; three cookies per surface in the
browser. Each handler awaits the store one to three times and then sets, clears
or leaves the cookies. Hard: answers lost or reordered; an error after a
statement has committed. Correct when: a browser whose tabs raced ends up with
the pair its session has, and a logout that says it is done is done.

**auth: access policy** (`access.ts`). Pure: grants and an actor in, a decision
out. Hard: combining roles, unreadable filters, missing claims. Correct when: a
decision never lets through a row no grant allows, and an extra role takes
nothing away.

**auth: grant loader** (`grants.ts`). State: one cache slot, 30 s. Operations:
`policy`/`grants` (load), `rolesFor`, `actorFor` (uncached), `refresh`. Called by
every request the resolver gates. Hard: overlapping loads, edits and `refresh`
while a load is in flight. Correct when: an edited matrix is in force within a
bounded time, and at once after `refresh`.

**auth: act as** (`actAs.ts`). State: a signed ticket in a cookie; nothing in the
database. Operations: `start`, `resolve` (each awaiting the application's
callbacks), `blocksWrite`. Hard: the actor, the target, the switch, the secret
and the clock all move between `start` and a `resolve`, and between a resolve's
own awaits. Correct when: authority is that of the live session, never the
ticket's.

**auth: rate limiter** (`rateLimit.ts`): buckets in process memory, a sweep at a
size limit. Correct when: no more than `max` attempts pass in a window, whatever
the sweep does. **signed tokens and reset tokens** (`signedTokens.ts`): stateless;
a reset token is keyed on the current password hash, so it should work once.
**passwords, client address** (`passwords.ts`, `ip.ts`): pure.

**admin: introspector** (`introspect.ts`): per-table metadata, 5 s, with
`invalidate` racing loads. **views and registry** (`views.ts`, `registry.ts`):
view files read from a directory the console writes to. **resolver**
(`resolver.ts`): `list`, `read`, `options`, `create`, `update`, `remove`, link
synchronisation; grants are applied in the SQL of each. Hard: READ COMMITTED
interleavings of two editors, links the reader was not shown, page and total read
apart. **masking** (`masking.ts`): pure. **HTTP handler** (`routes.ts`): upload
puts bytes, then inserts a row, and compensates; `onWrite` runs after commit.
**React hooks** (`hooks.ts`): answers arrive out of order; the record under a form
changes while it loads or saves. **React components** (`components.tsx`),
**view documents** (`view.ts`): rendering and parsing.

**console: view store** (`lib/views.ts`) and the builder over it (`app/admin-builder`):
save, atomic replace, delete, against concurrent saves and readers. **schema changes** (`api/schema/ddl`): preview, then
execute a confirmed statement against a schema that may have moved. **catalog
cache** (`lib/catalog.ts`): 2 s; it caches the promise, so, unlike the grant
loader, a load already in flight cannot overwrite an invalidation. **permission
matrix** (`api/roles/permissions`, `RolesAdmin.tsx`): saves one role's whole matrix,
row by row. **SQL console and guard** (`lib/sql-guard.ts`): a scanner that admits one
statement. **content, users and files** (`app/content`, `app/users`, `app/files` over
`lib/dml.ts`, `api/users`, `api/files`): grids and drawers, each a copy of rows that
others write; writes by primary key; a delete that counts references first. Hard: an
answer that arrives when the screen shows something else, inputs that outlive the row
they were filled from, a URL that changes after the click. Correct when: what is shown
answers what is asked now, and what is saved was typed for what it is saved to.
**pages and builders**: UI.

### How the parts interact

- A browser calls an auth handler; the handler calls the session store, then
  writes the cookies. Every other request goes through `resolveUser`, then (if
  wired) through act as, then asks the grant loader for a policy and the
  policy for a decision, and the resolver ANDs the decision's scope to its SQL.
- The console edits what the libraries cache: the permission matrix (grant
  loader), the schema (introspector, catalog), the view files (views).
- Nothing notifies across processes: `refresh`, `invalidate` and
  `invalidateCatalog` reach the process they are called in; elsewhere the
  caches' times to live are the only bound.

## Modules

| module | models | role |
|---|---|---|
| `SessionLeases` | the promises of `SessionStore` (sessions.ts:30-88) | abstract specification |
| `Sessions` | session store + handlers + cookies + browsers | detailed specification, implements `SessionLeases` |
| `SessionsProofs` | | theorems about `Sessions`, its lineages of pairs included |
| `AccessPolicy` | `can` and `substitute` | pure operators and their reference |
| `GrantLoader` | the cache around the matrix, extends `AccessPolicy` | specification |
| `GrantProofs` | | theorems about `AccessPolicy` and `GrantLoader` |
| `ActAs` | `start`, `resolve`, `blocksWrite` | specification |
| `ActAsProofs` | | theorems about `ActAs` |
| `ResolverWrites` | `create`, `update`, `remove`, `syncLinks`, `transact` of the resolver, and the PostgreSQL locks they meet | specification |
| `AdminForm` | `useAdminForm`, the form's inputs, `read` and `options` of the resolver, the record routes | specification |
| `AdminList` | `useAdminView`, `useAdminList`, `FilterBar`, `list` of the resolver | specification |
| `ContentBrowser` | the console's grid, its URL, its drawer's place, `/api/content/rows` and `/row` | specification |
| `RowForm` | the form in that drawer and its relation picker | specification |
| `FkPeek` | the card that peeks through a foreign key, and its cache | specification |
| `ContentDml` | what `lib/dml.ts` answers to one request under a masking policy | specification |
| `RoleMatrix` | the permission matrix on screen and its save | specification |
| `UserDrawer` | the users screen and its routes | specification |
| `ColumnEditor` | the schema screen's column editor, its previews and operations | specification |
| `FileStore` | bytes and rows of files: upload, serve, remove, the console's delete, the files screen | specification |
| `ViewStore` | view files, their writers and readers, the builder's draft | specification |
| `SchemaChanges` | preview and run of a DDL statement, the catalog cache | specification |
| `Introspector` | the admin runtime's two metadata caches | specification |
| `ResolverProofs` | | theorems about `ResolverWrites` |
| `RateLimiter`, `ResetTokens` | `rateLimit.ts` as login uses it; reset tokens of `signedTokens.ts` | specifications |
| `MCSessions`, `MCGrantLoader`, `MCActAs`, `MCResolverWrites` | | instances for TLC |
| `MCScreens`, `MCStores` | the nine screens; the six things servers keep outside the tables | compositions for TLC |
| `StoresProofs` | | theorems about the six parts of `MCStores` and their composition |
| `FormsProofs` | | invariants of `AdminForm`, `AdminList`, `RowForm`, `ColumnEditor`, `RoleMatrix` |
| `ConsoleProofs` | | invariants of `ContentBrowser`, `UserDrawer`, `FkPeek`, and the lemmas about `ContentDml` |
| `ScreensProofs` | | the theorems about the composition `MCScreens`, from the two before |

A definition commented `Mutation:` is never part of a specification. It is the
definition next to it with a plausible bug, kept to show that the properties
notice: `PROJECT.json` pairs each property with the mutation that violates it. Where a
run's property combines those of several modules, it lists one of them; the other
mutations violate the same property through its other conjuncts.

### Sessions

One action is one database statement of one handler, because that is where the
code awaits. `Requests` are handler invocations; several tabs of one browser are
several requests sharing a jar.

| code | model |
|---|---|
| row of `sessions` (007-sessions.sql) | `Row`; `id` names the session by its first pair |
| access and refresh token, and their hashes | a `Pair`: drawn, stored and set together everywhere, so one number |
| `newToken` (random) | `NewPair`, the next unused number |
| `live` + `originClause` (sessions.ts:153-171) | `Live` |
| `rotate` | `RotateSelect`, `RotateUpdate`, `RotateSweep`; `at` is the `now` captured once |
| `mint`, `revoke`, `revokeAllForUser`, `resolveUser` | the actions and operator of those names |
| handlers | `SendLogin` .. `Welcome`, `SendRefresh` .., `SendLogout` .. |
| `SessionCookies.set / clear` | `JarEffect`, applied by `Deliver` |
| a statement that throws | `ServerError`, `RevokeFails`, the second branch of `RotateSweep` and `Welcome` |

The network may lose an answer, a person may clear cookies or carry one to
another surface, an administrator may suspend accounts or revoke sessions, at any
time. `verifyPassword` is a nondeterministic answer. A statement that fails is
taken not to have committed. A browser applies the three cookies of one answer
together. Left out because they touch no state: cross-site refusal, missing fields
or cookies; 429 is `RateLimiter`'s; also mint's `ttlMs` override, which no caller uses.

### AccessPolicy and GrantLoader

`AccessPolicy.Can` is `can()`: superuser branch, applicable grants, unrestricted
grant wins, one distinct filter is honoured, several refuse, a missing claim
refuses. A predicate is "column = value"; the other operators of a filter are passed
through to SQL untouched and change nothing about the decision. `RowsOf` gives a
decision its meaning (the rows it lets through) and `RowsMay` is the reference: the
union of what each grant allows alone.

`GrantLoader` splits `load` where it awaits: `Ask` (the cache test), `Answer` (the
database reads the matrix), `Store` (rows arrive, are cached with that time and
returned), `QueryFails`. `edits` records every content the matrix had and when, so a
cached copy is a version number. Roles are read uncached and separately, so the
decision properties quantify over every actor, for each matrix a call is served.

### ActAs

`start` is `SendStart` (the actor as its session read it), `CheckStart` (switch,
`canActAs`, self), `MintTicket` (target loaded and checked, ticket signed).
`resolve` is `SendRequest`, `Check` (switch, signature, expiry, actor, `canActAs`, in
the code's order), `LoadTarget` (target loaded and checked again, mode taken from
the ticket), and `Respond` is the caller's use of `blocksWrite`. Between any two of
them roles, users, switch, secret and clock move (`SetRole`, `SetSwitch`, `SetKey`,
`Tick`). Any minted ticket may be presented by any session. A signature is the key it
was made with. `exp` is in whole seconds (`Second` ticks), as in the code.
`canActAs` and `mode` are callbacks: modelled as the documentation wires them,
predicates of a user's role. `canBeTarget` is the default.

### ResolverWrites

One action is one statement of a transaction: `InsertRow`, `UpdateRow` or `SelectRow`,
then `AssertWithinGrant`, then `syncLinks` as `ReadLinks`, `DeleteLinks` and one
`InsertLink` per new link (`add` gives the order the client submitted, any order), then
`Commit`. `remove` is the one statement `RemoveRow`. `Send` stands for what happens
before the transaction: `partition`, and `gate`, which gives the scope of the actor's
grant. A scope is one owner's rows or every row; the column a grant restricts is all of
a row that is modelled, and `Same` is an update of its other columns.

PostgreSQL is modelled as these statements meet it at READ COMMITTED, the default, with
what is uncommitted kept in the transaction: an UPDATE or DELETE waits for the lock
(`holder`) of a row it found and looks again; a SELECT waits for nothing; statements on
links wait for uncommitted changes of the same links; an INSERT of a link to a record
that is gone fails; a cycle of waits is broken by failing one member. A remove waits for
the record's links before it takes the row, which in PostgreSQL it does the other way
round; the deadlocks that order adds end as `StatementFails` does. Each link carries the
number of the request that inserted it, for its payload. Left out: a driver that has no
`connect()`, where `transact` runs without a transaction; several link fields in one
save, which are reconciled one after the other.

### The screens

`MCScreens` opens one screen per behaviour (`part`); they share no state, so checking
them together checks each. Their modules follow one scheme. An effect with its clean-up
is a set of requests in flight, some of them cancelled; an answer is a step of its own
that may come at any time, in any order, or be an error; a timer is a flag. A server
handler that runs one statement is one step, apart from the arrival of its answer; where
it reads twice (`list`'s rows and count) it is two. State that React keeps is a variable
of the same name; what a render computes from it is an operator. History variables record
what the operator did, so that a property can say that an edit was theirs.

| module | code to model |
|---|---|
| `AdminForm` | `config.id` is `formId`, the two effects of `useAdminForm` are the loads, `setField`, `save`, `remove`, `reset` the actions `SetField`, `Save`, `Delete`, `Discard`; `FileInput`'s upload sets its field when it is answered, whichever record is open; every value carries the record it belongs to |
| `AdminList` | `query` and `search` with the 250 ms timer (`TimerFires`), a request per change (`Fetch`), rows and count read apart; `Refiltered` is what a change of filters does to the page |
| `ContentBrowser` | a click asks the router (`route`), `RouteArrives` changes the URL; rows are paired with the table they came from (`Fresh`); the drawer holds a row and writes to the URL's table |
| `RowForm` | `fields` with their dirty flags, `submit` sends the dirty ones; the picker is a search with a pause, its answers numbered |
| `FkPeek` | `CACHE` is a sequence, oldest first; a link's two timers, the card, and the entry it holds; a card waits for the load it met; `Places` is what the delay ends in, `Taken` and `CardsOn` what an answer does |
| `ContentDml` | no concurrency: each answer of `lib/dml.ts` as a function of the table's rows (`Answer`, with `Ranking` the order in which a card picks its columns), so that `SecretsStaySecret` can compare the answer over the table with the one over the table with its masked columns blanked |
| `RoleMatrix` | `saved` and `staged` per editor, the route's transaction table by table, reload after save |
| `UserDrawer` | the drawer's row is the list's, its inputs follow the user (`Resync`), a save sends what differs from the row |
| `ColumnEditor` | the column is looked up by name in the table selected (`On`); `Turns` is the reset effect together with mounting, unmounting and the previews' clean-up; a column has an identity besides its name |

What the models show beside their properties, and a reader of the code should know:
a refused load of record B leaves A's edits on screen under B's id, and saving writes
them there; the late answer of a save, or of an upload, lands in whatever record is open;
a form that turns to a new record while it loads stays loading; a list keeps its old rows
when a request is refused; the clamp of a page past the end can undo a click on another
table; Escape in the relation picker closes the drawer too, with what was typed; a user
reloaded after somebody else's change makes an untouched field count as edited, and Save
puts it back; the answer of a delete closes whichever user is open; cells ticked while
a save of the matrix is on its way are gone after the reload; of two overlapping saves of a
matrix the second may leave a grant it meant to take away, because its DELETE found no row
yet; ticking one linked record in the form sends the options offered that are ticked
(components.tsx:300) and `syncLinks` deletes every other link (resolver.ts:1130), so links the
reader may not see are gone, and links others changed since the form was loaded are put back;
the cards' cache is never invalidated, an entry
trimmed while its answer was on its way leaves its card at "Loading" until it is hovered again, and a link that is handed another value shows
the old row; a column editor keeps what was typed when the table selected beside it has a
column of the same name and attributes, so that Apply alters that one; the answer of a
rename turns the editor to the new name, whatever was opened meanwhile.

### The stores

`MCStores` composes six in the same way.

`FileStore`: a request is a program counter over its awaits: bytes put (`part`, then
`whole`), row inserted, bytes taken back on failure, hook called; row deleted, bytes
unlinked. Any await may fail, a statement may be carried out and reported as failed,
and `CrashOf` ends a request between any two. `linked` stands for every column that
refers to a file. The files screen adds the drawer with its title.

`ViewStore`: a file is absent, partly written or whole, with a document of three keys: the
field list with its displays, a title (a key the builder owns) and a sort (one it has no
control for).
`save` writes a temporary file and renames it, or, when that fails for good, writes in
place; readers read again a few times. The builder's draft and pruning are operators, so
that `ViewSavesChangeOnlyWhatWasEdited` compares what the resolver shows before and after.
A definition that lists no fields is shown by the resolver as the columns
(`impliedFields`), while the builder opens it from `proposeView`, which has every detected
many-to-many (`ViewLinks`) and a guessed display for every foreign key (`ViewForeign`,
`labels`) as well, all checked (`Drafted`).
Such a save can still surprise: the first one of a view without a list, made to change its
title, puts those many-to-many fields on the screen and displays on its foreign keys
(view-builder.ts:82 and 94, AdminBuilder.tsx:103), where the editor says only that the list
is written out (AdminBuilder.tsx:373); `fields: []` is pruned into "every column", a sort by a
column that is not on screen is dropped, and the answer of a save is applied to whichever
draft is open. Left out: a proposal that is refused, with which such a view would open empty.

`SchemaChanges`: the database is the number of changes committed. Catalog loads are stored
in the slot when they start and see two queries' worth of schema; a preview depends on the
catalog for one statement (a join table's key types) and not for another. Run sends the SQL
shown, the route builds again and refuses when it differs. The refusal brings the new SQL,
which the client drops (ddl/route.ts:116 says it is shown); a COMMIT whose answer is lost
is not followed by `invalidateCatalog`.

`Introspector`: a call of `table()` asks for columns, then enums, each possibly from a
cache; what it brings is stamped with the time and the number of invalidations when it was
asked. `Slowest` bounds a call's wait, an assumption built into the clock's step. Nothing
in the repository calls `invalidate()`; enum values may be two lifetimes old.

`RateLimiter` and `ResetTokens`: the map with its sweep over a clock, a bucket being the set of
its numbered hits, against the plain definition of a sliding window over the history of attempts; a signature as what its key
was made of, against a password, a secret and a clock that change. An attempt refused for
its address has already consumed one of its email's.

## Runs

| run | question | bounds | states |
|---|---|---|---|
| `session_races` | do tabs of one browser racing login, refresh and logout stay consistent, and does the browser recover? | 1 user, 1 surface, 3 handlers in flight, 4 requests, 1 lost answer, clock stopped | 464 k |
| `session_scope` | do surfaces, expiry, the sweep and carried cookies stay apart, and is `SessionLeases` implemented? | 2 surfaces, 2 handlers, 3 requests, 4 clock values | 1.06 M |
| `session_logout` | does a logout answered 200 end the session? (it need not) | 2 handlers, 3 requests | stops at the counterexample |
| `grants` | does any decision widen, does a role take away, how stale may a matrix be? | 6 matrices, 2 calls, 2 versions, ttl 1, query 1, clock 3 | 446 k |
| `grants_refresh` | does `refresh` show every later call the edit? (it need not) | same | stops at the counterexample |
| `act_as` | who acts, who writes, when does it end? | 2 users, 3 roles, 2 keys, 2 requests, 1 ticket, 2 changes, clock 3 | 2.5 M |
| `act_as_demotion` | does a demoted actor lose full access? (it need not) | same | stops at the counterexample |
| `resolver_writes` | do overlapping writes respect the grant, reconcile links and end? | 1 record, 2 owners, 2 scopes, 2 far records, 2 transactions | 294 k |
| `resolver_links` | does a save leave exactly the links submitted? (it need not) | same | stops at the counterexample |
| `admin_client` | is what a screen shows the answer to what it asks, and what it saves what was set in it? | per screen: 2 records, tables, users, columns or links; 2 to 4 actions of the operator; 1 or 2 changes by others, failures or lost answers; 3 links, one of them not shown | 754 k |
| `content_writes` | do writes from the content drawer hit the row that was opened? (they need not) | 2 tables with the same 2 keys, 3 clicks | stops at the counterexample |
| `server_stores` | do files, views, caches, limits and tokens keep their promises through failures and crashes? | 2 to 4 requests and 1 failure each, clocks past two lifetimes; a view of 2 columns and 1 many-to-many | 2.7 M |

Why these bounds are enough. Every race listed under hazards is between two
statements of two handlers, and a third brings in the bystander (a logout during
two racing refreshes); `session_races` has three handlers and one request more to
recover with. It stops the clock because expiry has its own run: `session_scope`
has a clock long enough for an access token, then a refresh token, then the
sweep's grace to pass. `grants` needs one load older than an edit and one younger,
hence two calls and two versions; its matrices pair two roles in each way their
filters can relate (one, alike, different, unrestricted, unreadable, both
unreadable), and the clock passes the ttl and the flight bound. `act_as` needs a
ticket, a second request to overlap, and two changes: one to make a ticket stale
and one to undo it. The clock runs past a ticket's expiry in both halves of a
second. In `resolver_writes` records meet only through their own row and links, so
one is enough; two far records let two saves insert the same links in opposite orders,
and the record may be there, with any links, or be created. On a screen, a hazard takes an action,
a second that overtakes its answer, and one more that uses what was left behind; two of
each kind of thing let them differ; a page holds one row, so that two rows make two pages.
In `server_stores` a file needs two requests that cross and one failure; a limiter needs
two emails behind one address and a clock past two windows and a sweep; a token needs two
resets in flight and a third after them; the introspector's clock passes two lifetimes.
Each mutation is refuted within these bounds, which shows the cases arise. Bounds are `Max...` constants and stand in guards; the theorems hold for
every value of them.

Symmetry is used only over interchangeable requests and calls, and in no run with a
liveness property. Deadlock is checked except where the system really may stop: in
`act_as` every user may have been deleted, in the resolver's runs nobody is obliged to
write, nor to go on using a screen, nor to ask a server for anything. There `WritesEnd` shows that no transaction is stuck.

### Properties, and what they say of the code

*Sessions.* `SingleUse`: one refresh token is exchanged at most once, though both
SELECTs of a race find the row (the UPDATE's WHERE decides). `SessionHeld`: every
session in the table is reachable by somebody, in a jar or in an answer on its way,
unless it was abandoned by a logout, a lost answer or cleared cookies.
`LogoutMissesOnlyRotated`: a logout answered 200 leaves its session alive only if
that session's pair had been rotated before the DELETE. `NoRevival`: an ended session
does not come back. `SuspensionHolds`: once an account is suspended, no login or refresh gets
past the check. `HeadOfLineage`, `DeadPairsResolveNothing`: the table holds the newest
pair of each session and older ones resolve nothing. `AnswerStaysOnSurface`: no handler
hands out another surface's session. `OnlyRevocationEndsLiveSession`: a live session
leaves the table only by being revoked, never by the sweep. `LeasesSpec`: the store
implements `SessionLeases`. `JarCatchesUp`: a browser whose refreshes raced ends up
holding the pair its session has, or none.

*Grants.* `NoWidening`, `RolesAdd` (with the documented exception that two different
restrictions refuse each other), `QuietRefreshShowsEdits`, and `EditsTakeEffect`: no
call is served a matrix replaced `MaxFlight + Ttl` or more ago, however loads overlap.
The last is the true bound: a load stores its rows under the time they arrived, so a
slow query is added to the ttl.

*Act as.* `ActingIsAuthorised`, `OnlyFullActorsWrite`, `SwitchEndsActing`,
`TicketsLiveTheirTtl`, as stated in the module.

*Resolver writes.* `ChangesStayInGrant`: whatever becomes of a row is the work of one
request whose grant covers it as it was and as it is, though the WHERE, the write and
the second look are separate statements and either may wait. `SavesReconcile`: a save
nothing crossed leaves exactly the submitted links, and a save that writes the row can
only be crossed by one that does not, because the row's lock keeps the others out.
`PayloadSurvives`: no link that stays is replaced. `WritesEnd`: no refusal, failure or
deadlock leaves a lock that blocks the rest.

*Screens* (`admin_client`). A run's property may be the conjunction of what its modules
state, because the modules share no state. `AnswersFitTheScreen`: a list at rest shows the
page, search and filters asked for last, rows and total agreeing (`RowsAnswerTheQuery`), and
filters never strand it on a page that is gone (`NoEmptyPage`), both only as long as others
left the table alone, because nothing in the code joins the two reads; a
card is about its link's value, and one that is loading has an answer coming unless its
entry was trimmed (`CardsShowTheirLink`); a picker's rows were found by the term in its box
(`PickerShowsMatches`). `SavesSpareTheRest`: a save changes only what was set in the form
it comes from, and others' writes to the rest stay (`RecordSaveSpares`, `RowSaveSpares`).
Links are one field. A save that toggled none leaves every link, those the reader may not
see included; one that toggled an option leaves the other options offered as they were, and
takes all the links that were never shown. A matrix is saved whole or not at all: what is
stored after the commit is what was sent, except that when another save overlapped it a grant
it meant to take away may be there, put in by the other (`SaveIsWhole`). `EditsWereTyped`: a user's save sends what was
typed for that user (`IdentitySavesWhatWasTyped`), an operation on a column what was typed
for that column (`AppliesWhatWasTyped`), but for the exceptions listed above, which the
history variables name. `NothingToSaveMeansStored`: a form with nothing
to save shows the row (`CleanFormMatchesRow`), a matrix at rest and clean is the role's
(`DirtyBarTellsTruth`). `StraysNeedAMove`: the grid's own rows never put the drawer over
another table. `SecretsStaySecret`: no answer depends on a masked column.
`ScreensComeToRest`: a form stops loading, a list settles, a grid rests on a page that
exists, and a card gets its answer; what it says then is "Loading" still if its entry was
trimmed from the cache while the answer was on its way (state `dropped`).

*Stores* (`server_stores`). `StoredIsWhole`: a row has all its bytes, nobody is served a
part, a refused upload leaves neither bytes nor row (`FilesAreWhole`,
`RefusalsLeaveNothing`), and a reader calls a view absent or broken only when it is
(`ReadersGetWholeDocuments`). `StoresKeepTheRest`: the console deletes no file a row
referred to when it looked (`DeletesSpareTheLinked`; a reference made between the look and
the DELETE goes with it, and the code takes that risk), and a view's save changes only what
was edited (`ViewSavesChangeOnlyWhatWasEdited`), with two exceptions: the first save of a
view that listed no fields adds what the builder proposes beyond the columns, and one with
nothing left on the screen is written as one with every column.
`SchemaChangesAreSeen`: no request works from a catalog older than a change that was
answered here, and what runs is what was shown (`OurChangesAreSeen`); `invalidate` forgets,
but for calls that were waiting (`InvalidateForgets`); metadata has a greatest age
(`MetadataAges`). `AttemptsAndTokensRunOut`: an attempt is refused exactly when the window
before it is full, sweep or no sweep (`LimiterIsASlidingWindow`); a token is taken only by
resets that began before the first change of password (`TokensDieWithThePassword`).

### Fairness

In `session_races`: `WF_vars(Handler(c))` and `WF_vars(Deliver(c))` for each
request. Node runs the continuation of every promise that settles and PostgreSQL
answers or fails, so a started handler moves; an answer the network does not lose
arrives. Nobody is obliged to send, suspend, revoke or let the clock run.

In `resolver_writes`: `WF_vars(Statement(c))` for each request. PostgreSQL runs a statement
that waits for nothing and breaks deadlocks; with a bounded number of requests a lock
cannot be taken away from a waiter for ever, which PostgreSQL's lock queues guarantee
in general.

In `admin_client`: `fetch` settles, timers fire and the router changes the URL, each as one
`WF` per screen over its own variables (`Network`; `ViewArrives`, `TimerFires` and
`Answering`; `Settling`; `PeekSettles`). An error is an answer. Nobody is obliged to click
or to change the database; what they may do is bounded, and without a bound a screen need
not rest. `server_stores` checks safety only and assumes no fairness.

## Findings

Five places where the code does something other than its own text says. Each is a
run TLC refutes, and a run beside it shows the weaker property that does hold.

1. **A logout can leave its session alive** (`session_logout`). `revoke` deletes by the
   presented hashes and ignores the row count; a refresh of another tab that rotated
   first makes it match nothing, and the answer is still 200 with cookies cleared.
2. **`refresh()` can be undone** (`grants_refresh`). A load in flight during the edit
   stores the old matrix after `refresh()` emptied the cache.
3. **A demoted actor can keep full access** (`act_as_demotion`). `resolve` re-checks
   `canActAs` but takes the mode from the ticket.
4. **Saves of links alone can mix** (`resolver_links`). The form sends only what was
   touched, such a save locks nothing, and `syncLinks` writes the difference to what it
   read: a link both saves saw can be gone, or the result be the set of neither.
5. **A row can be written in the wrong table** (`content_writes`). The drawer's table is the
   URL's, which changes after the click; a row of the old table opened in between is saved
   or deleted in the new one, under the old key.

## Proofs

Every property of a passing run is also a theorem, but for the three liveness properties.
The theorems hold for every value of the constants that satisfies the `ASSUME` of the modules
concerned; TLC evaluates those on its instances. They ask of a bound that it is a natural
number and of a set hardly anything, mostly that one member stands for "nothing" or that no
two kinds of value coincide.

*SessionsProofs.* `SessionsInv` is inductive. `SingleUse` alone is not: that a rotation
finds its pair unspent follows from `HeadOfLineage` (the table holds the last pair of
each lineage), which needs the ledger to refer backwards only, and typing needs every
pair in a jar or a request to have been issued. From it: `TypeCorrect`,
`RefreshIsSingleUse`, `TableHoldsHeads`, `SurfacesIsolated`, `EndedStaysEnded`, and
`RefinesLeases`, the step simulation `Sessions` to `SessionLeases` (rotation renews one
lease because `ConsumesOne`: at most one row holds a pair). `LineageInv` stands on it and
places every pair on its lineage: until its answer arrives a new pair is known to nobody but
the handler that issued it (`CarriedIsFresh`), so a rotation cannot take from a browser what
it has just been given; and what a handler has found out by a step stays true until the next
(`RequestsSettled`). From it: `NobodyIsLockedOut`, `LogoutMissesOnlyRaces`,
`DeadPairsStayDead`, and of steps `SuspensionIsFinal` and `OnlyRevocationEnds`; the latter
needs the sweep's clock never to be ahead and a pair's access never to outlive its refresh.

*GrantProofs.* `CanNeverWidens` and `CanAddsRoles` are facts about `Can` for any finite
matrix and any actor; `DecisionsNeverWiden` and `RolesOnlyAdd` lift them to states.
Timing needs `LoaderInv`: a version in the cache was still current `MaxFlight` before
its stamp, and one in flight was current when it was asked for or later. From it
`QuietRefreshWorks` and `StalenessBounded`. The bound on a query's time, `MaxFlight`, is
an assumption about the environment built into `Tick`.

*ActAsProofs.* What a request may do was settled by its earlier steps and by its
ticket's start, so `ActAsInv` carries that along: a ticket's mode and expiry are those
computed at its start and its two ends differ; a request past the check presents its
own actor's ticket. From it every property of run `act_as`; `TicketLifetime` rests on
`FloorBounds`, that rounding down to a second loses less than a second.

*ResolverProofs.* `WritesInv` says of each transaction, statement by statement, what it may
rely on: from the statement that finds a row to the commit it holds the row's lock, so the row
it tests with `AssertWithinGrant` is the one it wrote; the links it takes away were read there;
those it adds were missing, and no two transactions put in the same one. Hence
`WritesStayInGrant` and `PayloadsSurvive`, properties of steps, and `SavesReconcileLinks`: as
long as nobody crossed a save, what its row is linked to is what was there when it read, less
what it deleted, with what it inserted.

*StoresProofs.* One invariant per part, and `StoresInvariant` for their composition.

| part | what makes the property inductive |
|---|---|
| files (`FileInv`) | an upload that has not settled has no row of its name, and has its bytes before it inserts one; a request that found a row meets no upload of it under way; a row without bytes is one a failed statement left in doubt |
| views (`ViewInv`) | the builder awaits one save or delete at a time; a save carries the draft it was made from; a draft has what was not edited as it was opened: the fields and displays listed, and, if none were, every candidate as proposed (`DraftFits`) |
| schema (`SchemaInv`) | the load in the slot began after the last flush, and the load of a request saw the changes answered before the request began; what is executed is what was shown |
| metadata (`IntroInv`) | what a waiting call asked, it asked since it began, and a call waits a bounded time; so an entry is that old when stored, its enums one lifetime more |
| limiter (`LimitInv`) | a bucket's hits are hits let through for its key, and all of those in the window are there, so a bucket that a sweep drops had none of them |
| tokens (`TokenInv`) | a token is signed over the hash its owner had, and the number of hashes only grows, so a reset that begins after the first change finds another one |

*FormsProofs, ConsoleProofs, ScreensProofs.* `ScreensInv` is the conjunction of one
invariant per screen. A step of one screen leaves the others' variables alone, so each is
shown inductive by itself, in the module where its proof reads best, and the eight theorems
about `MCScreens` only put them together.

| screen | what makes its properties inductive |
|---|---|
| record form | what differs from the pristine copy was set on this record; the load that counts (the last, not cancelled) reads the row as it is, so the pristine copy is the row unless an exception of the history variables applies; a save sent for the record on screen leaves out only what did not change; an option not toggled is ticked if and only if it was linked when the form was loaded |
| list | a request not cancelled asks the current query; what it read is the table's unless the table moved since; a page that is shown begins before the rows end |
| row form | an input marked as edited was set; a search with the picker's number asks for the picker's term |
| column editor | an input that differs was typed for the column on screen, or came along with a switch that reset nothing |
| matrix | a baseline that was read and not disturbed is the role's grants until its own save is answered; table by table, what a transaction has written is what it was sent, unless it deleted a row it did not find (`GrantsWritten`) |
| content grid | the drawer's row is of the URL's table unless the URL moved under it (`strayed`) |
| users | the drawer's row is the listed one, and an input that differs was typed, or is behind a reload |
| cards | whatever a card may still be opened with or be given is for its link's value, unless the link was handed another; a cached entry that is loading is in flight; a new load's number is its own, by the pigeonhole principle; trimming bounds the cache |

`MaskedStaysMasked` needs no invariant beyond typing: by cases on the kind of request, an
answer is computed from visible columns only, and no change writes a masked one
(`ConsoleProofs`, lemmas from `BlankedAgrees` on).

*Model-checked only.* `JarCatchesUp`, `WritesEnd` and `ScreensComeToRest`: liveness under
fairness, which needs `ENABLED`, is beyond the prover. So are the five findings, which are
counterexamples. The operators are written without recursion, so that nothing rests on an
induction over data.

## Plan

The model is complete as far as it is meant to go, and so are the theorems about the
properties of its runs. What would still add to it:

1. Lemmas about operators for their own sake, where a reader of the code would want one: that
   `Can` agrees with `RowsMay` whenever the filters do not refuse each other; that
   `trimCache` keeps the youngest entries.
2. The safety halves of the three liveness properties: that a handler, a transaction or a
   screen that is not at rest has a step to take.
3. Abstract specifications of the resolver's save and of the two schema caches, in the manner
   of `SessionLeases`, with their step simulations.

## Not modelled

Rendering, parsing and string building (most of `components.tsx`, `view.ts`, SQL and DDL
text, formatting): no interleaving, covered by the repository's own tests. argon2, HMAC,
SHA-256 and random tokens: taken to be collision free and unforgeable; `ip.ts` splits a
header. The SQL console runs whatever one statement it is given in a read-only transaction;
its guard is a scanner whose questions are about strings character by character. The other
DDL builders (tables, indexes, foreign keys, types) share the preview and run that
`SchemaChanges` and `ColumnEditor` model and differ in the text they build. The form that
creates, edits and deletes roles sends one statement and keeps no copy of anything else.
Serving addresses of storage, the pool and wire format, the migration helper and the build
scripts keep no state. Audit callbacks of act as are fire-and-forget and change no state.

Two hazards have no property. A page of rows and its total are two queries
(resolver.ts:736), and a write in between makes them disagree; the code has nothing against
it, so `RowsAnswerTheQuery` speaks of tables at rest. And the permission matrix keeps a grant's four flags and the screen
never shows its `row_filter`: unticking every action of a table deletes the row with its
filter (permissions/route.ts:84), and ticking it again inserts one without, so the role
then has the whole table. `RoleMatrix` models the flags only.
