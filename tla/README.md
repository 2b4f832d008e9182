# OmniView in TLA+

OmniView is a dashboard shell (Next.js static export + Django/ninja API on
Postgres) with three apps: Expense Tracker, Omni-ERD and the Admin Portal. This
directory holds TLA+ models of the parts where behaviour, not layout, can go
wrong; TLC checks them on small instances and TLAPS proves the main results for
every value of the constants.

## 1. Inventory

| part | code | state it keeps | operations | what makes it correct |
|---|---|---|---|---|
| read cache | `frontend/src/lib/useResource.ts` | module-level entries (data, error, promise, updatedAt, listeners, fetcher), one subscription per hook | render, subscribe, refetch, invalidate, settle | one fetch per key in flight; a watched key is never empty without a fetch; no hook falls behind its entry for longer than a fetch; copies never go back |
| rebuild, server | `backend/shell/pipeline.py`, `budgets/api.py` | `_rebuild_lock` per process, the child process | POST rebuild, GET status | lock = request in run_pipeline; answers tell the exit code |
| pipeline | `pipelines/expense_tracker/main.py`, `banks/`, dbt models | `stg_`, bronze and metrics tables, gold views | read, stage, build a graph of models | a successful run contains what was saved before it; no view joins tables that do not belong together |
| rebuild button | `budget-map/page.tsx` | bar, result, outstanding requests | probe, click, poll, reload | the result is shown; the bar follows the rebuild |
| overrides | `omni_erd/services.py`, `models.py`, `admin_api.py` | override rows, one graph cache per process | graph, list, create, edit, delete | one row per pair; no edit costs another row; writes become visible |
| Overrides tab | `OverridesView.tsx`, `OverridesEditor.tsx`, `overrideDraft.ts` | the list, the form's draft, calls in flight | open, edit, save, arm and delete | what the form lets through is accepted and stored as stated; no row on the list is replaced unseen |
| introspection | `omni_erd/introspect/` | none | catalog queries | entities, keys and declared relationships are those of the catalog |
| inference | `omni_erd/infer.py`, `ir.py` | none (pure) | four tiers of relationships | overrides win, a pair is claimed once, guesses never replace declarations |
| focus, join graph, SELECT | `omni-erd/lib/focus.ts`, `joinGraph.ts`, `buildSelect.ts` | none (pure) | neighbourhood, groups, bridges, plan | the statement has what its tables can be joined to, and says what it leaves out |
| ERD canvas | `DiagramView.tsx`, `ErdCanvas.tsx`, `save_layout` | positions and view modes on the canvas, in the cache and in the row; cards, edges, selection, focus | mount, drag, mode, reset, focus, search, delete, save (debounced) | once all is quiet, what is stored is what is shown; cards and edges agree |
| session | `lib/auth.tsx`, `lib/http.ts`, `shell/auth_api.py`, `shell/security.py`, `shell/remote_auth.py`, `config/frontend.py` | session cookie; user and config in the browser | probe, login, logout, 401 | the browser agrees with the server once it settles; a logout lasts |
| tabs | `lib/tabs.tsx` | tab list, its copy in localStorage | navigate, close, move, restore | one tab per app; the list follows the URL and survives, though other windows write the same copy |
| log shipper | `lib/log.ts`, `shell/logs_api.py` | in-flight flag, count | ship | never loops, at most 20 per page load |
| admin: people | `admin_portal/services.py`, `UsersTable.tsx` | `is_staff`, grants; the page's optimistic copy | list, promote, demote, grant, revoke | somebody stays admin |
| admin: monitoring | `admin_portal/services.py`, `databricks.py` | per-user caches | jobs, costs, overview | an entry never crosses users; polling ends |
| budget map editor | `budgets/yaml_repository.py`, `budget-map/page.tsx` | one document, the edited copy | load, edit, save, import | what the page lets through is saved; no edit loses an entry |
| raw CSVs | `rawdata/services.py`, `raw-csvs/page.tsx` | files, the page's lists | upload, list, show, import | an upload never replaces a file |
| bank parsing | `banks/all_banks/golden1.py`, `bank.py` | none (pure) | normalise, order, balances, categories | balances are those of the bank's books |
| dbt models | `dbt/models` | views and tables | daily balances, unions | one balance per account and day; all the money, once |
| breakdown | `apps/expense-tracker/lib`, `DataTable.tsx` | slicers, drill paths, cross-filter, the grid | filter, drill, group, restart | the grid shows the rows; Restart is complete |
| credentials | `config/pg_lakebase/credentials.py` | token and its age | mint | not modelled |
| deployment | `docker/`, `deploy/` | - | scripts | not modelled |
| presentation | `components/ui`, charts, styling | - | - | not modelled |

How the parts interact. Every page is inside the session's gate and, in the
shell, inside the tabs that follow its URL. Pages read through the cache, which calls the API over
HTTP. The Budget Map page and the raw-CSV page write sources into the `omniview`
schema; the rebuild endpoint starts the pipeline as a child process, which reads
these sources and replaces the `datavault` schema that the report endpoints and
the ERD introspection read. Omni-ERD merges introspected relationships with the
override rows and caches the graph in the server process. Everything behind the
API is guarded by the session and by grants that the Admin Portal changes.

Hard behaviour, by cause: hooks that render, subscribe and settle at different
moments; answers that arrive late, twice in flight, or never; a lock that lives
in one process while the database is shared; a child that survives the worker
which started it; statements of two requests interleaving between check and
write; caches per process with only a TTL to heal them; effects, router
navigations and full page loads that overtake each other; the same judgement
made twice, in the page and in the server; derived data that several pieces of
code work out on their own. PROJECT.json lists each hazard at its line.

## 2. Modules

| module | models | role |
|---|---|---|
| `ReadThrough` | what a read cache promises | abstract specification |
| `ResourceCache` | `useResource.ts`, its hooks, the requests, the server's keys | implements `ReadThrough` (`NeverGoesBack`) |
| `Rebuild`, `MCRebuild` | `pipeline.py`, the workers around it, the pipeline and the dbt models it builds | |
| `RebuildPage` | the Rebuild button of `budget-map/page.tsx` | extends `Rebuild`: page and server together |
| `ErdOverrides`, `MCErdOverrides` | the override endpoints and the graph cache of `omni_erd/services.py`, a statement at a time | |
| `OverridesTab`, `MCOverridesTab` | the Overrides tab over the same endpoints, a handler at a time | |
| `SchemaGraph` | introspection and `infer.py` | pure operators |
| `Joins` | `joinGraph.ts`, `buildSelect.ts` | pure operators, extends `SchemaGraph` |
| `Diagram`, `MCDiagram` | what a user does to the canvas | extends `Joins` |
| `DiagramLayout` | loading and saving the layout: `DiagramView.tsx`, `ErdCanvas.tsx`, `get_layout`, `save_layout` | |
| `Session` | AuthProvider, the login page, the gates, the log shipper, `/api/auth` | |
| `Tabs`, `MCTabs` | TabsProvider | extends `Session`: session and tabs together |
| `AdminPortal` | its endpoints and `UsersTable` | |
| `BudgetEditor` | the document, its page and its endpoint | part of `ExpenseTracker` |
| `RawFiles` | uploads and their page | part of `ExpenseTracker` |
| `Golden1` | parsing, staging and the dbt models as a function of exports and map | part of `ExpenseTracker` |
| `Breakdown` | the Breakdown page | part of `ExpenseTracker` |
| `ExpenseTracker`, `MCExpenseTracker` | the app: one of its four screens per behaviour | composes the four |
| `...Proofs` (8 modules) | | theorems about the module they are named for; `RebuildProofs` also about `RebuildPage`, `DiagramProofs` about `DiagramLayout` and `Diagram` with all it extends, `TabsProofs` about `Session` |

In every module, a definition whose comment begins with "Variant:" is not part
of the system: it is the definition next to it with a plausible mistake, and
PROJECT.json pairs it with the property that must catch that mistake. Variables
marked "history" are no state of the program; they record what a property speaks
of (what was saved when a POST was sent, what a process has last written). The
constants called `Max...` (and `PollBudget`) are bounds, and each is in the guard of the
actions it limits; `MaxShipments` is the MAX_SHIPMENTS_PER_PAGELOAD of the program. The `MC...` modules only
give values to constants.

### ResourceCache

State: the module-level entry of a key (`data`, `failed`, `age` for `updatedAt`,
`promised` for `promise`), requests (`asks`, `seen`), hooks (`rendered` key,
`listening` key, `view` returned last), keys a mutation has still to invalidate.
A payload is the version of the key the server held when it read it. A hook
renders (`Render`) and only later runs its passive effect (`Subscribe`); an
unmounted component renders no key. `Revalidate`, `Notify` and `Settle` are the
functions of the source with these names (`finally` for the last); `SettleSuccess`
and `SettleFailure` are `.then`/`.catch` with it. `Mutate` is any write at the
server, of this browser (which then invalidates) or of another. Left out:
`__clearResourceCache` (tests only). `dedupeMs` is the age an entry has.

### Rebuild and RebuildPage

State: requests (`pc`, `on` which worker, `reply`), `_rebuild_lock` of each
worker (`holder`), pipeline runs (`stage`, `got`, and what they have `done` and
what has `failed`), the readings behind the tables (`staged`, `bronze`,
`metrics`), the gold `views` that exist, and whether the last dbt build to start
has succeeded (`whole`).
`Acquire`, `Refuse`, `LaunchFails`, `Launch`, `Reap` are run_pipeline's steps with
its early return and its `finally`; `Kill` is gunicorn's `--timeout`: the lock and
the requests of the worker vanish, the child does not. A pipeline reads the
budget maps and then the files (two statements), and stages accounts and then the
map. `dbt build` is a graph: `Parents` says which models a model selects from, and
a model that is `Ready` may be built whatever else is being built, so any order of
the four threads is a behaviour. `BuildModel` does what its materialisation does
(`Create`): a table is replaced and the views over it are dropped with the old one,
by Postgres's cascade; a view is put in the place of the old one, and what is over
it goes too. `gold_Golden1_BudgetMap` does not depend on the accounts, so
transactions and budget map come and go apart. `ModelFails` leaves what was there,
`FailsLate` is a failed silver view or data test over a model that has been built;
either stops what is over the model and nothing else, and `BuildEnds` exits with 1
if anything failed. `RunFails` is the end of the process at any moment. Bronze,
silver and the gold view over one table are one model where nothing tells them
apart. What the parsers compute is the subject of `Golden1`: here a table is the
pair of source versions behind it.
`RebuildPage` adds tabs: `Mount` (load or reload, with the probe), `ClickRebuild`,
`TakeResult` (the answer or the exception), `Tick` and `TakePoll` (the interval),
`TakeProbe`; the status endpoint is `Status`. Cleaning up the interval does not
take back polls in flight, so late answers come in as in the browser.

### ErdOverrides

State: rows by primary key (`rowPair`, `spent`), a graph cache per process
(`cached`, `cTables`, `cWrites`), and each request thread's place in its handler
with its local variables. One action is one statement or cache call, since
nothing is in a transaction (autocommit): `clash.exists()` and `save()` are two
(`NoConflict`, `Save`), as are reading the overrides and storing the graph
(`ReadOverrides`, `Store`). `Save` inserts a row that a delete has removed in
between, as Django's `save()` does. Status codes: `Conflict` is the 409,
`SaveFails` the IntegrityError. What a graph contains is abstracted to the
entities it was built from and the number of committed writes it has seen.

### OverridesTab

The same endpoints seen from the form: here a handler is one step (`Serve`), and
what it stores is spelled out. State: the warehouse's `catalog`, the stored `rows`,
the page's `entities` (the graph it has loaded), `list`, the open form (`draft`,
`saving`), deletes that are `confirming` or under way, and `calls` in flight in
the order they were sent. The operators in lower case are functions of the
source (`canonical_pair`, `override_to_ir`, `override_status`, `draftProblem`,
`draftPayload`, `draftFrom`...); each control of the form is an action, and a
combobox is the choice it leads to. `TakeSave` and `TakeDelete` are the
continuations of the two promises, the refetch they start included. `Rebuild`
and `OtherWrites` are what happens elsewhere; `Lose` is an answer that never
comes.

### SchemaGraph, Joins and Diagram

`SchemaGraph` and `Joins` hold the pure parts, one operator per function of the
source (`DeclaredRelationships`, `SurrogateKeys`, `SameNamedKeys`,
`InferRelationships`; `JoinGroups`, `RankBridges`, `PlanJoins`, `BuildSelect`). A
name stands for all its spellings, and what a regular expression finds in it is a
field of the column. `Diagram` has the canvas: `graph` and `view` (the props and
the view state), `cards` and `edges` (the two React Flow states, which code
sets separately, and React Flow takes deletions from), `away` (hidden nodes and relationships), the two flyouts
(`selected`, `inspected`), `focused`, and the fades that a timer has still to end.
Handlers are the actions of their names. `Refetch` is a new graph behind a
mounted canvas, which keeps the view state it was seeded with. `Backspace` is React
Flow's default for the delete key, which `ErdCanvas` does not turn off and whose changes
its handlers apply: highlighted cards and edges go from these two states and from
nothing else. What is highlighted is any set up to a bound.

### DiagramLayout

State: the row of the user (`stored`), the window's cache entry (`cached`, `age`,
`fetching`, `answer`), the canvas (`at`, `view`, `focus`), the debounce timer
(`armed`), and PUTs in flight (`puts`). A PUT without view state carries `Unsaid`
and leaves the stored one alone. `Open` mounts the tab, `LayoutArrives` and
`LayoutFails` settle the GET; either can mount the canvas or, when it is up,
rebuild its nodes without re-seeding the view. `Rerender` is the `?? {}` of
DiagramView: with no layout to show, every render builds a new object and with
it new nodes. `Drag`/`TimerFires`, `ApplyView`, `Reset`, `ResetFocused` and
`Focus` are the canvas's handlers; other windows of the same user save by
`SaveElsewhere`. The graph is taken to be in the cache (its first load is left
out), and which tables a focus hides is left out, so any may be dragged, as is
deletion by the keyboard, which is `Diagram`'s.

### Session and Tabs

`Session` is one browser tab over the server: the cookie's `session` and `csrf`
cookie (shared with other tabs, hence `Elsewhere`), AuthProvider's `user`,
`config` and `loading`, the URL (`path`, `next`, and `going` for a router
navigation that has not arrived), and `wire`: the requests of this document, at
most one of each kind, whose answers may come in any order or not at all (`Lose`).
`Serve...` actions are the endpoints with their auth classes and the CSRF check,
`Take...` the continuations in the browser; `Refresh` is refreshSession and
`OnUnauthorized` the 401 listener. `Open` is what a full page load resets, and
leaving the document drops the handlers of its requests. `deploy` is the kind of
deployment, chosen once per behaviour: no login, own login, own login with
single sign-on, or an identity header set by the proxy. The identity provider is
external (`SsoReturns`).

`Tabs` adds TabsProvider: `stored` is the list in React state, `storage` the copy
in localStorage, `restored` whether the effects of the first commit have run,
`record` and `due` whether the effect that follows the URL and the one that writes the
list are due. `OtherWrites` is the TabsProvider of another window, which writes its own
list over the copy, the empty one when it opens or its user signs out; nobody listens
for that here, so it matters when the copy is read again. Access is applied on
read (`Shown`), never to the state. Every step of the session is taken with what
it does to the tabs: `Follow` when the document stays, `Remount` when it is
another. `Close` navigates away when it closes the focused app; the effect that
follows the URL can still run on the old one (`shut`).

### AdminPortal

Each worker thread has the request it serves and where it is in it; one action
is one statement or one call, as there is no transaction around a request. `Authorize`
is AdminAuth, `GrantApp`, `RevokeApp` and `SetAdmin` the endpoints with their
checks, `Lookup`/`Ask`/`Poll` the cached calls to Databricks, which may answer,
deny or fail. `page` is UsersTable of one admin with its optimistic change
(`Toggle`) and what answers do to it (`TakeChange`, `TakeList`); other callers
only send requests. `SignIn` is the promotion of listed e-mails.

### ExpenseTracker

A behaviour is about one screen, as leaving a page unmounts it and drops its
state; `screen` says which. `BudgetEditor`: `stored` is the row, `data` the page's
copy, `selected` the entry the match panel is open on, `put` the save in flight
with the server's judgement of it (`BadFields`, `BadTypes`, `OverCeiling`). Of a tree of
string matches only its shape matters. An import writes YAML that nobody judges, so
a budget is a number, or `Infinite`, `Yes` (a Boolean) or `Blank`, and the `Fields` of
details tell a mapping with the known keys from what else may be there; `Spread` is
what an edit makes of it, `Serialised` what JSON does (1e999 typed in a cell is sent as
null), `Shows` which documents the page can render. On the other three screens
the stored document plays no part, so it is a fixed one. `RawFiles`: `raw` is the table with its
unique constraint, `uploads` the upload each user has in flight (the check and
the insert are two steps), `view` and `flight` the page and its requests, which
are never cancelled. `Golden1`: `exports` and `budgetMap` are what is stored,
`Build` is a run that succeeds and sets `staged` to `Run(exports, budgetMap)`;
what it means is judged against `Ledger`, the books of the bank, which the
program never sees: an export is a part of the books in one of the two layouts, and
files are assumed to be named in the order of the books, by which the code joins them.
The parser's steps are operators in the order of the code: `normalize_file` per file,
a stable sort by date, the balances filled in from the nearest stated one, and the
left join with the map, which brings one row per entry that has the matched string.
`Breakdown`: `report` is the one view value, `grid` the table that is built
asynchronously once and fed from then on, `Restart`, the drills, slicers and
clicks are the handlers of its three visuals.

## 3. Runs

All runs are complete searches of the state space (or end in the counterexample).
The configurations switch deadlock checking off because every system here may
come to rest: no user acts, no request is out.

| run | instance | why these bounds | distinct states | shows |
|---|---|---|---|---|
| `resource_cache` | 1 key, 2 hooks, 2 requests, 2 writes | entries of different keys share nothing; two hooks are needed to subscribe, leave and share; two requests let a missing coalescing show; two writes make "older" and "newer" | 81,811 | no dead skeleton, no hook falls behind, `ReadThrough`, a first result |
| `rebuild` | 1 worker of 2 threads, 2 POSTs and a shell for 2 pipelines, 2 accounts, all models, 1 save of either source (`MaxSave` bounds the sum of the versions, which start at 1), 1 kill | two POSTs contend for the lock in one process; a shell run or a killed worker's child overlaps with them, or one pipeline follows another that failed; two accounts can be of two readings | 1,946,096 | overlap, freshness, what the reports join |
| `rebuild_page` | 2 workers of 2 threads, 1 POST, 2 polls, 1 shell for 1 pipeline, 1 account without gold models, 1 tab, 1 kill, no saves | a poll may reach the worker with the rebuild or the other one; two polls may be answered in the other order; what dbt builds tells no page apart | 97,776 | a result is shown, a watched bar clears, the lock comes free |
| `erd_overrides` | 2 processes of 1 thread, 3 tables (3 pairs), 2 keys, 2 writes, 1 change of the warehouse | two requests meet in every pair of statements; two rows and a third pair let an edit collide or move away | 804,480 | uniqueness, own writes visible, edits cost nobody a row, caches catch up |
| `overrides_tab` | 3 tables of at most 2 columns, one spelled in two ways, 2 catalogs, an empty and a filled list, 6 clicks, 1 event elsewhere | six clicks state a join from nothing and save it, or open a row, turn it round and save; one event makes list and server differ under an open form | 2,925,255 | the server takes, stores and keeps what the form promises |
| `diagram` | 4 tables, 4 captures (guesses; declared keys, double, dangling and reflexive; overrides; a rebuild without one of the tables), every order of clicks, 2 acts (mode, focus, jump, deletion, refetch), 1 card and 1 edge highlighted | four tables make two groups and a bridge between them; a refetch or a deletion before or after another act makes cards and edges differ if they can | 164,787 | the SELECT and the flyout agree with the joins, cards with edges |
| `diagram_layout` | 2 tables, 2 view states, 2 PUTs, 2 edits | two saves can cross, one edit can wait for the timer while another is saved (with `MaxEdits = 3` all holds as well, over 4,277,254 states) | 192,238 | stored = shown, view kept, an edit is saved |
| `session_tabs` | 4 kinds of deployment, a staff user and one with a grant, 2 apps (one for admins only) on 3 pages and the launcher, 3 moves of users, other windows or the network, 2 lists another window may write, 1 log entry | three moves are a logout, a reload in the middle of it and a sign-in; or a navigation, another window's write and a reload | 484,551 | tabs follow the URL and are kept, the user shown is the session's, logouts last, signed out ends at the login page |
| `admin_portal` | an admin and a user promoted at sign-in, one of the two with a token, 2 threads, 1 app, 3 calls, 1 further poll | two requests meet in every pair of statements, and a third is let in before or after; one poll more is the way to the deadline | 304,794 | the last admin, the caches, every call is answered |
| `expense_tracker` | 3 edits of 5 maps (a good one, a full one, and with unknown keys, text, numbers, Booleans or nothing where details or budgets should be), 3 picks, 2 exports per account of 4 and 3 transactions, 2 budget maps (one with a string twice), 3 clicks | three edits rename, add and delete under an open panel; two exports overlap the layouts and a day; three clicks drill, mark and drill back or restart | 1,371,029 | each part's promise to its users |
| `tabs_persist`, `matrix_drill` | those of `session_tabs` and `expense_tracker` | | | section 4 |

What some of the properties mean. `NeverGoesBack` is refinement: the copy of a
key moves forward or is forgotten, and is never ahead of the server.
`OneRebuildPerWorker` says how far the lock reaches: two pipelines of POSTs
overlap only in different workers or after a kill. `ReportsMatch` says what a reader of
the warehouse may rely on at any moment, builds and failures included: the view that
joins transactions with the budget map never mixes two readings, and if a page, which reads views
and metrics by themselves, finds them apart, a build is under way or the last one failed.
`NoHookFallsBehind` leaves no hook on what its entry has dropped, unless a fetch is about
to tell it. `LockoutNeedsARace` likewise
says how far the check against demoting oneself reaches. `ShownRowsAreKept` is
about the rows the list showed when Save was clicked: what another admin adds
later is taken over by `update_or_create`, as the code says.
`StatementTellsTheTruth` compares the plan of the SELECT, a loop that attaches
table after table, with the closed sets of joined picks, a definition that
does not mention an order. `BalancesAreTheBanks` compares the report with the
books, however these were cut into exports.

What they except. `ReportsMatch` and `SuccessIsFresh`: runs that another run was
alive with, which nothing in the code prevents. `ReadYourWrites`: processes with
threads, as a graph read before a write may there be stored after its
invalidation. `SavedIsShown` and `ViewIsKept`: PUTs that crossed or were lost
(`raced`); saves are sent without waiting, and the code says that it accepts
this. `ShownUserIsSession`: sessions that were changed behind the document, and
answers that were lost or overtaken (`stale`). `TabsAreKept`: documents that went
away before anybody was known in them or before their list was written, and lists that another window
wrote over before they were read (`blind`), which section 4 is about.
`RefusedOnlyForShape`: categories that hold what the page does not judge at all (a field that
is no number or has an unknown key, a match tree), which section 4 is about too.
`NoHookFallsBehind`: hooks that subscribed too late to hear of a fetch (section 4).
`FocusedHasTab`: apps closed while their URL was still there (`shut`).
`BalancesAreTheBanks`: accounts without a transaction yet, and a credit card of
which no export states a balance (a file of the new layout with at least one row does).
`TotalsTie`: budget maps that have a string twice (section 4).

Type invariants are stated in the modules. Those of `ResourceCache`, `Rebuild`,
`RebuildPage`, `ErdOverrides`, `DiagramLayout` and `Tabs` are theorems.

Every property of a passing run is also checked against a mistake in the code
(`mutants` in PROJECT.json), which TLC must find violated under the same
configuration.

## 4. Where the code does not do what it says

Two runs end in a counterexample; each checks one sentence of the repository.
PROJECT.json quotes the lines.

| run | property | what happens |
|---|---|---|
| `tabs_persist` | `TabsPersist` | `lib/tabs.tsx:114` writes the list filtered by access, which is empty until the session has arrived: a reload, or the way to the identity provider, in that moment loses every open tab. |
| `matrix_drill` | `DrillShowsItsMark` | `BreakdownMatrix.tsx:81` reads a clicked row as one of the dimension the drill is at; with the matrix expanded it may be a category below a date, and the page filters for a date of that name. |

Met while modelling, and part of the models, but neither asserted nor excluded
by a property unless one is named:

- `useResource.ts:71`: an invalidation joins the fetch in flight, which brings
  back the value from before the mutation, as fresh. (`NeverGoesBack` shows that
  it is late, not older than the copy before.)
- `useResource.ts:165`: a fetch settles between a hook's render and its effect:
  the hook is not told and keeps its skeleton until something else renders it.
- `useResource.ts:180`: after a failed refresh the hook has data and reports
  `error`; pages that look at the status show the error panel.
- `process.py:63`: a dbt build that fails part of the way leaves transactions beside an older
  budget map or metrics, until one succeeds; while one is under way the same is seen, or views
  are missing (`ReportsMatch` says how far this goes).
- `pipeline.py:55`: after a kill the new worker's lock is free, and the status
  endpoint says "not running" over a live pipeline.
- `budget-map/page.tsx:160`: a status poll answered before the page's own POST
  has the lock clears its bar.
- `budget-map/page.tsx:298`: text in the match panel that is no JSON is ignored,
  and Save, which has nothing to re-validate, reports success.
- `budget-map/page.tsx:59`: the page judges sums of numbers only. A category imported with
  `Budget:` left blank, with text for a budget, or with an unknown key passes the page, and
  every save is refused with a 422 (`yaml_repository.py:70`); 1e999 typed in a cell is a number to the page and
  null to the server. Details left blank altogether fail the page (`:59`).
- `lib/tabs.tsx:116`: another window that opens or signs out writes its empty list over
  the tabs of this one; a reload here loses them.
- `yaml_repository.py:123`: two editors overwrite each other's whole document.
- `bank.py:125`: the merge brings one row for every entry of the budget map that has
  the string, so a string that is in the map twice, which nothing forbids, counts
  the money of its transactions twice in every report.
- `raw-csvs/page.tsx:54`: the answers for an account or file selected before
  are shown under the one selected now.
- `gold_Golden1_UncategorizedTransactions.sql:7`: turns the sign of the credit
  card, which `silver_Golden1_CreditCard.sql:15` says must not be done again.
- `omni_erd/services.py:337`: statuses of overrides are derived from entities
  cached up to 60 s ago; `:508`: two edits of overrides may end in a bare 500,
  as the check for a clash and the save are two statements (`OnePairOneRow`
  holds all the same).
- `OverridesView.tsx:133`: the form stays open on a row that was deleted, when it
  was opened after the delete was sent.
- `ErdCanvas.tsx:111`: a canvas mounted again shows the view state of the first
  load; `:213`: the arrangement of a focused reset, which is not saved by itself, is
  saved with the next drag or mode change; `:504`: Backspace deletes cards and edges that are
  highlighted from the canvas only, where cards stay away until a refetch and edges until
  the next change of the view; `:430`: a fade that ends after the
  focus was cleared hides the tables again.
- `lib/log.ts:58`: entries are dropped while another is shipped, and after 20.

## 5. Fairness

- `ResourceCache!Fairness`: React runs passive effects; the browser settles each
  request, if with an error. Nothing is assumed of users, writes or retries.
- `RebuildPage!PageFairness`: a handler that runs goes on, and a pipeline goes on until
  it ends, as the code has no timeout of its own and every stage either returns or
  raises; the listen queue is first in, first out
  (strong fairness of being accepted, as the workers are busy now and then),
  answers are delivered, the interval keeps ticking (strong, as the places for
  polls are taken now and then). `Rebuild` by itself has none.
- `ErdOverrides!Fairness`: a thread finishes its request; cache entries expire.
- `DiagramLayout!Fairness`: a running timer fires, a PUT is applied or lost.
- `Tabs!TabsFairness`: the server answers and the browser hands answers on
  (weak, one conjunct per kind of request: a kind is not served in place of another), React
  runs effects, the router arrives, and the login page's own sign-on starts.
  Nobody has to click, to reload, or to come back from the identity provider.
- `AdminPortal!Spec`: a thread that serves a request goes on, as every statement and
  every call answers or raises. A statement of the warehouse need not ever leave
  PENDING: `CallsAreAnswered` rests on the deadline of the polling.
- `OverridesTab`, `Diagram` and `ExpenseTracker` have no fairness and no liveness.

## 6. Proofs

TLAPS checks the theorems below for all values of the constants that meet the
named assumptions. Most of these only say that names are not model values such
as `NoKey`, how a document is represented (`ImportedAreDocuments`: nothing is assumed of what
is in it), which gold models there are (`GoldIsGiven`: all or none), that bounds are naturals, that `Home` maps threads to processes, and
that foci and catalogs hold tables. Six more say what the program's data are like:
`StoredAreRows` (the ids of stored rows count from 1, and their columns are lists),
`BudgetsDiffer` (what stands for a missing, infinite, Boolean or other budget is no integer),
`CapturesAreCatalogs` (lists of a catalog are finite and the overrides have one
row per pair, as the unique constraint of `models.py` has it),
`NoneIsNothing` (`None` is neither a key's role nor a pair of columns),
`LedgerIsBooks` (the books of an account are a list of integer amounts whose dates never
go back, which is what it means to be the books of a bank) and `MapsAreLists`
(an entry of a budget map has a string to match). Money is an integer in all of them:
that a float sum may depend on the order of its summands is outside the models. TLC evaluates all of them on
the instances of section 3.

**ResourceCache.** `IInv` = `TypeOK`, `OneFlightPerKey`, `WatchedIsFetched` and
`AnswersAreNews` (an answer on its way is no older than the copy it will replace,
and no newer than the server). The last conjunct is why the copy cannot go
back: it needs `OneFlightPerKey`, as another request could otherwise settle
first. From `IInv`: `TypeCorrect`, `SingleFlight`, `NoDeadSkeleton`, `HooksKeepUp` (whatever changes an entry tells
its listeners, or joins a fetch whose end will) and the
refinement `CacheIsReadThrough` (`INSTANCE ReadThrough WITH` the entries' `data` as
the abstract copies and the server's `version`), one step lemma per settling action, stuttering
elsewhere.

**Rebuild and RebuildPage.** `LockInv` adds to `LockIsRequest` and `AnswerTellsExit`: `Served`
(a request is on a worker exactly between accept and answer) and
`Stagewise` (the pipeline of a POST has not started before its request waits for it).
`OneRebuildPerWorker` follows. `DataInv` adds `Lone` (a run outside
`overlapped` is the only one alive), `Fresh` (a run that is not alive has done nothing), `Written`
(while dbt builds, what the run has staged and built is of its one reading: `StagedBy`, `BuiltBy`) and
`Recent` (what a run has read is no older than what was saved when
its POST was sent); with `ReportsMatch` itself it is inductive, and yields `SuccessIsFresh`. `Lone` is
what makes `Written` so: a step of another run would change the tables. The step that
matters is building one model: `CreateKeepsBuilt` (what is built already stays of
the run's reading: what the cascade drops is above the model, and so not built yet) and
`CreateKeepsViews` (a view that is there joins what belongs together: either its parents
are not touched, or it is dropped with them), for any order in which models become ready.
`PageInv` = `DataInv`, `PageTypeOK` and `PollsInv` (a poll is awaited by one page at
most, and not idle while it is) carries the server's invariants over to page and server together, since
a page takes steps of the server or leaves its variables alone:
`PagesDisturbNothing`, and `EveryResultIsShown`, an action property.

**ErdOverrides.** `RowInv`: used keys are in `spent`, and an edit or a delete is
about at most one row. With it an insert takes a key nobody holds, hence
`PairsAreUnique` and `EditsStayHome`. `GraphInv`: a graph being built, or
cached, in a process that serves one request at a time was read after the
process's own last answered write, hence `WritesAreServed`.

**DiagramLayout.** `SaveInv`: while no saves have crossed, at most one PUT is in
flight (`OneInFlight`); it, or else the row, has the canvas's places as soon as
no drag waits for its timer (`PlacesOnTheWay`), and the view state set last, or
none while the row has it (`ViewOnTheWay`). Hence `SavesWhatIsShown` and
`DragsKeepTheView`.

**Diagram.** What is hard here is not the inductive invariant. `DrawnInv` (the
graph is one the endpoint may answer; `Placed`: cards and edges are those of the graph
and the view state, but for what Backspace has taken away; the selection is a list) is kept by
every action as each rebuilds all edges, drops some, or leaves them alone, and with the view or the graph
also the cards. It is what the pure code computes from
such a state, for any catalog, overrides and picks, each a recursive function:

- `StatementIsTrue`: the planner's passes (`Pass`, `Chain`) and the group search
  (`Members`) both grow a set inside the picks until it is closed under joins.
  A set that grows at most once per pick saturates after as many passes as
  there are picks (`Saturates`); a saturated chain is closed, is reached step by
  step, and hence is the least closed set, `ReachedFrom`. So the statement
  and the first group are the same set, found by two pieces of code:
  `FlyoutTellsTheTruth`. It also needs that joins are symmetric (`JoinsBothWays`)
  and that groups are disjoint (`GroupsAre`, `StartsAre`).
- `RemedyIsOne`: a bridge that joins the root's group and another is reached once it
  is picked, and with it both groups; what was reached stays, as the picks only grow:
  `BridgesReconnect`.
- `OverridesAreFollowed`: overrides come first in the list of relationships, `Kept`
  and `Emit` claim no pair an override has spoken of, and the first usable
  relationship is taken: `AdminsDecideJoins`. Suppressed pairs have no
  relationship, so no step joins them.
- `KeyRoleIs`: of several tags the strongest wins, and an admin's is certain, whatever
  the order of the edges; `EndsAreDrawn`: the handle is a drawn row.
  With `DrawnInv`: `EdgesHangOnCards`, of edges both cards of which are on the canvas.

**Session and Tabs.** `UserInv`: once the first probe has arrived and nothing is
stale, the user shown is the one the server knows, but for a login or logout the
server has done and the page has not heard of, and the reads that follow these.
It is inductive as an answer carries the caller of the moment it was given, and
whatever changes the session later makes the document stale. `SkipInv`: after a
logout the flag is set, over full page loads too. Hence `ShownIsServed` and
`LogoutLasts`: between a logout and the next deliberate sign-in no page, router
or answer brings the browser to the identity provider. `TabsInv` = `SessionOK` and
`TabsOK` (types) and `ListsInv`: one tab per app; the page of the URL has a tab unless the
effect that records it is due; and the apps opened and not closed are on the list,
or on its copy in the browser until that is restored, unless another window wrote
over it in between (`OtherStep`). Hence `TypesHold`, `FocusedIsListed` and `OpenTabsAreKept`; the
filter of the list is the recursive function `Visible`.

**AdminPortal.** `ThreadsInv`: the data a request holds are its caller's, the
app's or nobody's, a monitor is left while it monitors, and one about to save
does not demote its own caller. `CacheInv`: an entry is what its key says. Hence
`DataStaysHome`; `LockoutIsARace` needs the last conjunct of `ThreadsInv` only:
who takes the last admin is somebody else, who is an admin no more.

**OverridesTab.** `RoundTrip`: `override_to_ir` undoes `canonical_pair`.
`StoredAsSaid` combines it with `draftPayload`, for either order of the tables
and either direction. `IInv` = `RowsInv`, `ListInv` and `DraftInv` (ids count, and
columns are lists, in what is stored, listed and being edited) and `CallsInv`: a save in flight carries a
draft that passed the form's check against the entities shown then, and none has been refused. Hence `StoredAsStated`,
`NeverRefused` (page and server judge by two different pieces of code) and
`ShownAreKept`.

**ExpenseTracker.** `IInv` = `Shaped` (what is stored, on the page and being saved
are documents), `Paneled` (no panel before there is a document), `Judged` (of a document
that was sent, no well-formed category is over its ceiling) and
`SelectedExists`; one lemma per edit says what it does to the document's shape and size.
`PanelFollows`, `NothingIsLost`, and `PageJudgesBudgets`: the page adds up the
budgets of subcategories with 0 for one that has none, the server those that have one, and
a finite sum does not depend on zeros or on the order (`SameRule`, with
`TotalWithoutZeros` and `TakeAny`); what is sent of a category is what was judged if it is well formed
(`SentAsIs`, `SameJudgement`), for any budgets and any imported documents. `UploadsAdd` follows from the check in the create of an
upload. `ReportInv` (`ViewShape`, and `GridInv`: a grid built or being built knows
which of its inputs it has seen) gives `GridIsTheView` and `RestartShows`.

Of the pipeline: `PipelineInv` says that the uploads of an account are its books
from the start, one part after the other (`InBooks`: each file is an `Export` of the next
transactions, or, on the card, one with its first row last, or of a layout nobody
knows), and that the staged tables are what a run makes of such uploads
(`Reports`). It is inductive as a run reads the uploads as they are, and an upload
after it adds a part. What is hard is what the code computes from them, for any
books and any cut:

- `RowIsBooked`, `PartIsBooked`: a row of a file, its signs and order normalised, has the date
  and the money of a transaction, on the card its balance or none, on deposit
  accounts the balance of the day's close on the last row of a day. The rows of a file
  are a permutation of its transactions that keeps those of a day in order;
  `BookedAfter` joins the files.
- `SortedIsBooked`: a stable sort of such rows is the order of the books, as just as many
  rows go before a row as transactions before its own (`SameSize`).
- `FilledIs`: from a row to the nearest stated one the running sums of the rows and of
  the books differ by the same amount, so a filled balance is the bank's too.
- `CategorisedIs`: the join stages each transaction at least once, and just once, with its
  money, if no string is twice in the map; `FlatAre` and `RunReports` add up the accounts.

Hence `MoneyTies` and `DaysClose`. Sums are folds over finite sets: `TotalMore` and
`TotalNext` take one summand off, whichever the fold begins with.

Induction over data. The library's induction theorems take an operator as a
parameter, which no installed prover can instantiate. They are not needed:
`CountingUp` (a set of naturals with 0 that is closed under successor up to n has n)
and `SubsetInduction` (a set of subsets with {} that is closed under adding an element
has every finite subset) are proved from `WFMin`, a statement about a set. With them recursive functions
(`Only`, `Emit`, `Members`, `Pass`, `Chain`, `KeyRole`, `Visible`) and folds of the community
modules are proved about. What remains out of reach are RECURSIVE operators and
operators with an operator as a parameter: that is why lists are filtered by
`Only`, whose parameter is a set, in modules with such proofs.

Only model-checked: liveness (`WatchedSettles`, `LockComesFree`,
`WatchedBarClears`, `GraphsCatchUp`, `EditIsSaved`, `SignedOutMeetsLogin`,
`CallsAreAnswered`), as TLAPS has no ENABLED, so no fairness. Every invariant, action
property and refinement that a passing run checks is a theorem.

## 7. Not modelled

- The Databricks introspector and the text of the catalog queries: I/O. What
  comes of the rows is in `SchemaGraph`.
- The budget analysis views, the paginated transaction list and the metrics
  endpoint: read-only projections over the gold views of `Golden1`.
- Lakebase credentials: one critical section that hands out a cached token or
  mints another, with nothing between its steps that a model could interleave.
- Deployment scripts and images, except for the worker timeout in `Rebuild`.
- Presentation: generated components, charts, the camera and the automatic
  layout of the canvas, the wording of messages.
- Within modelled parts: data that no property tells apart (notes of an
  override, names as text, dates, what an entry of the log says); each module's
  head names what it leaves out.
- A budget map whose root is no mapping, lists in place of subcategories, and numbers below every
  integer (-1e999).
- Exports of one day in files that are named against the order of the books (`source.py:31`): the
  order of that day's rows is then not the bank's.
- dbt models that nothing else reads and no property is about (`gold_DimDate`,
  `gold_Golden1_UncategorizedTransactions`), and the moments within the statement that replaces a table.
- `ErdOverrides` is checked with single-threaded processes, for which
  `ReadYourWrites` says something; the theorems cover any number of threads.
