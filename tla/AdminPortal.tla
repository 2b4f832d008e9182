---------------------------- MODULE AdminPortal ----------------------------
(***************************************************************************)
(* The Admin Portal: who is an admin, who may use which app, and what the  *)
(* workspace says of jobs and costs.                                       *)
(*                                                                         *)
(* Requests are served by worker threads, one statement of the database at *)
(* a time and without a transaction around a request, so two requests      *)
(* interleave between any two statements.  AdminAuth decides at the start  *)
(* of a request; services.py does not look again.  UsersTable is the page  *)
(* of the admin Me; the other Callers use their own browsers.              *)
(*                                                                         *)
(* Databricks is outside: a call to it may answer, be denied or fail, and  *)
(* a statement may stay PENDING for as long as it likes.                   *)
(***************************************************************************)
EXTENDS Integers, Sequences

CONSTANTS
  Users, Apps,      \* the accounts and the grantable apps
  Me, Callers,      \* whose table is modelled, and who uses the other pages
  Promoted,         \* OMNIVIEW_ADMIN_EMAILS
  WithToken,        \* whose requests carry x-forwarded-access-token
  Workspace,        \* can WorkspaceClient() configure itself?
  Threads,
  PollBudget,       \* bound: polls of a statement within 120 seconds
  MaxCalls          \* bound: requests other than a refetch of the page

ASSUME PortalAssumption ==
  /\ Me \in Users /\ Callers \subseteq Users
  /\ Promoted \subseteq Users /\ WithToken \subseteq Users
  /\ Workspace \in BOOLEAN /\ PollBudget \in Nat /\ MaxCalls \in Nat

VARIABLES
  staff,    \* the users with is_staff
  grants,   \* the rows of AppAccess, unique per user and app
  threads,  \* what each worker thread does
  cache,    \* django's cache: whose data each <<monitor, user>> holds
  page,     \* UsersTable: the page it shows and the fetch in flight
  calls

vars == <<staff, grants, threads, cache, page, calls>>

Idle == [at |-> "idle"]
NoTable == [staff |-> {}, grants |-> {}]
Monitors == {"jobs", "costs"}
Steps == {"auth", "users", "grants", "select", "insert", "delete", "target",
          "save", "cached", "ask", "poll", "reply"}
App == "app identity"
Nobody == "nobody"

Changed(r, change) ==
  [f \in DOMAIN r |-> IF f \in DOMAIN change THEN change[f] ELSE r[f]]

(* How a thread goes on: the fields it changes. *)
Go(t, change) == threads' = [threads EXCEPT ![t] = Changed(@, change)]

(* The answer of a request: its HTTP status. *)
Answer(t, code) == Go(t, [at |-> "reply", code |-> code])

(* A request as ninja hands it to the handler. *)
Request(u, op) ==
  [at |-> "auth", by |-> u, op |-> op, on |-> u, app |-> Nobody, want |-> FALSE,
   seen |-> NoTable, todo |-> <<>>, data |-> Nobody, tries |-> 0, code |-> 0,
   mine |-> FALSE]

Send(t, r) == threads[t] = Idle /\ threads' = [threads EXCEPT ![t] = r]

(***************************************************************************)
(* Authorisation, and what each endpoint does first.                       *)
(***************************************************************************)
(* The promotion of a listed e-mail at every sign-in through the proxy. *)
SignIn(u) ==
  /\ u \in Promoted \ staff
  /\ staff' = staff \cup {u}
  /\ UNCHANGED <<grants, threads, cache, page, calls>>

First(op) ==
  CASE op = "list" -> "users"
    [] op \in {"grant", "revoke"} -> IF op = "grant" THEN "select" ELSE "delete"
    [] op = "admin" -> "target"
    [] OTHER -> "cached"

Todo(op) == IF op = "overview" THEN <<"jobs", "costs">>
            ELSE IF op \in Monitors THEN <<op>> ELSE <<>>

Authorize(t) ==
  LET r == threads[t] IN
  /\ r.at = "auth"
  /\ IF r.by \in staff THEN Go(t, [at |-> First(r.op), todo |-> Todo(r.op)])
                       ELSE Answer(t, 403)
  /\ UNCHANGED <<staff, grants, cache, page, calls>>

(***************************************************************************)
(* Users and access.                                                       *)
(***************************************************************************)
(* users_queryset: the users, then the grants that prefetch_related adds. *)
ListUsers(t) ==
  LET r == threads[t] IN
  /\ \/ r.at = "users" /\ Go(t, [at |-> "grants", seen |-> [NoTable EXCEPT !.staff = staff]])
     \/ /\ r.at = "grants"
        /\ Go(t, [at |-> "reply", code |-> 200, seen |-> [r.seen EXCEPT !.grants = grants]])
  /\ UNCHANGED <<staff, grants, cache, page, calls>>

(* get_or_create: a row another thread inserted meanwhile is taken instead. *)
GrantApp(t) ==
  LET r == threads[t] IN
  /\ \/ /\ r.at = "select"
        /\ IF <<r.on, r.app>> \in grants THEN Answer(t, 204) ELSE Go(t, [at |-> "insert"])
        /\ UNCHANGED grants
     \/ /\ r.at = "insert"
        /\ grants' = grants \cup {<<r.on, r.app>>}
        /\ Answer(t, 204)
  /\ UNCHANGED <<staff, cache, page, calls>>

RevokeApp(t) ==
  LET r == threads[t] IN
  /\ r.at = "delete"
  /\ grants' = grants \ {<<r.on, r.app>>}
  /\ Answer(t, 204)
  /\ UNCHANGED <<staff, cache, page, calls>>

(* Variant: demoting oneself is not refused. *)
SetAdminUnguarded(t) ==
  LET r == threads[t] IN
  /\ \/ /\ r.at = "target"
        /\ IF (r.on \in staff) = r.want THEN Answer(t, 200) ELSE Go(t, [at |-> "save"])
        /\ UNCHANGED staff
     \/ /\ r.at = "save"
        /\ staff' = IF r.want THEN staff \cup {r.on} ELSE staff \ {r.on}
        /\ Answer(t, 200)
  /\ UNCHANGED <<grants, cache, page, calls>>

(* Nobody demotes themselves; an unchanged flag is not written. *)
SetAdmin(t) ==
  LET r == threads[t] IN
  /\ \/ /\ r.at = "target"
        /\ IF r.on = r.by /\ ~r.want THEN Answer(t, 422)
           ELSE IF (r.on \in staff) = r.want THEN Answer(t, 200)
           ELSE Go(t, [at |-> "save"])
        /\ UNCHANGED staff
     \/ /\ r.at = "save"
        /\ staff' = IF r.want THEN staff \cup {r.on} ELSE staff \ {r.on}
        /\ Answer(t, 200)
  /\ UNCHANGED <<grants, cache, page, calls>>

(***************************************************************************)
(* Monitoring: jobs and costs, on behalf of the caller.                    *)
(***************************************************************************)
(* Variant: one cache entry per monitor, whoever asks. *)
KeyShared(r) == <<Head(r.todo), Me>>

(* The cache key names the monitor and the caller. *)
Key(r) == <<Head(r.todo), r.by>>

(* Who obo_client speaks for: the caller with a forwarded token, or the app. *)
OnBehalf(u) == IF u \in WithToken THEN u ELSE IF Workspace THEN App ELSE Nobody

(* The monitor is done: the overview has the other one to fetch yet. *)
Done(r, whose) ==
  IF Len(r.todo) > 1
    THEN [at |-> "cached", todo |-> Tail(r.todo), data |-> whose, tries |-> 0]
    ELSE [at |-> "reply", code |-> 200, data |-> whose]

(* A DatabricksForbidden (403) or DatabricksNotConnected (503): the overview *)
(* goes on without the number, the other endpoints answer with the error.    *)
Degrade(r, code) ==
  IF r.op # "overview"
    THEN [at |-> "reply", code |-> code, data |-> Nobody] ELSE Done(r, Nobody)

Lookup(t) ==
  LET r == threads[t]  whose == OnBehalf(r.by) IN
  /\ r.at = "cached"
  /\ Go(t, IF cache[Key(r)] # Nobody THEN Done(r, cache[Key(r)])
           ELSE IF whose = Nobody THEN Degrade(r, 503)
           ELSE [at |-> "ask", data |-> whose])
  /\ UNCHANGED <<staff, grants, cache, page, calls>>

(* Jobs that are denied are asked for once more, as the app itself. *)
Denied(r) ==
  IF Head(r.todo) = "jobs" /\ r.tries = 0
    THEN IF Workspace THEN [data |-> App, tries |-> 1] ELSE Degrade(r, 503)
    ELSE Degrade(r, 403)

(* A result is cached for its caller and handed on. *)
Keep(t, r) == cache' = [cache EXCEPT ![Key(r)] = r.data] /\ Go(t, Done(r, r.data))

Ask(t) ==
  LET r == threads[t] IN
  /\ r.at = "ask"
  /\ \/ Keep(t, r)
     \/ (Go(t, Denied(r)) \/ Go(t, Degrade(r, 503))) /\ UNCHANGED cache
     \/ Head(r.todo) = "costs" /\ Go(t, [at |-> "poll"]) /\ UNCHANGED cache
  /\ UNCHANGED <<staff, grants, page, calls>>

(* Variant: the polling has no deadline. *)
PollForever(t) ==
  LET r == threads[t] IN
  /\ r.at = "poll"
  /\ \/ Keep(t, r)
     \/ (Go(t, Degrade(r, 403)) \/ Go(t, Degrade(r, 503))) /\ UNCHANGED cache
     \/ Go(t, [tries |-> 1 - r.tries]) /\ UNCHANGED cache
  /\ UNCHANGED <<staff, grants, page, calls>>

(* run_warehouse_sql asks again every three seconds while the statement is *)
(* PENDING or RUNNING, until the budget is spent.                          *)
Poll(t) ==
  LET r == threads[t] IN
  /\ r.at = "poll"
  /\ \/ Keep(t, r)
     \/ (Go(t, Degrade(r, 403)) \/ Go(t, Degrade(r, 503))) /\ UNCHANGED cache
     \/ r.tries <= PollBudget /\ Go(t, [tries |-> r.tries + 1]) /\ UNCHANGED cache
  /\ UNCHANGED <<staff, grants, page, calls>>

(* An entry of the cache reaches its time to live. *)
Expire(k) ==
  /\ cache[k] # Nobody
  /\ cache' = [cache EXCEPT ![k] = Nobody]
  /\ UNCHANGED <<staff, grants, threads, page, calls>>

(***************************************************************************)
(* UsersTable, the page of Me, and the browsers of the others.             *)
(***************************************************************************)
Mine(u, op) == [Request(u, op) EXCEPT !.mine = TRUE]

(* useResource on mount, and the retry of ErrorState. *)
OpenTable(t) ==
  /\ page.status # "success" /\ ~page.fetching
  /\ Send(t, Mine(Me, "list"))
  /\ page' = [page EXCEPT !.fetching = TRUE]
  /\ calls < MaxCalls /\ calls' = calls + 1
  /\ UNCHANGED <<staff, grants, cache>>

(* A switch of the table: an app of somebody who is no admin, or the admin *)
(* flag of anybody else.  It asks for the opposite of what it shows.       *)
Toggle(t, u, a) ==
  LET shown == page.table IN
  /\ page.status = "success"
  /\ \/ /\ u \notin shown.staff
        /\ Send(t, [Mine(Me, IF <<u, a>> \in shown.grants THEN "revoke" ELSE "grant")
                      EXCEPT !.on = u, !.app = a])
     \/ /\ u # Me
        /\ Send(t, [Mine(Me, "admin") EXCEPT !.on = u, !.want = u \notin shown.staff])
  /\ calls < MaxCalls /\ calls' = calls + 1
  /\ page' = [page EXCEPT !.alert = FALSE]
  /\ UNCHANGED <<staff, grants, cache>>

(* act: a change that landed refetches, and joins a fetch in flight; a     *)
(* change that failed raises the banner and refetches nothing.             *)
TakeChange(t) ==
  LET r == threads[t] IN
  /\ r.at = "reply" /\ r.mine /\ r.op # "list"
  /\ IF r.code < 300 /\ ~page.fetching
       THEN /\ threads' = [threads EXCEPT ![t] = Mine(Me, "list")]
            /\ page' = [page EXCEPT !.fetching = TRUE]
       ELSE /\ threads' = [threads EXCEPT ![t] = Idle]
            /\ page' = [page EXCEPT !.alert = @ \/ r.code >= 300]
  /\ UNCHANGED <<staff, grants, cache, calls>>

TakeList(t) ==
  LET r == threads[t] IN
  /\ r.at = "reply" /\ r.mine /\ r.op = "list"
  /\ threads' = [threads EXCEPT ![t] = Idle]
  /\ page' = IF r.code = 200
               THEN [page EXCEPT !.table = r.seen, !.status = "success", !.fetching = FALSE]
               ELSE [page EXCEPT !.status = "error", !.fetching = FALSE]
  /\ UNCHANGED <<staff, grants, cache, calls>>

(* A request of another page: of the monitors, or of another admin's table. *)
CallPortal(t, u) ==
  /\ calls < MaxCalls /\ calls' = calls + 1
  /\ \/ u # Me /\ \E v \in Users, want \in BOOLEAN :
          Send(t, [Request(u, "admin") EXCEPT !.on = v, !.want = want])
     \/ \E op \in Monitors \cup {"overview"} : Send(t, Request(u, op))
  /\ UNCHANGED <<staff, grants, cache, page>>

Leave(t) ==
  /\ threads[t].at = "reply" /\ ~threads[t].mine
  /\ threads' = [threads EXCEPT ![t] = Idle]
  /\ UNCHANGED <<staff, grants, cache, page, calls>>

Serve(t) ==
  \/ Authorize(t) \/ ListUsers(t) \/ GrantApp(t) \/ RevokeApp(t) \/ SetAdmin(t)
  \/ Lookup(t) \/ Ask(t) \/ Poll(t)

Take(t) == TakeChange(t) \/ TakeList(t) \/ Leave(t)

Init ==
  /\ staff \in {s \in SUBSET Users : Me \in s}
  /\ grants = {}
  /\ threads = [t \in Threads |-> Idle]
  /\ cache = [k \in Monitors \X Users |-> Nobody]
  /\ page = [table |-> NoTable, status |-> "loading", fetching |-> FALSE, alert |-> FALSE]
  /\ calls = 0

Next ==
  \/ \E t \in Threads : Serve(t) \/ Take(t) \/ OpenTable(t)
  \/ \E t \in Threads, u \in Users, a \in Apps : Toggle(t, u, a)
  \/ \E t \in Threads, u \in Callers : CallPortal(t, u)
  \/ \E u \in Users : SignIn(u)
  \/ \E k \in DOMAIN cache : Expire(k)

(* A thread that serves a request goes on: every statement and every call  *)
(* to Databricks answers or raises.                                        *)
Spec == Init /\ [][Next]_vars /\ \A t \in Threads : WF_vars(Serve(t) \/ Take(t))

(***************************************************************************)
(* Properties.                                                             *)
(***************************************************************************)
(* An admin remains: the guard against demoting oneself (services.py:79)    *)
(* keeps one, unless the admin whose request takes the last one was demoted *)
(* by somebody else after AdminAuth had let the request in.                 *)
LockoutNeedsARace ==
  [][staff # {} /\ staff' = {} =>
       \E t \in Threads : threads[t].at = "save" /\ threads[t].by \notin staff]_vars

(* Data fetched with one user's token is never handed to another user: the  *)
(* caches of jobs and costs are per user (services.py:33).                  *)
OwnDataOnly ==
  \A t \in Threads : threads[t].at # "idle" =>
     threads[t].data \in {threads[t].by, App, Nobody}

(* Every request is answered, a statement that stays PENDING included.      *)
CallsAreAnswered == \A t \in Threads : threads[t].at # "idle" ~> threads[t].at = "idle"
=============================================================================
