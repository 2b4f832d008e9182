------------------------- MODULE AdminPortalProofs -------------------------
(* Proofs about AdminPortal: whose data a request holds, and what it takes *)
(* to lose the last admin.                                                 *)
EXTENDS AdminPortal, TLAPS

Ops == {"list", "grant", "revoke", "admin", "jobs", "costs", "overview"}
Fields == {"at", "by", "op", "on", "app", "want", "seen", "todo", "data", "tries", "code", "mine"}
Monitoring == {"cached", "ask", "poll"}

(* Data of a user are with requests and entries of this user only. *)
Owns(u, data) == data \in {u, App, Nobody}

(* A request keeps its caller; while it monitors there is a monitor left;   *)
(* about to save, it is not about to demote its own caller.                *)
Serving(r) ==
  /\ DOMAIN r = Fields
  /\ r.by \in Users /\ r.op \in Ops
  /\ Owns(r.by, r.data)
  /\ r.todo \in {<<>>, <<"jobs">>, <<"costs">>, <<"jobs", "costs">>}
  /\ r.at \in Monitoring => r.todo # <<>>
  /\ r.at = "save" => r.want \/ r.on # r.by

CacheInv ==
  /\ DOMAIN cache = Monitors \X Users
  /\ \A k \in Monitors \X Users : Owns(k[2], cache[k])

ThreadsInv ==
  /\ threads = [t \in Threads |-> threads[t]]
  /\ \A t \in Threads : threads[t] = Idle \/ Serving(threads[t])

IInv == CacheInv /\ ThreadsInv

-----------------------------------------------------------------------------
(* How the record of a request changes. *)

(* A step that goes on to anything but a monitor or a save keeps the caller, *)
(* the data and the monitors.                                              *)
LEMMA PlainStep ==
  ASSUME NEW r, Serving(r), NEW change,
         "at" \in DOMAIN change, change["at"] \notin Monitoring \cup {"save"},
         {"by", "op", "data", "todo"} \cap DOMAIN change = {}
  PROVE  Serving(Changed(r, change))
  BY DEF Serving, Changed, Fields, Owns, Monitoring

(* An answer is such a step. *)
LEMMA AnswerStep ==
  ASSUME NEW r, Serving(r), NEW code
  PROVE  Serving(Changed(r, [at |-> "reply", code |-> code]))
  BY PlainStep DEF Monitoring

(* While a request monitors, the head of its todo is a monitor, and an entry *)
(* of the cache under its key is its caller's.                             *)
LEMMA KeyIsMine ==
  ASSUME NEW r, Serving(r), r.at \in Monitoring
  PROVE  Key(r) \in Monitors \X Users /\ Key(r)[2] = r.by
  BY DEF Serving, Key, Monitors

(* What obo_client yields is the caller's. *)
LEMMA OnBehalfIsMine == ASSUME NEW u PROVE Owns(u, OnBehalf(u))
  BY DEF OnBehalf, Owns

(* Two monitors are left only while the overview is about the jobs. *)
LEMMA TwoLeft ==
  ASSUME NEW todo, todo \in {<<>>, <<"jobs">>, <<"costs">>, <<"jobs", "costs">>}, Len(todo) > 1
  PROVE  Tail(todo) = <<"costs">>
<1>1. todo = <<"jobs", "costs">>
  OBVIOUS
<1>2. Tail(<<"jobs", "costs">>) = <<"costs">>
  OBVIOUS
<1> QED BY <1>1, <1>2

(* A monitor that ends with data of the caller leaves a good request. *)
LEMMA DoneStep ==
  ASSUME NEW r, Serving(r), r.at \in Monitoring, NEW whose, Owns(r.by, whose)
  PROVE  Serving(Changed(r, Done(r, whose)))
<1>1. CASE Len(r.todo) > 1
  <2>1. Done(r, whose) = [at |-> "cached", todo |-> Tail(r.todo), data |-> whose, tries |-> 0]
    BY <1>1 DEF Done
  <2>2. r.todo \in {<<>>, <<"jobs">>, <<"costs">>, <<"jobs", "costs">>}
    BY DEF Serving
  <2>3. Tail(r.todo) = <<"costs">>
    BY <1>1, <2>2, TwoLeft
  <2> DEFINE next == Changed(r, [at |-> "cached", todo |-> <<"costs">>, data |-> whose, tries |-> 0])
  <2>4. Changed(r, Done(r, whose)) = next
    BY <2>1, <2>3
  <2>5. /\ DOMAIN next = Fields /\ next.at = "cached" /\ next.by = r.by /\ next.op = r.op
        /\ next.data = whose /\ next.todo = <<"costs">>
    BY DEF Serving, Changed, Fields
  <2>6. <<"costs">> # <<>>
    OBVIOUS
  <2>7. Serving(next)
    <3> HIDE DEF next
    <3> QED BY <2>5, <2>6 DEF Serving
  <2> QED BY <2>4, <2>7
<1>2. CASE ~(Len(r.todo) > 1)
  <2>1. Done(r, whose) = [at |-> "reply", code |-> 200, data |-> whose]
    BY <1>2 DEF Done
  <2> QED BY <2>1 DEF Serving, Changed, Fields, Owns, Monitoring
<1> QED BY <1>1, <1>2

(* So does one that fails. *)
LEMMA DegradeStep ==
  ASSUME NEW r, Serving(r), r.at \in Monitoring, NEW code
  PROVE  Serving(Changed(r, Degrade(r, code)))
<1>1. CASE r.op # "overview"
  <2>1. Degrade(r, code) = [at |-> "reply", code |-> code, data |-> Nobody]
    BY <1>1 DEF Degrade
  <2> QED BY <2>1 DEF Serving, Changed, Fields, Owns, Monitoring
<1>2. CASE r.op = "overview"
  BY <1>2, DoneStep DEF Degrade, Owns
<1> QED BY <1>1, <1>2

(* And the second attempt of the jobs, as the app. *)
LEMMA DeniedStep ==
  ASSUME NEW r, Serving(r), r.at \in Monitoring
  PROVE  Serving(Changed(r, Denied(r)))
<1>1. CASE Denied(r) = [data |-> App, tries |-> 1]
  BY <1>1 DEF Serving, Changed, Fields, Owns
<1>2. CASE Denied(r) = Degrade(r, 503)
  BY <1>2, DegradeStep
<1>3. CASE Denied(r) = Degrade(r, 403)
  BY <1>3, DegradeStep
<1>4. Denied(r) \in {[data |-> App, tries |-> 1], Degrade(r, 503), Degrade(r, 403)}
  BY DEF Denied
<1> QED BY <1>1, <1>2, <1>3, <1>4

-----------------------------------------------------------------------------
(* Steps of the system. *)

(* A thread that goes on with a good request keeps ThreadsInv. *)
LEMMA GoKeeps ==
  ASSUME ThreadsInv, NEW t \in Threads, NEW r, threads' = [threads EXCEPT ![t] = r],
         r = Idle \/ Serving(r)
  PROVE  ThreadsInv'
  BY DEF ThreadsInv, Serving, Owns, Idle

(* A request that is at a step is served. *)
LEMMA AtStep ==
  ASSUME ThreadsInv, NEW t \in Threads, threads[t].at # "idle"
  PROVE  Serving(threads[t])
  BY DEF ThreadsInv, Idle

(* A new request is a good one. *)
LEMMA NewRequest ==
  ASSUME NEW u \in Users, NEW op \in Ops
  PROVE  /\ Serving(Request(u, op))
         /\ Serving(Mine(u, op))
         /\ \A v, a : Serving([Mine(u, op) EXCEPT !.on = v, !.app = a])
         /\ \A v, w : Serving([Mine(u, op) EXCEPT !.on = v, !.want = w])
         /\ \A v, w : Serving([Request(u, op) EXCEPT !.on = v, !.want = w])
  BY DEF Serving, Request, Mine, Fields, Owns, Monitoring

(* A step that has to do with neither threads nor the cache. *)
LEMMA Elsewhere == ASSUME IInv, UNCHANGED <<threads, cache>> PROVE IInv'
  BY DEF IInv, CacheInv, ThreadsInv, Serving, Owns

(* A step of a thread that leaves the cache alone. *)
LEMMA ThreadStep ==
  ASSUME IInv, NEW t \in Threads, NEW r, threads' = [threads EXCEPT ![t] = r],
         r = Idle \/ Serving(r), UNCHANGED cache
  PROVE  IInv'
<1>1. ThreadsInv'
  BY GoKeeps DEF IInv
<1>2. CacheInv'
  BY DEF IInv, CacheInv, Owns
<1> QED BY <1>1, <1>2 DEF IInv

LEMMA GoStep ==
  ASSUME IInv, NEW t \in Threads, NEW change, Go(t, change), Serving(Changed(threads[t], change)),
         UNCHANGED cache
  PROVE  IInv'
BY ThreadStep DEF Go

(* A result is kept for its caller. *)
LEMMA KeepStep ==
  ASSUME IInv, NEW t \in Threads, threads[t].at \in Monitoring, Keep(t, threads[t])
  PROVE  IInv'
<1> DEFINE r == threads[t]
<1>1. Serving(r)
  BY AtStep DEF IInv, Monitoring
<1>2. Owns(r.by, r.data)
  BY <1>1 DEF Serving
<1>3. ThreadsInv'
  BY <1>1, <1>2, DoneStep, GoKeeps DEF IInv, Keep, Go
<1>4. CacheInv'
  BY <1>1, <1>2, KeyIsMine DEF IInv, CacheInv, Keep
<1> QED BY <1>3, <1>4 DEF IInv

-----------------------------------------------------------------------------
(* Initially no thread serves anybody and the cache is empty. *)
LEMMA InitHolds == ASSUME Init PROVE IInv
  BY DEF Init, IInv, CacheInv, ThreadsInv, Owns

(* Every step keeps the invariant. *)
LEMMA StepHolds == ASSUME IInv, [Next]_vars PROVE IInv'
<1> USE PortalAssumption
<1>1. ASSUME NEW t \in Threads, Authorize(t) PROVE IInv'
  <2> DEFINE r == threads[t]
  <2>1. Serving(r)
    BY <1>1, AtStep DEF IInv, Authorize
  <2>2. Serving(Changed(r, [at |-> First(r.op), todo |-> Todo(r.op)]))
    BY <2>1 DEF Serving, Changed, Fields, Owns, Monitoring, First, Todo, Ops, Monitors
  <2> QED BY <1>1, <2>1, <2>2, AnswerStep, ThreadStep DEF Authorize, Answer, Go
<1>2. ASSUME NEW t \in Threads, ListUsers(t) PROVE IInv'
  <2> DEFINE r == threads[t]
  <2>1. Serving(r)
    BY <1>2, AtStep DEF IInv, ListUsers
  <2>2. \A x : Serving(Changed(r, [at |-> "grants", seen |-> x]))
    BY <2>1, PlainStep DEF Monitoring
  <2>3. \A x : Serving(Changed(r, [at |-> "reply", code |-> 200, seen |-> x]))
    BY <2>1, PlainStep DEF Monitoring
  <2> QED BY <1>2, <2>2, <2>3, ThreadStep DEF ListUsers, Go
<1>3. ASSUME NEW t \in Threads, GrantApp(t) PROVE IInv'
  <2> DEFINE change == [at |-> "insert"]
  <2>1. Serving(threads[t]) /\ UNCHANGED cache
    BY <1>3, AtStep DEF IInv, GrantApp
  <2>2. /\ "at" \in DOMAIN change /\ change["at"] \notin Monitoring \cup {"save"}
        /\ {"by", "op", "data", "todo"} \cap DOMAIN change = {}
    BY DEF Monitoring
  <2>3. Answer(t, 204) \/ Go(t, change)
    BY <1>3 DEF GrantApp
  <2> HIDE DEF change
  <2>4. Serving(Changed(threads[t], change))
    BY <2>1, <2>2, PlainStep
  <2>5. CASE Answer(t, 204)
    BY <2>1, <2>5, AnswerStep, GoStep DEF Answer
  <2>6. CASE Go(t, change)
    BY <2>1, <2>4, <2>6, GoStep
  <2> QED BY <2>3, <2>5, <2>6
<1>4. ASSUME NEW t \in Threads, RevokeApp(t) PROVE IInv'
  <2>1. Serving(threads[t])
    BY <1>4, AtStep DEF IInv, RevokeApp
  <2>2. Answer(t, 204) /\ UNCHANGED cache
    BY <1>4 DEF RevokeApp
  <2>3. Serving(Changed(threads[t], [at |-> "reply", code |-> 204]))
    BY <2>1, AnswerStep
  <2> QED BY <2>2, <2>3, GoStep DEF Answer
<1>5. ASSUME NEW t \in Threads, SetAdmin(t) PROVE IInv'
  <2> DEFINE r == threads[t]
  <2>1. Serving(r)
    BY <1>5, AtStep DEF IInv, SetAdmin
  <2>2. r.want \/ r.on # r.by => Serving(Changed(r, [at |-> "save"]))
    BY <2>1 DEF Serving, Changed, Fields, Owns, Monitoring
  <2>3. CASE r.at = "target"
    BY <1>5, <2>1, <2>2, <2>3, AnswerStep, ThreadStep DEF SetAdmin, Answer, Go
  <2>4. CASE r.at = "save"
    BY <1>5, <2>1, <2>4, AnswerStep, ThreadStep DEF SetAdmin, Answer, Go
  <2> QED BY <1>5, <2>3, <2>4 DEF SetAdmin
<1>6. ASSUME NEW t \in Threads, Lookup(t) PROVE IInv'
  <2> DEFINE r == threads[t]
  <2>1. Serving(r) /\ r.at \in Monitoring
    BY <1>6, AtStep DEF IInv, Lookup, Monitoring
  <2>2. Owns(r.by, cache[Key(r)])
    BY <2>1, KeyIsMine DEF IInv, CacheInv
  <2>3. Serving(Changed(r, [at |-> "ask", data |-> OnBehalf(r.by)]))
    BY <2>1, OnBehalfIsMine DEF Serving, Changed, Fields, Monitoring
  <2>4. Serving(Changed(r, Done(r, cache[Key(r)]))) /\ Serving(Changed(r, Degrade(r, 503)))
    BY <2>1, <2>2, DoneStep, DegradeStep
  <2>5. UNCHANGED cache /\ Go(t, IF cache[Key(r)] # Nobody THEN Done(r, cache[Key(r)])
                                ELSE IF OnBehalf(r.by) = Nobody THEN Degrade(r, 503)
                                ELSE [at |-> "ask", data |-> OnBehalf(r.by)])
    BY <1>6 DEF Lookup
  <2>6. CASE cache[Key(r)] # Nobody
    <3>1. Go(t, Done(r, cache[Key(r)]))
      BY <2>5, <2>6
    <3> QED BY <2>4, <2>5, <3>1, GoStep
  <2>7. CASE cache[Key(r)] = Nobody /\ OnBehalf(r.by) = Nobody
    <3>1. Go(t, Degrade(r, 503))
      BY <2>5, <2>7
    <3> QED BY <2>4, <2>5, <3>1, GoStep
  <2>8. CASE cache[Key(r)] = Nobody /\ OnBehalf(r.by) # Nobody
    <3>1. Go(t, [at |-> "ask", data |-> OnBehalf(r.by)])
      BY <2>5, <2>8
    <3> QED BY <2>3, <2>5, <3>1, GoStep
  <2> QED BY <2>6, <2>7, <2>8
<1>7. ASSUME NEW t \in Threads, Ask(t) PROVE IInv'
  <2> DEFINE r == threads[t]
  <2>1. Serving(r) /\ r.at \in Monitoring
    BY <1>7, AtStep DEF IInv, Ask, Monitoring
  <2>2. Serving(Changed(r, Denied(r))) /\ Serving(Changed(r, Degrade(r, 503)))
    BY <2>1, DeniedStep, DegradeStep
  <2>3. Serving(Changed(r, [at |-> "poll"]))
    BY <2>1 DEF Serving, Changed, Fields, Owns, Monitoring
  <2> QED BY <1>7, <2>1, <2>2, <2>3, KeepStep, ThreadStep DEF Ask, Go
<1>8. ASSUME NEW t \in Threads, Poll(t) PROVE IInv'
  <2> DEFINE r == threads[t]
  <2>1. Serving(r) /\ r.at \in Monitoring
    BY <1>8, AtStep DEF IInv, Poll, Monitoring
  <2>2. Serving(Changed(r, Degrade(r, 403))) /\ Serving(Changed(r, Degrade(r, 503)))
    BY <2>1, DegradeStep
  <2>3. Serving(Changed(r, [tries |-> r.tries + 1]))
    BY <2>1 DEF Serving, Changed, Fields, Owns, Monitoring
  <2> QED BY <1>8, <2>1, <2>2, <2>3, KeepStep, ThreadStep DEF Poll, Go
<1>9. ASSUME NEW t \in Threads, Take(t) PROVE IInv'
  BY <1>9, ThreadStep, NewRequest DEF Take, TakeChange, TakeList, Leave, Ops
<1>10. ASSUME NEW t \in Threads, OpenTable(t) PROVE IInv'
  BY <1>10, ThreadStep, NewRequest DEF OpenTable, Send, Ops
<1>11. ASSUME NEW t \in Threads, NEW u \in Users, NEW a \in Apps, Toggle(t, u, a) PROVE IInv'
  <2> DEFINE op == IF <<u, a>> \in page.table.grants THEN "revoke" ELSE "grant"
             app == [Mine(Me, op) EXCEPT !.on = u, !.app = a]
             admin == [Mine(Me, "admin") EXCEPT !.on = u, !.want = u \notin page.table.staff]
  <2>1. Serving(app) /\ Serving(admin)
    BY NewRequest DEF Ops
  <2>2. Send(t, app) \/ Send(t, admin)
    BY <1>11 DEF Toggle
  <2>3. UNCHANGED cache
    BY <1>11 DEF Toggle
  <2> HIDE DEF app, admin
  <2> QED BY <2>1, <2>2, <2>3, ThreadStep DEF Send
<1>12. ASSUME NEW t \in Threads, NEW u \in Callers, CallPortal(t, u) PROVE IInv'
  <2>1. \A op \in Ops : Serving(Request(u, op))
    BY NewRequest
  <2>2. \A v, w : Serving([Request(u, "admin") EXCEPT !.on = v, !.want = w])
    BY NewRequest DEF Ops
  <2>3. CASE \E v \in Users, w \in BOOLEAN : Send(t, [Request(u, "admin") EXCEPT !.on = v, !.want = w])
    BY <1>12, <2>2, <2>3, ThreadStep DEF CallPortal, Send
  <2>4. CASE \E op \in Monitors \cup {"overview"} : Send(t, Request(u, op))
    BY <1>12, <2>1, <2>4, ThreadStep DEF CallPortal, Send, Ops, Monitors
  <2> QED BY <1>12, <2>3, <2>4 DEF CallPortal
<1>13. ASSUME NEW u \in Users, SignIn(u) PROVE IInv'
  BY <1>13, Elsewhere DEF SignIn
<1>14. ASSUME NEW k \in DOMAIN cache, Expire(k) PROVE IInv'
  BY <1>14 DEF Expire, IInv, CacheInv, ThreadsInv, Serving, Owns
<1>15. CASE UNCHANGED vars
  BY <1>15, Elsewhere DEF vars
<1> QED
  BY <1>1, <1>2, <1>3, <1>4, <1>5, <1>6, <1>7, <1>8, <1>9, <1>10, <1>11, <1>12, <1>13, <1>14, <1>15
  DEF Next, Serve

(* The invariant holds in every behaviour. *)
LEMMA Invariant == Spec => []IInv
  BY InitHolds, StepHolds, PTL DEF Spec

(* Jobs and costs fetched for one user never reach a request of another: no *)
(* cache entry and no thread mixes callers, however requests interleave.    *)
THEOREM DataStaysHome == Spec => []OwnDataOnly
<1>1. ASSUME IInv, NEW t \in Threads PROVE threads[t] = Idle \/ Serving(threads[t])
  BY <1>1 DEF IInv, ThreadsInv
<1>2. IInv => OwnDataOnly
  BY <1>1 DEF IInv, Serving, Owns, OwnDataOnly, Idle
<1> QED BY <1>2, Invariant, PTL

(* A step that takes the last admin belongs to a request whose caller has    *)
(* been demoted since AdminAuth let it in.                                 *)
LEMMA LastAdmin ==
  ASSUME IInv, [Next]_vars, staff # {}, staff' = {}
  PROVE  \E t \in Threads : threads[t].at = "save" /\ threads[t].by \notin staff
<1>1. PICK t \in Threads : SetAdmin(t)
  <2>1. ASSUME NEW t \in Threads, Serve(t), ~SetAdmin(t) PROVE staff' = staff
    BY <2>1 DEF Serve, Authorize, ListUsers, GrantApp, RevokeApp, Lookup, Ask, Poll
  <2>2. ASSUME NEW t \in Threads, Take(t) PROVE staff' = staff
    BY <2>2 DEF Take, TakeChange, TakeList, Leave
  <2>3. ASSUME NEW t \in Threads, OpenTable(t) PROVE staff' = staff
    BY <2>3 DEF OpenTable
  <2>4. ASSUME NEW t \in Threads, NEW u, NEW a, Toggle(t, u, a) PROVE staff' = staff
    BY <2>4 DEF Toggle
  <2>5. ASSUME NEW t \in Threads, NEW u, CallPortal(t, u) PROVE staff' = staff
    BY <2>5 DEF CallPortal
  <2>6. ASSUME NEW u, SignIn(u) PROVE staff' # {}
    BY <2>6 DEF SignIn
  <2>7. ASSUME NEW k, Expire(k) PROVE staff' = staff
    BY <2>7 DEF Expire
  <2>8. vars' = vars => staff' = staff
    BY DEF vars
  <2> QED BY <2>1, <2>2, <2>3, <2>4, <2>5, <2>6, <2>7, <2>8 DEF Next
<1>2. threads[t].at = "save" /\ ~threads[t].want /\ staff \ {threads[t].on} = {}
  BY <1>1 DEF SetAdmin
<1>3. threads[t].on # threads[t].by
  BY <1>2, AtStep DEF IInv, Serving
<1> QED BY <1>2, <1>3

(* The guard against demoting oneself keeps an admin but for that race. *)
THEOREM LockoutIsARace == Spec => LockoutNeedsARace
<1>1. IInv /\ [Next]_vars =>
        [staff # {} /\ staff' = {} =>
           \E t \in Threads : threads[t].at = "save" /\ threads[t].by \notin staff]_vars
  BY LastAdmin
<1> QED BY <1>1, Invariant, PTL DEF LockoutNeedsARace, Spec
=============================================================================
