------------------------------ MODULE Rebuild ------------------------------
(***************************************************************************)
(* backend/shell/pipeline.py and what it runs: POST /budgets/rebuild takes *)
(* a worker's in-process lock and waits for a child process, the pipeline  *)
(* of pipelines/expense_tracker/main.py, which reads the saved budget map  *)
(* and CSVs, stages them, and has dbt rebuild the models every page reads: *)
(* a graph of models built in four threads, in which the failure of one    *)
(* stops those above it and no others.                                     *)
(*                                                                         *)
(* A worker is a gunicorn worker (one thread) or the threaded development  *)
(* server.  gunicorn kills one that has been busy for --timeout seconds:   *)
(* its requests and its lock are gone, the child it started runs on.       *)
(***************************************************************************)
EXTENDS Naturals, FiniteSets

CONSTANTS Workers,   \* server processes
          Threads,   \* requests one worker handles at a time
          Posts,     \* POST /budgets/rebuild requests
          Polls,     \* GET /budgets/rebuild/status requests, reused
          Shells,    \* pipeline runs started from a shell
          Accounts,  \* the bank's accounts, each with its tables
          Gold,      \* the models over them, if any are selected
          Nobody,    \* no worker, no lock holder
          MaxSave,   \* bound: on the sum of the two saved versions
          MaxRuns,   \* bound: how many pipelines are asked for
          MaxKills   \* bound: how many workers are killed

Runs == Posts \union Shells
Requests == Posts \union Polls

(* The dbt models.  A bronze table stands for the views over it alone too. *)
Tables == Accounts \union {"BudgetMap"}
Views == Gold \ {"metrics"}
Models == Tables \union Gold

ASSUME DistinctNames ==
  /\ Posts \intersect Shells = {} /\ Posts \intersect Polls = {}
  /\ Nobody \notin Workers /\ Nobody \notin Posts
  /\ Accounts \intersect {"BudgetMap", "transactions", "analysis", "metrics"} = {}
ASSUME GoldIsGiven ==
  Gold \in {{}, {"transactions", "analysis", "metrics"}}
ASSUME BoundsAreNat ==
  /\ Threads \in Nat \ {0} /\ MaxSave \in Nat
  /\ MaxRuns \in Nat /\ MaxKills \in Nat

VARIABLES saved,      \* the version of each source in the omniview schema
          pc,         \* where each request is
          on,         \* the worker whose thread serves the request
          holder,     \* _rebuild_lock of each worker
          reply,      \* what each request was answered
          stage,      \* where each pipeline run is
          got,        \* the versions each run has read
          done,       \* the tables it has staged, then the models it has built
          failed,     \* the models whose build or data test has failed
          staged,     \* the reading each stg_ table was written from
          bronze,     \* the reading behind each bronze table
          metrics,    \* the readings behind gold_Golden1_DailyMetrics, a table
          views,      \* the gold views that exist
          whole,      \* history: the last dbt build to start has succeeded
          kills,      \* workers killed so far
          asked,      \* history: what was saved when the POST was sent
          overlapped  \* history: the runs another run was alive with

http == <<pc, on, holder, reply>>
progress == <<got, done, failed>>
tables == <<staged, bronze, metrics, views, whole>>
vars == <<saved, http, stage, progress, tables, kills, asked, overlapped>>

-----------------------------------------------------------------------------
(* Types and helpers. *)

Sources == {"map", "files"}
Versions == [Sources -> Nat]
None == [s \in Sources |-> 0]

Places == {"idle", "queued", "handling", "locked", "waiting", "answered", "lost"}
Replies == {"none", "ok", "failed", "error", "already_running", "running", "idle"}
Stages == {"off", "maps", "files", "stage", "dbt", "exit0", "exit1"}

TypeOK ==
  /\ saved \in Versions
  /\ pc \in [Requests -> Places]
  /\ on \in [Requests -> Workers \union {Nobody}]
  /\ holder \in [Workers -> Posts \union {Nobody}]
  /\ reply \in [Requests -> Replies]
  /\ stage \in [Runs -> Stages]
  /\ got \in [Runs -> Versions]
  /\ done \in [Runs -> SUBSET Models]
  /\ failed \in [Runs -> SUBSET Models]
  /\ staged \in [Tables -> Versions]
  /\ bronze \in [Tables -> Versions]
  /\ metrics \in SUBSET Versions
  /\ views \in SUBSET Views
  /\ whole \in BOOLEAN
  /\ kills \in Nat
  /\ asked \in [Posts -> Versions]
  /\ overlapped \in SUBSET Runs

Alive(c) == stage[c] \notin {"off", "exit0", "exit1"}

Load(w) == Cardinality({q \in Requests : on[q] = w})

(* Not too many pipelines have been asked for, by a POST or in a shell. *)
Room ==
  Cardinality({p \in Posts : pc[p] # "idle"} \union {c \in Shells : stage[c] # "off"})
    < MaxRuns

(* Request q leaves its worker with answer a. *)
Respond(q, a) ==
  /\ reply' = [reply EXCEPT ![q] = a]
  /\ pc' = [pc EXCEPT ![q] = "answered"]
  /\ on' = [on EXCEPT ![q] = Nobody]

-----------------------------------------------------------------------------
Init ==
  /\ saved = [s \in Sources |-> 1]
  /\ pc = [q \in Requests |-> "idle"]
  /\ on = [q \in Requests |-> Nobody]
  /\ holder = [w \in Workers |-> Nobody]
  /\ reply = [q \in Requests |-> "none"]
  /\ stage = [c \in Runs |-> "off"]
  /\ got = [c \in Runs |-> None]
  /\ done = [c \in Runs |-> {}]
  /\ failed = [c \in Runs |-> {}]
  /\ staged = [t \in Tables |-> None]
  /\ bronze = [t \in Tables |-> None]
  /\ metrics = {} /\ views = {}
  /\ whole = FALSE
  /\ kills = 0
  /\ asked = [p \in Posts |-> None]
  /\ overlapped = {}

-----------------------------------------------------------------------------
(* Clients. *)

(* PUT /budgets/yaml or a CSV upload commits. *)
Save(s) ==
  /\ saved["map"] + saved["files"] < MaxSave
  /\ saved' = [saved EXCEPT ![s] = @ + 1]
  /\ UNCHANGED <<http, stage, progress, tables, kills, asked, overlapped>>

Post(p) ==
  /\ pc[p] = "idle" /\ Room
  /\ pc' = [pc EXCEPT ![p] = "queued"]
  /\ asked' = [asked EXCEPT ![p] = saved]
  /\ UNCHANGED <<saved, on, holder, reply, stage, progress, tables, kills, overlapped>>

-----------------------------------------------------------------------------
(* Workers. *)

(* A thread of w takes q from the listen queue. *)
Accept(w, q) ==
  /\ pc[q] = "queued"
  /\ Load(w) < Threads
  /\ pc' = [pc EXCEPT ![q] = "handling"]
  /\ on' = [on EXCEPT ![q] = w]
  /\ UNCHANGED <<saved, holder, reply, stage, progress, tables, kills, asked, overlapped>>

(* Variant: the lock is taken whoever holds it. *)
AcquireHeld(p) ==
  /\ p \in Posts /\ pc[p] = "handling"
  /\ holder' = [holder EXCEPT ![on[p]] = p]
  /\ pc' = [pc EXCEPT ![p] = "locked"]
  /\ UNCHANGED <<saved, on, reply, stage, progress, tables, kills, asked, overlapped>>

(* run_pipeline: acquire(blocking=False) succeeds. *)
Acquire(p) ==
  /\ p \in Posts /\ pc[p] = "handling"
  /\ holder[on[p]] = Nobody
  /\ holder' = [holder EXCEPT ![on[p]] = p]
  /\ pc' = [pc EXCEPT ![p] = "locked"]
  /\ UNCHANGED <<saved, on, reply, stage, progress, tables, kills, asked, overlapped>>

(* run_pipeline: the lock is held, so "already_running". *)
Refuse(p) ==
  /\ p \in Posts /\ pc[p] = "handling"
  /\ holder[on[p]] # Nobody
  /\ Respond(p, "already_running")
  /\ UNCHANGED <<saved, holder, stage, progress, tables, kills, asked, overlapped>>

(* close_all, _pipeline_env or the fork raises: finally releases the lock  *)
(* and the request is a 500.                                               *)
LaunchFails(p) ==
  /\ p \in Posts /\ pc[p] = "locked"
  /\ holder' = [holder EXCEPT ![on[p]] = Nobody]
  /\ Respond(p, "error")
  /\ UNCHANGED <<saved, stage, progress, tables, kills, asked, overlapped>>

(* A pipeline starts, beside those that are alive. *)
Start(c) ==
  /\ stage' = [stage EXCEPT ![c] = "maps"]
  /\ overlapped' = IF \E d \in Runs : Alive(d)
                   THEN overlapped \union {c} \union {d \in Runs : Alive(d)}
                   ELSE overlapped

(* subprocess.run forks the pipeline and waits. *)
Launch(p) ==
  /\ p \in Posts /\ pc[p] = "locked"
  /\ pc' = [pc EXCEPT ![p] = "waiting"]
  /\ Start(p)
  /\ UNCHANGED <<saved, on, holder, reply, progress, tables, kills, asked>>

(* Variant: the lock is not released when the child fails. *)
ReapKeepsLock(p) ==
  /\ p \in Posts /\ pc[p] = "waiting" /\ ~Alive(p)
  /\ holder' = IF stage[p] = "exit0" THEN [holder EXCEPT ![on[p]] = Nobody] ELSE holder
  /\ Respond(p, IF stage[p] = "exit0" THEN "ok" ELSE "failed")
  /\ UNCHANGED <<saved, stage, progress, tables, kills, asked, overlapped>>

(* The child has exited: finally releases the lock, the answer tells the   *)
(* return code.                                                            *)
Reap(p) ==
  /\ p \in Posts /\ pc[p] = "waiting" /\ ~Alive(p)
  /\ holder' = [holder EXCEPT ![on[p]] = Nobody]
  /\ Respond(p, IF stage[p] = "exit0" THEN "ok" ELSE "failed")
  /\ UNCHANGED <<saved, stage, progress, tables, kills, asked, overlapped>>

(* gunicorn kills a busy worker and forks another in its place. *)
Kill(w) ==
  /\ kills < MaxKills
  /\ Load(w) > 0
  /\ kills' = kills + 1
  /\ pc' = [q \in Requests |-> IF on[q] = w THEN "lost" ELSE pc[q]]
  /\ on' = [q \in Requests |-> IF on[q] = w THEN Nobody ELSE on[q]]
  /\ holder' = [holder EXCEPT ![w] = Nobody]
  /\ UNCHANGED <<saved, reply, stage, progress, tables, asked, overlapped>>

-----------------------------------------------------------------------------
(* The pipeline up to dbt.  Each step may raise: then it exits with 1.      *)

(* `uv run python -m pipelines.expense_tracker.main` from a shell. *)
StartShell(c) ==
  /\ c \in Shells /\ stage[c] = "off" /\ Room
  /\ Start(c)
  /\ UNCHANGED <<saved, http, progress, tables, kills, asked>>

(* load_bank_sources: two SELECTs, each of what is committed at the time. *)
ReadMaps(c) ==
  /\ stage[c] = "maps"
  /\ got' = [got EXCEPT ![c] = [s \in Sources |-> IF s = "map" THEN saved[s] ELSE 0]]
  /\ stage' = [stage EXCEPT ![c] = "files"]
  /\ UNCHANGED <<saved, http, done, failed, tables, kills, asked, overlapped>>

(* Bank parses and categorises what was read before anything is staged. *)
ReadFiles(c) ==
  /\ stage[c] = "files"
  /\ got' = [got EXCEPT ![c] =
                          [s \in Sources |-> IF s = "map" THEN got[c][s] ELSE saved[s]]]
  /\ stage' = [stage EXCEPT ![c] = "stage"]
  /\ UNCHANGED <<saved, http, done, failed, tables, kills, asked, overlapped>>

(* The next table Bank.to_sql replaces: the accounts', then the budget map's. *)
ToStage(c, t) ==
  /\ stage[c] = "stage" /\ t \notin done[c]
  /\ t = "BudgetMap" => Accounts \subseteq done[c]

(* Variant: the budget map is read again when it is staged. *)
StageTableAgain(c, t) ==
  /\ ToStage(c, t)
  /\ staged' = [staged EXCEPT ![t] = IF t = "BudgetMap" THEN saved ELSE got[c]]
  /\ done' = [done EXCEPT ![c] = @ \union {t}]
  /\ UNCHANGED <<saved, http, stage, got, failed, bronze, metrics, views, whole,
                 kills, asked, overlapped>>

StageTable(c, t) ==
  /\ ToStage(c, t)
  /\ staged' = [staged EXCEPT ![t] = got[c]]
  /\ done' = [done EXCEPT ![c] = @ \union {t}]
  /\ UNCHANGED <<saved, http, stage, got, failed, bronze, metrics, views, whole,
                 kills, asked, overlapped>>

(* dbt debug, clean and deps have gone well, dbt build begins. *)
RunDbt(c) ==
  /\ stage[c] = "stage" /\ done[c] = Tables
  /\ stage' = [stage EXCEPT ![c] = "dbt"]
  /\ done' = [done EXCEPT ![c] = {}]
  /\ whole' = FALSE
  /\ UNCHANGED <<saved, http, got, failed, staged, bronze, metrics, views,
                 kills, asked, overlapped>>

-----------------------------------------------------------------------------
(* dbt build.  gold_Golden1_AllTransactions and the inputs of              *)
(* gold_Golden1_DailyMetrics are views over every account, and             *)
(* gold_Golden1_BudgetAnalysis joins the first with gold_Golden1_BudgetMap, *)
(* a view over the budget map alone.  Left out are gold_DimDate, a calendar, *)
(* and gold_Golden1_UncategorizedTransactions, which selects from the      *)
(* accounts and has nothing above it, as the metrics.                      *)

Parents(m) ==
  IF m \in {"transactions", "metrics"} THEN Accounts
  ELSE IF m = "analysis" THEN {"transactions", "BudgetMap"}
  ELSE {}

(* The views that select from m, and those that select from them: Postgres *)
(* drops them with it (DROP ... CASCADE).                                  *)
Over(m) ==
  {v \in Views : m \in Parents(v) \/ \E u \in Parents(v) : m \in Parents(u)}

(* The models it selects from are built and tested; others do not matter. *)
Ready(c, m) ==
  /\ stage[c] = "dbt" /\ m \notin done[c] \union failed[c]
  /\ Parents(m) \subseteq done[c]

(* Variant: the views over a table outlive its replacement. *)
CreateBeneath(m) ==
  /\ Parents(m) \intersect Views \subseteq views
  /\ bronze' = IF m \in Tables THEN [bronze EXCEPT ![m] = staged[m]] ELSE bronze
  /\ metrics' = IF m = "metrics" THEN {bronze[a] : a \in Accounts} ELSE metrics
  /\ views' = views \union ({m} \intersect Views)

(* What building a model does to the warehouse: a table is replaced by what *)
(* it selects, a view is put in the place of the old one.                   *)
Create(m) ==
  /\ Parents(m) \intersect Views \subseteq views
  /\ bronze' = IF m \in Tables THEN [bronze EXCEPT ![m] = staged[m]] ELSE bronze
  /\ metrics' = IF m = "metrics" THEN {bronze[a] : a \in Accounts} ELSE metrics
  /\ views' = (views \ Over(m)) \union ({m} \intersect Views)

BuildModel(c, m) ==
  /\ Ready(c, m) /\ Create(m)
  /\ done' = [done EXCEPT ![c] = @ \union {m}]
  /\ UNCHANGED <<saved, http, stage, got, failed, staged, whole, kills, asked, overlapped>>

(* The model is there by now, but the silver view over a table fails, or   *)
(* CatToSubCatSums or TransactionSignSurvivesSilver finds a row.           *)
FailsLate(c, m) ==
  /\ m \in Tables \union {"transactions"}
  /\ Ready(c, m) /\ Create(m)
  /\ failed' = [failed EXCEPT ![c] = @ \union {m}]
  /\ UNCHANGED <<saved, http, stage, got, done, staged, whole, kills, asked, overlapped>>

(* A model's statement fails, which leaves what was there before. *)
ModelFails(c, m) ==
  /\ Ready(c, m)
  /\ failed' = [failed EXCEPT ![c] = @ \union {m}]
  /\ UNCHANGED <<saved, http, stage, got, done, tables, kills, asked, overlapped>>

(* The process is gone, with what it knew. *)
Exit(c, code) ==
  /\ stage' = [stage EXCEPT ![c] = code]
  /\ got' = [got EXCEPT ![c] = None]
  /\ done' = [done EXCEPT ![c] = {}]
  /\ failed' = [failed EXCEPT ![c] = {}]

(* Nothing is left that could be built.  run_command raises unless dbt has *)
(* built and tested everything.                                            *)
BuildEnds(c) ==
  /\ stage[c] = "dbt" /\ \A m \in Models : ~Ready(c, m)
  /\ Exit(c, IF done[c] = Models THEN "exit0" ELSE "exit1")
  /\ whole' = (done[c] = Models)
  /\ UNCHANGED <<saved, http, staged, bronze, metrics, views, kills, asked, overlapped>>

(* A query, a parse, a dbt command or the process itself fails. *)
RunFails(c) ==
  /\ Alive(c)
  /\ Exit(c, "exit1")
  /\ UNCHANGED <<saved, http, tables, kills, asked, overlapped>>

RunStep(c) ==
  \/ ReadMaps(c) \/ ReadFiles(c) \/ RunDbt(c)
  \/ \E t \in Tables : StageTable(c, t)
  \/ \E m \in Models : BuildModel(c, m) \/ FailsLate(c, m) \/ ModelFails(c, m)
  \/ BuildEnds(c) \/ RunFails(c)

Handle(q) ==
  Acquire(q) \/ Refuse(q) \/ LaunchFails(q) \/ Launch(q) \/ Reap(q)

(* Everything but what the page sends. *)
ServerNext ==
  \/ \E s \in Sources : Save(s)
  \/ \E q \in Requests : Handle(q) \/ \E w \in Workers : Accept(w, q)
  \/ \E w \in Workers : Kill(w)
  \/ \E c \in Shells : StartShell(c)
  \/ \E c \in Runs : RunStep(c)

(* Polls are sent, and the status answered, in RebuildPage. *)
Next == ServerNext \/ \E p \in Posts : Post(p)

Spec == Init /\ [][Next]_vars

-----------------------------------------------------------------------------
(* Properties. *)

(* The lock of a worker is held exactly while one of its requests is       *)
(* between acquire and the finally block, whatever raises in between: it   *)
(* is never leaked and never released for somebody else.                   *)
LockIsRequest ==
  \A w \in Workers, p \in Posts :
    holder[w] = p <=> on[p] = w /\ pc[p] \in {"locked", "waiting"}

(* Two pipelines of POSTs are alive at once only when the lock could not   *)
(* know: they belong to different workers, or a killed worker left one.    *)
OneRebuildPerWorker ==
  \A p, q \in Posts :
    p # q /\ Alive(p) /\ Alive(q)
      => pc[p] = "lost" \/ pc[q] = "lost" \/ on[p] # on[q]

(* "ok" is only ever said of a pipeline that ran to its end, and no answer *)
(* leaves a pipeline behind.                                               *)
AnswerTellsExit ==
  \A p \in Posts : pc[p] = "answered" =>
    /\ ~Alive(p)
    /\ reply[p] = "ok" <=> stage[p] = "exit0"

(* One reading is behind all accounts. *)
AccountsAgree == \A a, b \in Accounts : bronze[a] = bronze[b]

(* The transactions were categorised by the budget map that is there. *)
MapAgrees == \A a \in Accounts : bronze[a]["map"] = bronze["BudgetMap"]["map"]

(* The daily metrics were computed from the accounts that are there. *)
MetricsAgree == "metrics" \in Gold => metrics = {bronze[a] : a \in Accounts}

(* A rebuild that succeeds alone has rebuilt every table from one reading  *)
(* of sources at least as new as those saved when its POST was sent, and   *)
(* the gold views are all back.                                            *)
SuccessIsFresh ==
  [][\A p \in Posts :
       stage[p] # "exit0" /\ stage'[p] = "exit0" /\ p \notin overlapped
       => /\ views' = Views
          /\ \A t, u \in Tables : bronze'[t]["map"] = bronze'[u]["map"]
          /\ \A t \in Tables, s \in Sources : bronze'[t][s] >= asked[p][s]
          /\ MetricsAgree']_vars

(* While no two pipelines have raced, also after failures of any models,   *)
(* failed tests, kills and saves in mid-run: whoever finds the transactions *)
(* finds the accounts of one reading in them, however the threads took     *)
(* turns; the budget analysis joins them with the map that categorised     *)
(* them; and if a page, which joins transactions, budgets and metrics      *)
(* itself, finds them apart, a dbt build is under way or the last failed.  *)
ReportsMatch ==
  overlapped = {} =>
    /\ "transactions" \in views => AccountsAgree
    /\ "analysis" \in views => AccountsAgree /\ MapAgrees
    /\ whole => views = Views /\ AccountsAgree /\ MapAgrees /\ MetricsAgree

(* No lock is held for ever, so no rebuild is refused for ever: every      *)
(* pipeline ends, and every way out of run_pipeline releases the lock.     *)
LockComesFree ==
  \A w \in Workers : holder[w] # Nobody ~> holder[w] = Nobody
=============================================================================
