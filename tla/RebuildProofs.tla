--------------------------- MODULE RebuildProofs ---------------------------
(* Theorems about Rebuild and RebuildPage, for any number of workers,      *)
(* threads, requests, runs and tabs, any schedule and any failure.         *)
EXTENDS RebuildPage, TLAPS

-----------------------------------------------------------------------------
(* Type correctness. *)

LEMMA InitTypeOK == Init => TypeOK
<1> SUFFICES ASSUME Init PROVE TypeOK
  OBVIOUS
<1>1. None \in Versions /\ saved \in Versions
  BY DEF Init, None, Versions
<1>2. /\ got \in [Runs -> Versions] /\ asked \in [Posts -> Versions]
      /\ staged \in [Tables -> Versions] /\ bronze \in [Tables -> Versions]
      /\ done \in [Runs -> SUBSET Models] /\ failed \in [Runs -> SUBSET Models]
      /\ metrics \in SUBSET Versions /\ views \in SUBSET Views
  BY <1>1 DEF Init
<1>3. whole \in BOOLEAN
  BY Zenon DEF Init
<1>4. QED
  BY <1>1, <1>2, <1>3 DEF Init, TypeOK, Places, Replies, Stages

LEMMA TypeStep == TypeOK /\ [Next]_vars => TypeOK'
<1> SUFFICES ASSUME TypeOK, [Next]_vars PROVE TypeOK'
  OBVIOUS
<1> USE DEF TypeOK, Requests, Runs
<1>1. ASSUME NEW s \in Sources, Save(s) PROVE TypeOK'
  BY <1>1 DEF Save, http, progress, tables, Versions
<1>2. ASSUME NEW q \in Requests, NEW w \in Workers, Accept(w, q) PROVE TypeOK'
  BY <1>2 DEF Accept, progress, tables, Places
<1>3. ASSUME NEW p \in Posts, Post(p) PROVE TypeOK'
  BY <1>3 DEF Post, progress, tables, Places
<1>4. ASSUME NEW q \in Requests, Acquire(q) PROVE TypeOK'
  BY <1>4 DEF Acquire, progress, tables, Places
<1>5. ASSUME NEW q \in Requests, Refuse(q) PROVE TypeOK'
  BY <1>5 DEF Refuse, Respond, progress, tables, Places, Replies
<1>6. ASSUME NEW q \in Requests, LaunchFails(q) PROVE TypeOK'
  BY <1>6 DEF LaunchFails, Respond, progress, tables, Places, Replies
<1>7. ASSUME NEW q \in Requests, Launch(q) PROVE TypeOK'
  BY <1>7 DEF Launch, Start, progress, tables, Places, Stages
<1>8. ASSUME NEW q \in Requests, Reap(q) PROVE TypeOK'
  BY <1>8 DEF Reap, Respond, progress, tables, Places, Replies
<1>10. ASSUME NEW w \in Workers, Kill(w) PROVE TypeOK'
  BY <1>10 DEF Kill, progress, tables, Places
<1>11. ASSUME NEW c \in Shells, StartShell(c) PROVE TypeOK'
  BY <1>11 DEF StartShell, Start, http, progress, tables, Stages
<1>12. ASSUME NEW c \in Runs, RunStep(c) PROVE TypeOK'
  <2>0. None \in Versions
    BY DEF None, Versions
  <2>1. CASE ReadMaps(c)
    BY <1>12, <2>1 DEF ReadMaps, http, tables, Stages, Versions
  <2>2. CASE ReadFiles(c)
    BY <1>12, <2>2 DEF ReadFiles, http, tables, Stages, Versions
  <2>3. ASSUME NEW m \in Tables, StageTable(c, m) PROVE TypeOK'
    BY <1>12, <2>3 DEF StageTable, ToStage, http, Models
  <2>4. CASE RunDbt(c)
    BY <1>12, <2>4 DEF RunDbt, http, Stages
  <2>5. ASSUME NEW m \in Models, Create(m)
        PROVE  /\ bronze' \in [Tables -> Versions] /\ metrics' \in SUBSET Versions
               /\ views' \in SUBSET Views
    BY <2>5 DEF Create, Tables
  <2>6. ASSUME NEW m \in Models, BuildModel(c, m) \/ FailsLate(c, m) PROVE TypeOK'
    BY <1>12, <2>5, <2>6 DEF BuildModel, FailsLate, http
  <2>7. ASSUME NEW m \in Models, ModelFails(c, m) PROVE TypeOK'
    BY <1>12, <2>7 DEF ModelFails, http, tables
  <2>8. CASE BuildEnds(c)
    <3>1. whole' \in BOOLEAN
      BY Zenon, <2>8 DEF BuildEnds
    <3>2. QED
      BY <1>12, <2>0, <2>8, <3>1 DEF BuildEnds, Exit, http, Stages
  <2>9. CASE RunFails(c)
    BY <1>12, <2>0, <2>9 DEF RunFails, Exit, http, tables, Stages
  <2>10. QED
    BY <1>12, <2>1, <2>2, <2>3, <2>4, <2>6, <2>7, <2>8, <2>9 DEF RunStep
<1>13. CASE UNCHANGED vars
  BY <1>13 DEF vars, http, progress, tables
<1>14. QED
  BY <1>1, <1>2, <1>3, <1>4, <1>5, <1>6, <1>7, <1>8, <1>10, <1>11,
     <1>12, <1>13 DEF Next, ServerNext, Handle

(* Every variable keeps its type. *)
THEOREM TypeCorrect == Spec => []TypeOK
BY InitTypeOK, TypeStep, PTL DEF Spec

-----------------------------------------------------------------------------
(* The lock. *)

(* A request is on a worker exactly while the worker is handling it. *)
Served ==
  \A q \in Requests : on[q] # Nobody <=> pc[q] \in {"handling", "locked", "waiting"}

(* What the place of a POST says about its pipeline. *)
Stagewise ==
  \A p \in Posts :
    /\ pc[p] \in {"idle", "queued", "handling", "locked"} => stage[p] = "off"
    /\ pc[p] = "waiting" => stage[p] # "off"

(* The inductive invariant: which worker serves a request and how far its  *)
(* pipeline is are both tied to the request's place, and so is the lock.   *)
LockInv == TypeOK /\ Served /\ Stagewise /\ LockIsRequest /\ AnswerTellsExit

LEMMA LockInvInit == Init => LockInv
<1> SUFFICES ASSUME Init PROVE LockInv
  OBVIOUS
<1>1. TypeOK
  BY InitTypeOK
<1>2. Served /\ Stagewise /\ LockIsRequest /\ AnswerTellsExit
  BY DistinctNames DEF Init, Served, Stagewise, LockIsRequest, AnswerTellsExit,
     Requests, Runs
<1>3. QED
  BY <1>1, <1>2 DEF LockInv

(* A step of a pipeline is a step of one that is alive, and touches neither *)
(* a request nor a lock.                                                   *)
LEMMA RunStepFacts ==
  ASSUME NEW c \in Runs, RunStep(c), TypeOK
  PROVE  /\ UNCHANGED <<saved, pc, on, holder, reply, kills, asked, overlapped>>
         /\ Alive(c)
         /\ \E z \in Stages \ {"off"} : stage' = [stage EXCEPT ![c] = z]
<1> USE DEF http, Alive, Stages
<1>0. stage \in [Runs -> Stages]
  BY DEF TypeOK
<1>1. CASE ReadMaps(c)
  BY <1>1 DEF ReadMaps
<1>2. CASE ReadFiles(c)
  BY <1>2 DEF ReadFiles
<1>3. ASSUME NEW m \in Tables, StageTable(c, m) PROVE stage' = stage /\ stage[c] = "stage"
  BY <1>3 DEF StageTable, ToStage
<1>4. CASE RunDbt(c)
  BY <1>4 DEF RunDbt
<1>5. ASSUME NEW m \in Models, BuildModel(c, m) \/ FailsLate(c, m) \/ ModelFails(c, m)
      PROVE  stage' = stage /\ stage[c] = "dbt"
  BY <1>5 DEF BuildModel, FailsLate, ModelFails, Ready
<1>6. CASE BuildEnds(c)
  BY <1>6 DEF BuildEnds, Exit
<1>7. CASE RunFails(c)
  BY <1>7 DEF RunFails, Exit
<1>8. stage' = stage => stage' = [stage EXCEPT ![c] = stage[c]]
  BY <1>0
<1>9. \E z \in Stages \ {"off"} : stage' = [stage EXCEPT ![c] = z]
  BY <1>0, <1>1, <1>2, <1>3, <1>4, <1>5, <1>6, <1>7, <1>8
     DEF RunStep, ReadMaps, ReadFiles, RunDbt, BuildEnds, RunFails, Exit
<1>10. Alive(c)
  BY <1>1, <1>2, <1>3, <1>4, <1>5, <1>6, <1>7
     DEF RunStep, ReadMaps, ReadFiles, RunDbt, BuildEnds, RunFails
<1>11. UNCHANGED <<saved, pc, on, holder, reply, kills, asked, overlapped>>
  BY DEF RunStep, ReadMaps, ReadFiles, StageTable, RunDbt, BuildModel, FailsLate,
     ModelFails, BuildEnds, RunFails
<1>12. QED
  BY <1>9, <1>10, <1>11

LEMMA LockInvStep == LockInv /\ [Next]_vars => LockInv'
<1> SUFFICES ASSUME LockInv, [Next]_vars PROVE LockInv'
  OBVIOUS
<1>0. TypeOK'
  BY TypeStep DEF LockInv
<1> DEFINE Rest == Served /\ Stagewise /\ LockIsRequest /\ AnswerTellsExit
<1> USE DEF Served, Stagewise, LockIsRequest, AnswerTellsExit, Alive
<1>a. /\ pc \in [Requests -> Places] /\ on \in [Requests -> Workers \union {Nobody}]
      /\ holder \in [Workers -> Posts \union {Nobody}]
      /\ reply \in [Requests -> Replies] /\ stage \in [Runs -> Stages]
      /\ Rest
  BY DEF LockInv, TypeOK
<1>b. /\ Posts \subseteq Requests /\ Posts \subseteq Runs
      /\ Posts \intersect Shells = {} /\ Posts \intersect Polls = {}
      /\ Nobody \notin Workers /\ Nobody \notin Posts
  BY DistinctNames DEF Requests, Runs
<1>1. ASSUME NEW s \in Sources, Save(s) PROVE Rest'
  BY <1>1, <1>a DEF Save, http
<1>2. ASSUME NEW q \in Requests, NEW w \in Workers, Accept(w, q) PROVE Rest'
  BY <1>2, <1>a, <1>b DEF Accept, progress, tables
<1>3. ASSUME NEW p \in Posts, Post(p) PROVE Rest'
  BY <1>3, <1>a, <1>b DEF Post, progress, tables
<1>4. ASSUME NEW q \in Requests, Acquire(q) PROVE Rest'
  <2>1. on[q] \in Workers
    BY <1>4, <1>a, <1>b DEF Acquire
  <2>2. QED
    BY <1>4, <1>a, <1>b, <2>1 DEF Acquire, progress, tables
<1>5. ASSUME NEW q \in Requests, Refuse(q) PROVE Rest'
  BY <1>5, <1>a, <1>b DEF Refuse, Respond, progress, tables
<1>6. ASSUME NEW q \in Requests, LaunchFails(q) PROVE Rest'
  BY <1>6, <1>a, <1>b DEF LaunchFails, Respond, progress, tables
<1>7. ASSUME NEW q \in Requests, Launch(q) PROVE Rest'
  BY <1>7, <1>a, <1>b DEF Launch, Start, progress, tables
<1>8. ASSUME NEW q \in Requests, Reap(q) PROVE Rest'
  BY <1>8, <1>a, <1>b DEF Reap, Respond, progress, tables
<1>10. ASSUME NEW w \in Workers, Kill(w) PROVE Rest'
  BY <1>10, <1>a, <1>b DEF Kill, progress, tables
<1>11. ASSUME NEW c \in Shells, StartShell(c) PROVE Rest'
  BY <1>11, <1>a, <1>b DEF StartShell, Start, http
<1>12. ASSUME NEW c \in Runs, RunStep(c) PROVE Rest'
  BY <1>12, <1>a, <1>b, RunStepFacts DEF LockInv
<1>13. ASSUME UNCHANGED vars PROVE Rest'
  BY <1>13, <1>a DEF vars, http
<1> HIDE DEF Rest, Served, Stagewise, LockIsRequest, AnswerTellsExit, Alive
<1>14. Rest'
  BY <1>1, <1>2, <1>3, <1>4, <1>5, <1>6, <1>7, <1>8, <1>10, <1>11, <1>12,
     <1>13 DEF Next, ServerNext, Handle
<1>15. QED
  BY <1>0, <1>14 DEF LockInv, Rest

(* Whatever raises between acquire and finally, and whichever worker dies, *)
(* a lock is held exactly for the request that took it.                    *)
THEOREM LockTracksRequest == Spec => []LockIsRequest
<1>1. LockInv => LockIsRequest
  BY DEF LockInv
<1>2. QED
  BY <1>1, LockInvInit, LockInvStep, PTL DEF Spec

(* "ok" is said exactly of pipelines that ran to their end. *)
THEOREM AnswersAreTrue == Spec => []AnswerTellsExit
<1>1. LockInv => AnswerTellsExit
  BY DEF LockInv
<1>2. QED
  BY <1>1, LockInvInit, LockInvStep, PTL DEF Spec

(* One worker never runs two rebuilds at a time: the claim of pipeline.py, *)
(* with the exceptions it names and the one it does not (a killed worker). *)
THEOREM RebuildsSerialized == Spec => []OneRebuildPerWorker
<1>1. LockInv => OneRebuildPerWorker
  <2> SUFFICES ASSUME LockInv, NEW p \in Posts, NEW q \in Posts,
                      p # q, Alive(p), Alive(q), pc[p] # "lost", pc[q] # "lost",
                      on[p] = on[q]
               PROVE  FALSE
    BY DEF OneRebuildPerWorker
  <2>1. pc[p] = "waiting" /\ pc[q] = "waiting"
    <3>1. pc[p] \in Places /\ pc[q] \in Places
      BY DEF LockInv, TypeOK, Requests
    <3>2. QED
      BY <3>1 DEF LockInv, Stagewise, AnswerTellsExit, Alive, Places
  <2>2. on[p] \in Workers
    BY <2>1 DEF LockInv, TypeOK, Served, Requests
  <2>3. holder[on[p]] = p /\ holder[on[p]] = q
    BY <2>1, <2>2 DEF LockInv, LockIsRequest
  <2>4. QED
    BY <2>3
<1>2. QED
  BY <1>1, LockInvInit, LockInvStep, PTL DEF Spec

-----------------------------------------------------------------------------
(* The data. *)

(* A run that has met no other is the only one alive. *)
Lone ==
  \A c, d \in Runs : c \notin overlapped /\ Alive(c) /\ Alive(d) => c = d

(* What such a run has staged and built is there, as it read it: what it   *)
(* has built it has built upon, and nothing it builds later takes it away. *)
StagedBy(c) == \A t \in done[c] : t \in Tables /\ staged[t] = got[c]

BuiltBy(c) ==
  /\ \A t \in Tables : staged[t] = got[c]
  /\ \A t \in Tables : t \in done[c] => bronze[t] = got[c]
  /\ \A m \in done[c] : Parents(m) \subseteq done[c]
  /\ \A v \in Views : v \in done[c] => v \in views
  /\ "metrics" \in done[c] => metrics = {bronze[a] : a \in Accounts}
  /\ ~whole

Written ==
  \A c \in Runs : c \notin overlapped =>
    /\ stage[c] \in {"maps", "files"} => done[c] = {}
    /\ stage[c] = "stage" => StagedBy(c)
    /\ stage[c] = "dbt" => BuiltBy(c)

(* A POST is answered from sources at least as new as when it was sent. *)
Recent ==
  \A p \in Posts :
    /\ asked[p]["map"] <= saved["map"] /\ asked[p]["files"] <= saved["files"]
    /\ stage[p] \in {"files", "stage", "dbt"} => asked[p]["map"] <= got[p]["map"]
    /\ stage[p] \in {"stage", "dbt"} => asked[p]["files"] <= got[p]["files"]

(* A run that is not alive knows nothing. *)
Fresh == \A c \in Runs : ~Alive(c) => done[c] = {}

DataInv == LockInv /\ Lone /\ Fresh /\ Written /\ Recent /\ ReportsMatch

Data == Lone /\ Fresh /\ Written /\ Recent /\ ReportsMatch

LEMMA DataInvInit == Init => DataInv
<1> SUFFICES ASSUME Init PROVE DataInv
  OBVIOUS
<1>1. LockInv
  BY LockInvInit
<1>2. Lone /\ Fresh /\ Written
  BY DEF Init, Lone, Fresh, Written, Alive
<1>3. Recent
  <2> SUFFICES ASSUME NEW p \in Posts PROVE Recent!(p)
    BY DEF Recent
  <2>1. /\ asked[p]["map"] = 0 /\ asked[p]["files"] = 0
        /\ saved["map"] = 1 /\ saved["files"] = 1
    BY DEF Init, None, Sources
  <2>2. stage[p] = "off"
    BY DEF Init, Runs
  <2>3. QED
    BY <2>1, <2>2
<1>4. ReportsMatch
  <2>1. views = {} /\ whole = FALSE
    BY Zenon DEF Init
  <2>2. QED
    BY Zenon, <2>1 DEF ReportsMatch
<1>5. QED
  BY <1>1, <1>2, <1>3, <1>4 DEF DataInv

(* A new run is alone, or marks itself and all that are alive. *)
LEMMA StartKeepsLone ==
  ASSUME TypeOK, Lone, NEW c \in Runs, stage[c] = "off", Start(c)
  PROVE  Lone' /\ overlapped \subseteq overlapped'
<1>1. overlapped \subseteq overlapped'
  BY DEF Start
<1>2. ASSUME NEW d \in Runs, NEW e \in Runs, d \notin overlapped', Alive(d)', Alive(e)'
      PROVE  d = e
  <2>1. \A f \in Runs : f # c => stage'[f] = stage[f]
    BY DEF Start, TypeOK
  <2>2. CASE \E f \in Runs : Alive(f)
    <3>1. c \in overlapped' /\ \A f \in Runs : Alive(f) => f \in overlapped'
      BY <2>2 DEF Start
    <3>2. d # c /\ Alive(d)
      BY <1>2, <2>1, <3>1 DEF Alive
    <3>3. QED
      BY <1>2, <3>1, <3>2
  <2>3. CASE ~ \E f \in Runs : Alive(f)
    BY <1>2, <2>1, <2>3 DEF Alive
  <2>4. QED
    BY <2>2, <2>3
<1>3. QED
  BY <1>1, <1>2 DEF Lone

(* What is there after every model has been built by one run. *)
LEMMA CompleteIsWhole ==
  ASSUME NEW c \in Runs, BuiltBy(c), done[c] = Models, views \subseteq Views
  PROVE  views = Views /\ AccountsAgree /\ MapAgrees /\ MetricsAgree
<1>1. \A t \in Tables : bronze[t] = got[c]
  BY DEF BuiltBy, Models
<1>2. views = Views
  BY DEF BuiltBy, Models, Views
<1>3. MetricsAgree
  BY DEF BuiltBy, Models, MetricsAgree
<1>4. QED
  BY <1>1, <1>2, <1>3 DEF AccountsAgree, MapAgrees, Tables

(* Building a model leaves alone what the run has built before. *)
LEMMA CreateKeepsBuilt ==
  ASSUME NEW c \in Runs, NEW m \in Models, BuiltBy(c), Ready(c, m), Create(m),
         bronze \in [Tables -> Versions], done[c] \subseteq Models
  PROVE  /\ \A t \in Tables : t \in done[c] => bronze'[t] = got[c]
         /\ m \in Tables => bronze'[m] = got[c]
         /\ \A v \in Views : v \in done[c] => v \in views'
         /\ "metrics" \in done[c] => metrics' = {bronze'[a] : a \in Accounts}
         /\ m = "metrics" => metrics' = {bronze'[a] : a \in Accounts}
<1>1. m \notin done[c] /\ Parents(m) \subseteq done[c]
  BY DEF Ready
<1>2. \A t \in Tables : t # m => bronze'[t] = bronze[t]
  BY DEF Create
<1>3. m \in Tables => bronze'[m] = got[c]
  BY DEF Create, BuiltBy
<1>4. \A v \in Views : v \in done[c] => v \notin Over(m)
  <2> SUFFICES ASSUME NEW v \in Views, v \in done[c], v \in Over(m) PROVE FALSE
    OBVIOUS
  <2>1. Parents(v) \subseteq done[c] /\ \A u \in Parents(v) : Parents(u) \subseteq done[c]
    BY DEF BuiltBy
  <2>2. QED
    BY <1>1, <2>1 DEF Over
<1>5. \A v \in Views : v \in done[c] => v \in views'
  BY <1>4 DEF Create, BuiltBy
<1>6. ASSUME "metrics" \in done[c] PROVE metrics' = {bronze'[a] : a \in Accounts}
  <2>1. Accounts \subseteq done[c]
    BY <1>6 DEF BuiltBy, Parents
  <2>2. m # "metrics" /\ m \notin Accounts
    BY <1>1, <1>6, <2>1
  <2>3. metrics' = metrics
    BY <2>2 DEF Create
  <2>4. \A a \in Accounts : bronze'[a] = bronze[a]
    BY <1>2, <2>2 DEF Tables
  <2>5. metrics = {bronze[a] : a \in Accounts}
    BY <1>6 DEF BuiltBy
  <2>6. QED
    BY <2>3, <2>4, <2>5
<1>7. ASSUME m = "metrics" PROVE metrics' = {bronze'[a] : a \in Accounts}
  <2>1. m \notin Tables
    BY <1>7, DistinctNames DEF Tables
  <2>2. bronze' = bronze
    BY <2>1 DEF Create
  <2>3. QED
    BY <1>7, <2>2 DEF Create
<1>8. QED
  BY <1>1, <1>2, <1>3, <1>5, <1>6, <1>7 DEF BuiltBy

(* Building a model keeps the views true: it drops those over what changes, *)
(* and what it puts there rests on tables this run has built.               *)
LEMMA CreateKeepsViews ==
  ASSUME NEW c \in Runs, NEW m \in Models, BuiltBy(c), Ready(c, m), Create(m),
         bronze \in [Tables -> Versions], views \subseteq Views,
         "transactions" \in views => AccountsAgree,
         "analysis" \in views => AccountsAgree /\ MapAgrees
  PROVE  /\ "transactions" \in views' => AccountsAgree'
         /\ "analysis" \in views' => AccountsAgree' /\ MapAgrees'
<1> DEFINE Goal == /\ "transactions" \in views' => AccountsAgree'
                   /\ "analysis" \in views' => AccountsAgree' /\ MapAgrees'
<1>0. /\ Accounts \subseteq Tables /\ "BudgetMap" \in Tables
      /\ "transactions" \notin Tables /\ "analysis" \notin Tables /\ "metrics" \notin Tables
  BY DistinctNames DEF Tables
<1>1. m \in Tables \/ m \in {"transactions", "analysis", "metrics"}
  BY GoldIsGiven DEF Models
<1>2. /\ Parents(m) \subseteq done[c]
      /\ \A t \in Tables : t \in done[c] => bronze[t] = got[c]
      /\ \A u \in done[c] : Parents(u) \subseteq done[c]
  BY DEF Ready, BuiltBy
<1>3. Parents("transactions") = Accounts /\ Parents("analysis") = {"transactions", "BudgetMap"}
  BY DEF Parents
<1>4. /\ bronze' = IF m \in Tables THEN [bronze EXCEPT ![m] = staged[m]] ELSE bronze
      /\ views' = (views \ Over(m)) \union ({m} \intersect Views)
  BY DEF Create
<1>5. CASE m \in Accounts
  <2>1. \A v \in {"transactions", "analysis"} : v \in Views => v \in Over(m)
    BY <1>3, <1>5 DEF Over
  <2>2. QED
    BY <1>0, <1>4, <1>5, <2>1
<1>6. CASE m = "BudgetMap"
  <2>1. "analysis" \in Views => "analysis" \in Over(m)
    BY <1>3, <1>6 DEF Over
  <2>2. \A a \in Accounts : bronze'[a] = bronze[a]
    BY <1>0, <1>4, <1>6, DistinctNames
  <2>3. "analysis" \notin views' /\ ("transactions" \in views' => "transactions" \in views)
    BY <1>0, <1>4, <1>6, <2>1
  <2>4. QED
    BY <2>2, <2>3 DEF AccountsAgree
<1>7. CASE m = "transactions"
  <2>1. "analysis" \in Views => "analysis" \in Over(m)
    BY <1>3, <1>7 DEF Over
  <2>2. bronze' = bronze /\ "analysis" \notin views'
    BY <1>0, <1>4, <1>7, <2>1
  <2>3. \A a \in Accounts : bronze[a] = got[c]
    BY <1>0, <1>2, <1>3, <1>7
  <2>4. QED
    BY <2>2, <2>3 DEF AccountsAgree
<1>8. CASE m = "analysis"
  <2>1. bronze' = bronze
    BY <1>0, <1>4, <1>8
  <2>2. "transactions" \in done[c] /\ "BudgetMap" \in done[c]
    BY <1>2, <1>3, <1>8
  <2>3. Accounts \subseteq done[c]
    BY <1>2, <1>3, <2>2
  <2>4. \A t \in Tables : bronze[t] = got[c]
    BY <1>2, <2>2, <2>3 DEF Tables
  <2>5. QED
    BY <1>0, <2>1, <2>4 DEF AccountsAgree, MapAgrees
<1>9. CASE m = "metrics"
  <2>1. m \notin Views
    BY <1>9 DEF Views
  <2>2. bronze' = bronze /\ views' \subseteq views
    BY <1>0, <1>4, <1>9, <2>1
  <2>3. QED
    BY <2>2 DEF AccountsAgree, MapAgrees
<1>10. QED
  BY <1>1, <1>5, <1>6, <1>7, <1>8, <1>9 DEF Tables

(* A pipeline's step, alone or raced, keeps what a lone one has written.   *)
LEMMA RunStepKeepsData ==
  ASSUME DataInv, NEW c \in Runs, RunStep(c)
  PROVE  Data'
<1>1. /\ stage \in [Runs -> Stages] /\ got \in [Runs -> Versions]
      /\ done \in [Runs -> SUBSET Models] /\ failed \in [Runs -> SUBSET Models]
      /\ saved \in Versions /\ staged \in [Tables -> Versions]
      /\ bronze \in [Tables -> Versions] /\ views \subseteq Views
      /\ asked \in [Posts -> Versions] /\ Posts \subseteq Runs
      /\ whole \in BOOLEAN
      /\ Lone /\ Fresh /\ Written /\ Recent /\ ReportsMatch
  BY DEF DataInv, LockInv, TypeOK, Runs
<1>2. "map" \in Sources /\ "files" \in Sources
  BY DEF Sources
<1>3. UNCHANGED <<saved, asked, overlapped>> /\ Alive(c)
  BY RunStepFacts DEF DataInv, LockInv
<1>4. \A d \in Runs : d # c => stage'[d] = stage[d]
  BY RunStepFacts, <1>1 DEF DataInv, LockInv
<1>5. Lone'
  BY <1>1, <1>3, <1>4 DEF Lone, Alive
<1>6. \A d \in Runs : d \notin overlapped /\ d # c => ~Alive(d) /\ ~Alive(d)'
  BY <1>1, <1>3, <1>4 DEF Lone, Alive
<1>a. \A d \in Runs : d \notin overlapped /\ d # c
        => stage'[d] \notin {"maps", "files", "stage", "dbt"}
  BY <1>6 DEF Alive
<1>b. overlapped = {} => c \notin overlapped
  OBVIOUS
<1>c. ASSUME c \notin overlapped' =>
               /\ stage'[c] \in {"maps", "files"} => done'[c] = {}
               /\ stage'[c] = "stage" => StagedBy(c)'
               /\ stage'[c] = "dbt" => BuiltBy(c)'
      PROVE  Written'
  BY <1>3, <1>a, <1>c DEF Written
<1>d. c \notin overlapped =>
        /\ stage[c] \in {"maps", "files"} => done[c] = {}
        /\ stage[c] = "stage" => StagedBy(c)
        /\ stage[c] = "dbt" => BuiltBy(c)
  BY <1>1 DEF Written
<1>e. ASSUME UNCHANGED <<bronze, metrics, views>>, whole' => whole PROVE ReportsMatch'
  BY <1>1, <1>3, <1>e DEF ReportsMatch, AccountsAgree, MapAgrees, MetricsAgree
<1>7. CASE ReadMaps(c)
  <2>1. /\ got'[c]["map"] = saved["map"] /\ \A d \in Runs : d # c => got'[d] = got[d]
        /\ stage[c] = "maps" /\ stage'[c] = "files"
        /\ UNCHANGED <<done, failed, tables>>
    BY <1>1, <1>2, <1>7 DEF ReadMaps
  <2>2. Written'
    BY <1>3, <1>c, <1>d, <2>1
  <2>3. Recent'
    BY <1>1, <1>3, <1>4, <2>1 DEF Recent
  <2>4. Fresh'
    BY <1>1, <1>4, <2>1 DEF Fresh, Alive
  <2>5. QED
    BY <1>5, <1>e, <2>1, <2>2, <2>3, <2>4 DEF tables, Data
<1>8. CASE ReadFiles(c)
  <2>1. /\ got'[c]["map"] = got[c]["map"] /\ got'[c]["files"] = saved["files"]
        /\ \A d \in Runs : d # c => got'[d] = got[d]
        /\ stage[c] = "files" /\ stage'[c] = "stage"
        /\ UNCHANGED <<done, failed, tables>>
    BY <1>1, <1>2, <1>8 DEF ReadFiles
  <2>2. Written'
    BY <1>3, <1>c, <1>d, <2>1 DEF StagedBy
  <2>3. Recent'
    BY <1>1, <1>3, <1>4, <2>1 DEF Recent
  <2>4. Fresh'
    BY <1>1, <1>4, <2>1 DEF Fresh, Alive
  <2>5. QED
    BY <1>5, <1>e, <2>1, <2>2, <2>3, <2>4 DEF tables, Data
<1>9. ASSUME NEW t \in Tables, StageTable(c, t) PROVE Data'
  <2>1. /\ stage[c] = "stage" /\ UNCHANGED <<stage, got, failed, bronze, metrics, views, whole>>
        /\ done' = [done EXCEPT ![c] = @ \union {t}]
        /\ staged' = [staged EXCEPT ![t] = got[c]]
    BY <1>9 DEF StageTable, ToStage
  <2>2. Written'
    BY <1>1, <1>3, <1>c, <1>d, <2>1 DEF StagedBy
  <2>3. Recent'
    BY <1>1, <1>3, <2>1 DEF Recent
  <2>4. Fresh'
    BY <1>1, <2>1 DEF Fresh, Alive
  <2>5. QED
    BY <1>5, <1>e, <2>1, <2>2, <2>3, <2>4 DEF Data
<1>10. CASE RunDbt(c)
  <2>1. /\ stage[c] = "stage" /\ done[c] = Tables /\ stage'[c] = "dbt" /\ done'[c] = {}
        /\ UNCHANGED <<got, failed, staged, bronze, metrics, views>> /\ whole' = FALSE
        /\ \A d \in Runs : d # c => done'[d] = done[d]
    BY <1>1, <1>10 DEF RunDbt
  <2>2. c \notin overlapped => BuiltBy(c)'
    BY <1>d, <2>1 DEF BuiltBy, StagedBy
  <2>3. Written'
    BY <1>3, <1>c, <2>1, <2>2
  <2>4. Recent'
    BY <1>1, <1>3, <1>4, <2>1 DEF Recent
  <2>5. Fresh'
    BY <1>1, <1>4, <2>1 DEF Fresh, Alive
  <2>6. QED
    BY <1>5, <1>e, <2>1, <2>3, <2>4, <2>5 DEF Data
<1>11. ASSUME NEW m \in Models, BuildModel(c, m) \/ FailsLate(c, m) PROVE Data'
  <2>1. /\ Ready(c, m) /\ Create(m) /\ UNCHANGED <<stage, got, staged, whole>>
        /\ done' = done \/ done' = [done EXCEPT ![c] = @ \union {m}]
        /\ stage[c] = "dbt"
    BY <1>11 DEF BuildModel, FailsLate, Ready
  <2>2. /\ done[c] \subseteq done'[c] /\ done'[c] \subseteq done[c] \union {m}
        /\ \A d \in Runs : d # c => done'[d] = done[d]
    BY <1>1, <2>1
  <2>3. ASSUME c \notin overlapped PROVE BuiltBy(c)'
    <3>1. BuiltBy(c) /\ done[c] \subseteq Models
      BY <1>1, <1>d, <2>1, <2>3
    <3>2. /\ \A t \in Tables : t \in done'[c] => bronze'[t] = got[c]
          /\ \A v \in Views : v \in done[c] => v \in views'
          /\ "metrics" \in done'[c] => metrics' = {bronze'[a] : a \in Accounts}
      BY <1>1, <2>1, <2>2, <3>1, CreateKeepsBuilt
    <3>3. \A v \in Views : v \in done'[c] => v \in views'
      <4>1. m \in Views => m \in views'
        BY <2>1 DEF Create
      <4>2. QED
        BY <2>2, <3>2, <4>1
    <3>4. \A u \in done'[c] : Parents(u) \subseteq done'[c]
      BY <2>1, <2>2, <3>1 DEF BuiltBy, Ready
    <3>5. QED
      BY <2>1, <3>1, <3>2, <3>3, <3>4 DEF BuiltBy
  <2>4. Written'
    BY <1>3, <1>c, <2>1, <2>3
  <2>5. ReportsMatch'
    <3> SUFFICES ASSUME overlapped = {} PROVE ReportsMatch'
      BY <1>3 DEF ReportsMatch
    <3>1. BuiltBy(c)
      BY <1>d, <2>1
    <3>2. /\ "transactions" \in views => AccountsAgree
          /\ "analysis" \in views => AccountsAgree /\ MapAgrees
      BY <1>1 DEF ReportsMatch
    <3>3. ~whole'
      BY <2>1, <3>1 DEF BuiltBy
    <3>4. /\ "transactions" \in views' => AccountsAgree'
          /\ "analysis" \in views' => AccountsAgree' /\ MapAgrees'
      BY <1>1, <2>1, <3>1, <3>2, CreateKeepsViews
    <3>5. QED
      BY <3>3, <3>4 DEF ReportsMatch
  <2>6. Recent'
    BY <1>1, <1>3, <2>1 DEF Recent
  <2>7. Fresh'
    BY <1>1, <2>1, <2>2 DEF Fresh, Alive
  <2>8. QED
    BY <1>5, <2>4, <2>5, <2>6, <2>7 DEF Data
<1>12. ASSUME NEW m \in Models, ModelFails(c, m) PROVE Data'
  <2>1. stage[c] = "dbt" /\ UNCHANGED <<stage, got, done, tables>>
    BY <1>12 DEF ModelFails, Ready
  <2>2. Written'
    BY <1>1, <1>3, <1>c, <1>d, <2>1 DEF BuiltBy, tables
  <2>3. Recent' /\ Fresh'
    BY <1>1, <1>3, <2>1 DEF Recent, Fresh, Alive
  <2>4. QED
    BY <1>5, <1>e, <2>1, <2>2, <2>3 DEF tables, Data
<1>13. ASSUME NEW z \in {"exit0", "exit1"}, Exit(c, z) PROVE Written' /\ Recent' /\ Fresh'
  <2>1. /\ stage'[c] = z /\ done'[c] = {}
        /\ \A d \in Runs : d # c => got'[d] = got[d] /\ done'[d] = done[d]
    BY <1>1, <1>13 DEF Exit
  <2>2. Written'
    BY <1>3, <1>c, <2>1
  <2>3. Recent' /\ Fresh'
    BY <1>1, <1>3, <1>4, <2>1 DEF Recent, Fresh, Alive
  <2>4. QED
    BY <2>2, <2>3
<1>14. CASE BuildEnds(c)
  <2>1. /\ stage[c] = "dbt" /\ UNCHANGED <<staged, bronze, metrics, views>>
        /\ whole' => done[c] = Models
    BY <1>14 DEF BuildEnds
  <2>2. \E z \in {"exit0", "exit1"} : Exit(c, z)
    BY <1>14 DEF BuildEnds
  <2>3. ASSUME overlapped = {}, whole'
        PROVE  views = Views /\ AccountsAgree /\ MapAgrees /\ MetricsAgree
    BY <1>1, <1>d, <2>1, <2>3, CompleteIsWhole
  <2>4. ReportsMatch'
    BY <1>1, <1>3, <2>1, <2>3 DEF ReportsMatch, AccountsAgree, MapAgrees, MetricsAgree
  <2>5. QED
    BY <1>5, <1>13, <2>2, <2>4 DEF Data
<1>15. CASE RunFails(c)
  BY <1>5, <1>13, <1>15, <1>e DEF RunFails, tables, Data
<1>16. QED
  BY <1>7, <1>8, <1>9, <1>10, <1>11, <1>12, <1>14, <1>15 DEF RunStep

(* What says nothing of requests or of what is saved. *)
LEMMA PipelinesAlone ==
  ASSUME Lone, Fresh, Written, ReportsMatch,
         UNCHANGED <<stage, progress, tables, overlapped>>
  PROVE  Lone' /\ Fresh' /\ Written' /\ ReportsMatch'
BY DEF Lone, Fresh, Written, ReportsMatch, Alive, StagedBy, BuiltBy, AccountsAgree,
   MapAgrees, MetricsAgree, progress, tables

LEMMA DataInvStep == DataInv /\ [Next]_vars => DataInv'
<1> SUFFICES ASSUME DataInv, [Next]_vars PROVE DataInv'
  OBVIOUS
<1> DEFINE Quiet == UNCHANGED <<saved, stage, progress, tables, asked, overlapped>>
<1>1. LockInv'
  BY LockInvStep DEF DataInv
<1>2. /\ TypeOK /\ LockInv /\ Data /\ Posts \subseteq Runs /\ Shells \subseteq Runs
      /\ Posts \subseteq Requests
  BY DEF DataInv, Data, LockInv, Runs, Requests
<1>3. ASSUME Quiet PROVE Data'
  <2>1. Recent'
    BY <1>2, <1>3 DEF Recent, Data, progress
  <2>2. QED
    BY <1>2, <1>3, <2>1, PipelinesAlone DEF Data
<1>4. ASSUME NEW s \in Sources, Save(s) PROVE Data'
  <2>1. UNCHANGED <<stage, progress, tables, asked, overlapped>>
    BY <1>4 DEF Save
  <2>2. saved["map"] <= saved'["map"] /\ saved["files"] <= saved'["files"]
    BY <1>2, <1>4 DEF Save, TypeOK, Versions, Sources
  <2>3. Recent'
    <3>1. saved \in Versions /\ saved' \in Versions /\ asked \in [Posts -> Versions]
      BY <1>1, <1>2 DEF LockInv, TypeOK
    <3>2. QED
      BY <1>2, <2>1, <2>2, <3>1 DEF Data, Recent, Versions, Sources, progress
  <2>4. QED
    BY <1>2, <2>1, <2>3, PipelinesAlone DEF Data
<1>5. ASSUME NEW q \in Requests, NEW w \in Workers, Accept(w, q) PROVE Data'
  BY <1>3, <1>5 DEF Accept
<1>6. ASSUME NEW p \in Posts, Post(p) PROVE Data'
  <2>1. UNCHANGED <<saved, stage, progress, tables, overlapped>> /\ stage[p] = "off"
    BY <1>2, <1>6 DEF Post, LockInv, Stagewise
  <2>2. /\ asked'[p] = saved
        /\ \A r \in Posts : r # p => asked'[r] = asked[r]
    BY <1>2, <1>6 DEF Post, TypeOK
  <2>3. Recent'
    <3>1. saved["map"] \in Nat /\ saved["files"] \in Nat
      BY <1>2 DEF TypeOK, Versions, Sources
    <3>2. UNCHANGED <<saved, stage, got>> /\ Recent
      BY <1>2, <2>1 DEF progress, Data
    <3>3. stage[p] = "off"
      BY <2>1
    <3>4. QED
      BY <2>2, <3>1, <3>2, <3>3 DEF Recent
  <2>4. QED
    BY <1>2, <2>1, <2>3, PipelinesAlone DEF Data
<1>7. ASSUME NEW q \in Requests,
             Acquire(q) \/ Refuse(q) \/ LaunchFails(q) \/ Reap(q)
      PROVE  Data'
  BY <1>3, <1>7 DEF Acquire, Refuse, LaunchFails, Reap
<1>8. ASSUME NEW c \in Runs, stage[c] = "off", Start(c),
             UNCHANGED <<saved, progress, tables, asked>>
      PROVE  Data'
  <2>1. Lone' /\ overlapped \subseteq overlapped'
    BY <1>2, <1>8, StartKeepsLone DEF Data
  <2>2. \A d \in Runs : stage'[d] = IF d = c THEN "maps" ELSE stage[d]
    BY <1>2, <1>8 DEF Start, TypeOK
  <2>3. done[c] = {}
    BY <1>2, <1>8 DEF Data, Fresh, Alive
  <2>4. Written' /\ Fresh'
    BY <1>2, <1>8, <2>1, <2>2, <2>3
       DEF Data, Written, Fresh, Alive, StagedBy, BuiltBy, progress, tables
  <2>5. Recent' /\ ReportsMatch'
    BY <1>2, <1>8, <2>1, <2>2
       DEF Data, Recent, ReportsMatch, AccountsAgree, MapAgrees, MetricsAgree, progress, tables
  <2>6. QED
    BY <2>1, <2>4, <2>5 DEF Data
<1>9. ASSUME NEW q \in Requests, Launch(q) PROVE Data'
  <2>1. q \in Runs /\ stage[q] = "off"
    BY <1>2, <1>9 DEF Launch, LockInv, Stagewise
  <2>2. QED
    BY <1>8, <1>9, <2>1 DEF Launch
<1>10. ASSUME NEW w \in Workers, Kill(w) PROVE Data'
  BY <1>3, <1>10 DEF Kill
<1>11. ASSUME NEW c \in Shells, StartShell(c) PROVE Data'
  BY <1>2, <1>8, <1>11 DEF StartShell
<1>12. ASSUME NEW c \in Runs, RunStep(c) PROVE Data'
  BY <1>12, RunStepKeepsData
<1>13. ASSUME UNCHANGED vars PROVE Data'
  BY <1>3, <1>13 DEF vars
<1>14. Data'
  BY <1>4, <1>5, <1>6, <1>7, <1>9, <1>10, <1>11, <1>12, <1>13
     DEF Next, ServerNext, Handle
<1>15. QED
  BY <1>1, <1>14 DEF DataInv, Data

(* As long as no two pipelines race, transactions are of one reading, the  *)
(* budget analysis joins them with the map that categorised them, and what *)
(* a succeeded build has left stays of one reading until the next begins.  *)
THEOREM ReportsAlwaysMatch == Spec => []ReportsMatch
<1>1. DataInv => ReportsMatch
  BY DEF DataInv
<1>2. QED
  BY <1>1, DataInvInit, DataInvStep, PTL DEF Spec

(* A rebuild that met no other and succeeded left every table built from   *)
(* what had been saved when it was asked for, or from something newer.     *)
THEOREM RebuildsAreFresh == Spec => SuccessIsFresh
<1> DEFINE Good(p) ==
      /\ views' = Views
      /\ \A t, u \in Tables : bronze'[t]["map"] = bronze'[u]["map"]
      /\ \A t \in Tables, s \in Sources : bronze'[t][s] >= asked[p][s]
      /\ MetricsAgree'
<1>1. ASSUME DataInv, [Next]_vars, NEW p \in Posts,
             stage[p] # "exit0", stage'[p] = "exit0", p \notin overlapped
      PROVE  Good(p)
  <2> USE DEF Runs, Requests
  <2>1. stage \in [Runs -> Stages] /\ TypeOK
    BY <1>1 DEF DataInv, LockInv, TypeOK
  <2>2. ASSUME NEW c \in Runs, RunStep(c) PROVE BuildEnds(p)
    <3>1. c = p
      BY <1>1, <2>1, <2>2, RunStepFacts
    <3>2. QED
      BY <1>1, <2>1, <2>2, <3>1 DEF RunStep, ReadMaps, ReadFiles, StageTable, RunDbt,
         BuildModel, FailsLate, ModelFails, RunFails, Exit
  <2>3. BuildEnds(p)
    <3>1. ASSUME NEW c \in Runs, Start(c) PROVE FALSE
      BY <1>1, <2>1, <3>1 DEF Start
    <3>2. ASSUME UNCHANGED stage PROVE FALSE
      BY <1>1, <3>2
    <3>3. ASSUME NEW q \in Requests, Handle(q) PROVE FALSE
      BY <3>1, <3>2, <3>3 DEF Handle, Acquire, Refuse, LaunchFails, Launch, Reap
    <3>4. QED
      BY <1>1, <2>2, <3>1, <3>2, <3>3
         DEF Next, ServerNext, Save, Post, Accept, Kill, StartShell, vars
  <2>4. /\ stage[p] = "dbt" /\ done[p] = Models
        /\ UNCHANGED <<bronze, views, metrics>>
    BY <1>1, <2>1, <2>3 DEF BuildEnds, Exit
  <2>5. BuiltBy(p) /\ views \subseteq Views
    BY <1>1, <2>1, <2>4 DEF DataInv, Written, TypeOK
  <2>6. views = Views /\ MetricsAgree
    BY <2>4, <2>5, CompleteIsWhole
  <2>7. \A t \in Tables : bronze[t] = got[p]
    BY <2>4, <2>5 DEF BuiltBy, Models
  <2>8. \A s \in Sources : got[p][s] >= asked[p][s]
    <3>1. /\ got[p] \in Versions /\ asked[p] \in Versions
          /\ asked[p]["map"] <= got[p]["map"] /\ asked[p]["files"] <= got[p]["files"]
      BY <1>1, <2>4 DEF DataInv, LockInv, TypeOK, Recent
    <3>2. QED
      BY <3>1 DEF Versions, Sources
  <2>9. MetricsAgree'
    BY <2>4, <2>6 DEF MetricsAgree
  <2>10. QED
    BY <2>4, <2>6, <2>7, <2>8, <2>9
<1>2. DataInv /\ [Next]_vars =>
        \A p \in Posts :
          stage[p] # "exit0" /\ stage'[p] = "exit0" /\ p \notin overlapped => Good(p)
  BY <1>1
<1>3. QED
  BY <1>2, DataInvInit, DataInvStep, PTL DEF Spec, SuccessIsFresh

-----------------------------------------------------------------------------
(* The page. *)

(* A poll is awaited by at most one page, as a probe or from the interval, *)
(* and not idle while it is.                                               *)
PollsInv ==
  /\ \A t \in Tabs, g \in Polls : g \in probes[t] \union polls[t] => pc[g] # "idle"
  /\ \A t, u \in Tabs, g \in Polls :
       /\ g \in probes[t] => g \notin polls[u]
       /\ t # u => ~(g \in probes[t] /\ g \in probes[u])
       /\ t # u => ~(g \in polls[t] /\ g \in polls[u])

(* The inductive invariant of the page: what the server keeps, which knows *)
(* of no page, and whose the polls are.                                    *)
PageInv == DataInv /\ PageTypeOK /\ PollsInv

LEMMA PageInvInit == PageInit => PageInv
<1> SUFFICES ASSUME PageInit PROVE PageInv
  OBVIOUS
<1>1. DataInv /\ TypeOK
  BY DataInvInit, InitTypeOK DEF PageInit
<1>2. PageTypeOK /\ PollsInv
  BY <1>1 DEF PageInit, PageTypeOK, PollsInv
<1>3. QED
  BY <1>1, <1>2 DEF PageInv

(* A poll moves from place to place as no POST does. *)
PollMoves(g) ==
  /\ pc[g] \in {"idle", "handling", "answered", "lost"}
  /\ \E z \in {"idle", "queued", "answered"} : pc' = [pc EXCEPT ![g] = z]
  /\ \/ on' = on /\ pc[g] # "handling"
     \/ on' = [on EXCEPT ![g] = Nobody]
  /\ \E a \in Replies : reply' = reply \/ reply' = [reply EXCEPT ![g] = a]
  /\ UNCHANGED <<saved, holder, stage, progress, tables, kills, asked, overlapped>>

LEMMA PollSteps ==
  ASSUME NEW g \in Polls, Ask(g) \/ Deliver(g) \/ Status(g)
  PROVE  PollMoves(g)
<1>1. CASE Ask(g)
  BY <1>1 DEF Ask, PollMoves, Replies
<1>2. CASE Deliver(g)
  BY <1>2 DEF Deliver, PollMoves, Replies
<1>3. CASE Status(g)
  BY <1>3 DEF Status, Respond, PollMoves, Replies
<1>4. QED
  BY <1>1, <1>2, <1>3

(* The server keeps its word whatever the pages poll. *)
LEMMA PollsKeepData ==
  ASSUME NEW g \in Polls, PollMoves(g), DataInv
  PROVE  DataInv'
<1>1. /\ TypeOK /\ Served /\ Stagewise /\ LockIsRequest /\ AnswerTellsExit
      /\ Posts \subseteq Requests /\ Polls \subseteq Requests /\ Posts \subseteq Runs
      /\ g \notin Posts /\ Nobody \notin Workers
  BY DistinctNames DEF DataInv, LockInv, Requests, Runs
<1>2. UNCHANGED <<saved, holder, stage, progress, tables, kills, asked, overlapped>>
  BY DEF PollMoves
<1>3. /\ \A q \in Requests : q # g => pc'[q] = pc[q] /\ on'[q] = on[q] /\ reply'[q] = reply[q]
      /\ pc'[g] \in {"idle", "queued", "answered"} /\ on'[g] = Nobody
  BY <1>1 DEF PollMoves, TypeOK, Served
<1>4. TypeOK'
  <2>1. pc' \in [Requests -> Places] /\ on' \in [Requests -> Workers \union {Nobody}]
    BY <1>1 DEF PollMoves, TypeOK, Places
  <2>2. reply' \in [Requests -> Replies]
    BY <1>1 DEF PollMoves, TypeOK
  <2>3. QED
    BY <1>1, <1>2, <2>1, <2>2 DEF TypeOK, progress, tables
<1>5. Served'
  BY <1>1, <1>3 DEF Served
<1>6. Stagewise' /\ AnswerTellsExit'
  BY <1>1, <1>2, <1>3 DEF Stagewise, AnswerTellsExit, Alive
<1>7. LockIsRequest'
  BY <1>1, <1>2, <1>3 DEF LockIsRequest
<1>8. (Lone /\ Fresh /\ Written /\ Recent /\ ReportsMatch)'
  <2>1. Recent'
    BY <1>2 DEF DataInv, Recent, progress
  <2>2. QED
    BY <1>2, <2>1, PipelinesAlone DEF DataInv
<1>9. QED
  BY <1>4, <1>5, <1>6, <1>7, <1>8 DEF DataInv, LockInv

(* What the server does to a poll: it never becomes idle by it. *)
LEMMA ServerKeepsPolls ==
  ASSUME TypeOK, ServerNext \/ \E p \in Posts : Post(p), NEW g \in Polls, pc[g] # "idle"
  PROVE  pc'[g] # "idle"
<1> USE DEF TypeOK
<1>1. g \in Requests /\ g \notin Posts
  BY DistinctNames DEF Requests
<1>2. ASSUME NEW q \in Requests, Handle(q) PROVE pc'[g] # "idle"
  BY <1>1, <1>2 DEF Handle, Acquire, Refuse, LaunchFails, Launch, Reap, Respond
<1>3. ASSUME NEW q \in Requests, NEW w \in Workers, Accept(w, q) PROVE pc'[g] # "idle"
  BY <1>1, <1>3 DEF Accept
<1>4. ASSUME NEW w \in Workers, Kill(w) PROVE pc'[g] # "idle"
  BY <1>1, <1>4 DEF Kill
<1>5. ASSUME NEW c \in Runs, RunStep(c) PROVE pc'[g] # "idle"
  BY <1>5, RunStepFacts
<1>6. ASSUME NEW p \in Posts, Post(p) PROVE pc'[g] # "idle"
  BY <1>1, <1>6 DEF Post
<1>7. QED
  BY <1>2, <1>3, <1>4, <1>5, <1>6 DEF ServerNext, Save, StartShell, http

LEMMA PageInvStep == PageInv /\ [PageNext]_pvars => PageInv'
<1> SUFFICES ASSUME PageInv, [PageNext]_pvars PROVE PageInv'
  OBVIOUS

<1>1. /\ DataInv /\ TypeOK /\ PageTypeOK /\ PollsInv /\ Polls \subseteq Requests
      /\ pc \in [Requests -> Places]
      /\ \A g \in Polls : g \notin Posts
  BY DistinctNames DEF PageInv, DataInv, LockInv, TypeOK, Requests
<1> DEFINE OK == DataInv' /\ TypeOK'
<1>2. ASSUME DataInv' PROVE OK
  BY <1>2 DEF DataInv, LockInv
<1>3. ASSUME ServerNext \/ \E p \in Posts : Post(p) PROVE OK
  BY <1>1, <1>2, <1>3, DataInvStep DEF Next
<1>4. ASSUME NEW g \in Polls, Ask(g) \/ Deliver(g) \/ Status(g) PROVE OK
  BY <1>1, <1>2, <1>4, PollSteps, PollsKeepData
<1>5. ASSUME ServerNext, UNCHANGED page PROVE PageInv'
  <2>1. OK
    BY <1>3, <1>5
  <2>2. PollsInv'
    BY <1>1, <1>5, ServerKeepsPolls DEF PollsInv, page
  <2>3. QED
    BY <1>1, <1>5, <2>1, <2>2 DEF PageInv, PageTypeOK, page
<1>6. ASSUME NEW t \in Tabs, NEW p \in Posts, ClickRebuild(t, p) PROVE PageInv'
  <2>1. OK
    BY <1>3, <1>6 DEF ClickRebuild
  <2>2. PollsInv'
    BY <1>1, <1>6, ServerKeepsPolls DEF PollsInv, ClickRebuild
  <2>3. PageTypeOK'
    BY <1>1, <1>6, <2>1 DEF PageTypeOK, ClickRebuild
  <2>4. QED
    BY <2>1, <2>2, <2>3 DEF PageInv
<1>7. ASSUME NEW t \in Tabs, NEW p \in Posts, TakeResult(t, p) PROVE PageInv'
  <2>1. OK
    BY <1>1, <1>2, <1>7, DataInvStep DEF TakeResult
  <2>2. PollsInv'
    BY <1>1, <1>7 DEF PollsInv, TakeResult, vars, http
  <2>3. PageTypeOK'
    BY <1>1, <1>7, <2>1 DEF PageTypeOK, TakeResult
  <2>4. QED
    BY <2>1, <2>2, <2>3 DEF PageInv
<1>8. ASSUME NEW t \in Tabs, NEW g \in Polls, Mount(t, g) PROVE PageInv'
  <2>1. OK
    BY <1>4, <1>8 DEF Mount
  <2>2. PollsInv'
    BY <1>1, <1>8 DEF PollsInv, Mount, Ask, PageTypeOK
  <2>3. PageTypeOK'
    BY <1>1, <1>8, <2>1 DEF PageTypeOK, Mount
  <2>4. QED
    BY <2>1, <2>2, <2>3 DEF PageInv
<1>9. ASSUME NEW t \in Tabs, NEW g \in Polls, Tick(t, g) PROVE PageInv'
  <2>1. OK
    BY <1>4, <1>9 DEF Tick
  <2>2. PollsInv'
    BY <1>1, <1>9 DEF PollsInv, Tick, Ask, PageTypeOK
  <2>3. PageTypeOK'
    BY <1>1, <1>9, <2>1 DEF PageTypeOK, Tick
  <2>4. QED
    BY <2>1, <2>2, <2>3 DEF PageInv
<1>10. ASSUME NEW t \in Tabs, NEW g \in Polls, TakeProbe(t, g) PROVE PageInv'
  <2>1. OK
    BY <1>4, <1>10 DEF TakeProbe
  <2>2. PollsInv'
    BY <1>1, <1>10 DEF PollsInv, TakeProbe, Deliver, PageTypeOK
  <2>3. PageTypeOK'
    BY <1>1, <1>10, <2>1 DEF PageTypeOK, TakeProbe
  <2>4. QED
    BY <2>1, <2>2, <2>3 DEF PageInv
<1>11. ASSUME NEW t \in Tabs, NEW g \in Polls, TakePoll(t, g) PROVE PageInv'
  <2>1. OK
    BY <1>4, <1>11 DEF TakePoll
  <2>2. PollsInv'
    BY <1>1, <1>11 DEF PollsInv, TakePoll, Deliver, PageTypeOK
  <2>3. PageTypeOK'
    BY <1>1, <1>11, <2>1 DEF PageTypeOK, TakePoll
  <2>4. QED
    BY <2>1, <2>2, <2>3 DEF PageInv
<1>12. ASSUME NEW g \in Polls, Status(g) PROVE PageInv'
  <2>1. OK /\ UNCHANGED page
    BY <1>4, <1>12 DEF Status
  <2>2. PollsInv'
    BY <1>1, <1>12, <2>1 DEF PollsInv, Status, Respond, page
  <2>3. QED
    BY <1>1, <2>1, <2>2 DEF PageInv, PageTypeOK, page
<1>13. ASSUME NEW g \in Polls, Discard(g) PROVE PageInv'
  <2>1. OK /\ UNCHANGED page
    BY <1>4, <1>13 DEF Discard
  <2>2. PollsInv'
    BY <1>1, <1>13, <2>1 DEF PollsInv, Discard, Expected, Deliver, page
  <2>3. QED
    BY <1>1, <2>1, <2>2 DEF PageInv, PageTypeOK, page
<1>14. ASSUME UNCHANGED pvars PROVE PageInv'
  <2>1. OK
    BY <1>1, <1>2, <1>14, DataInvStep DEF pvars
  <2>2. PollsInv' /\ PageTypeOK'
    BY <1>1, <1>14, <2>1 DEF PollsInv, PageTypeOK, pvars, page, vars, http
  <2>3. QED
    BY <2>1, <2>2 DEF PageInv
<1>15. QED
  BY <1>5, <1>6, <1>7, <1>8, <1>9, <1>10, <1>11, <1>12, <1>13, <1>14 DEF PageNext

(* What the server promises holds with any number of pages that probe,     *)
(* poll, reload and click: a status request is no POST and takes no lock.  *)
THEOREM PagesDisturbNothing ==
  PageSpec => [](PageTypeOK /\ LockIsRequest /\ AnswerTellsExit /\ ReportsMatch)
<1>1. PageInv => PageTypeOK /\ LockIsRequest /\ AnswerTellsExit /\ ReportsMatch
  BY DEF PageInv, DataInv, LockInv
<1>2. QED
  BY <1>1, PageInvInit, PageInvStep, PTL DEF PageSpec

(* A page stops waiting for its POST only to show a result, or because it  *)
(* has been loaded anew, which its new probe of the status tells: the      *)
(* probe of a mount is never one the tab was waiting for.                  *)
THEOREM EveryResultIsShown == PageSpec => ResultIsShown
<1> DEFINE Shown ==
      \A t \in Tabs, p \in Posts :
        p \in awaited[t] /\ p \notin awaited'[t]
        => t \in result' \/ probes'[t] # probes[t]
<1>1. ASSUME PageInv, [PageNext]_pvars, NEW t \in Tabs, NEW p \in Posts,
             p \in awaited[t], p \notin awaited'[t]
      PROVE  t \in result' \/ probes'[t] # probes[t]
  <2>1. awaited \in [Tabs -> SUBSET Posts] /\ probes \in [Tabs -> SUBSET Polls] /\ PollsInv
    BY <1>1 DEF PageInv, PageTypeOK
  <2>2. UNCHANGED awaited => FALSE
    BY <1>1
  <2>3. ASSUME NEW u \in Tabs, NEW g \in Polls, Mount(u, g)
        PROVE  probes'[t] # probes[t]
    <3>1. u = t
      BY <1>1, <2>1, <2>3 DEF Mount
    <3>2. pc[g] = "idle" /\ probes'[t] = {g}
      BY <2>1, <2>3, <3>1 DEF Mount, Ask
    <3>3. QED
      BY <2>1, <3>2 DEF PollsInv
  <2>4. ASSUME NEW u \in Tabs, NEW r \in Posts, ClickRebuild(u, r) PROVE FALSE
    BY <1>1, <2>1, <2>4 DEF ClickRebuild
  <2>5. ASSUME NEW u \in Tabs, NEW r \in Posts, TakeResult(u, r) PROVE t \in result'
    BY <1>1, <2>1, <2>5 DEF TakeResult
  <2>6. QED
    BY <1>1, <2>2, <2>3, <2>4, <2>5
       DEF PageNext, Tick, TakeProbe, TakePoll, Status, Discard, page, pvars
<1>2. PageInv /\ [PageNext]_pvars => Shown
  BY <1>1
<1>3. QED
  BY <1>2, PageInvInit, PageInvStep, PTL DEF PageSpec, ResultIsShown
=============================================================================
