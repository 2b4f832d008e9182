---------------------------- MODULE ErdOverrides ----------------------------
(***************************************************************************)
(* backend/apps/omni_erd/services.py: the table of relationship overrides, *)
(* the graph each server process caches, and the requests that read and    *)
(* write them, one statement or cache call at a time.  Every statement is  *)
(* a transaction of its own (autocommit); the cache is LocMemCache, one    *)
(* per process.  A rebuild of the warehouse may drop and restore tables.   *)
(*                                                                         *)
(* Refused input (_require_valid_ends, an unknown source) changes nothing  *)
(* and is left out; so is what an override says about its pair: `writes`   *)
(* counts the committed changes of the table, and a graph remembers how    *)
(* many of them it was built from.                                         *)
(***************************************************************************)
EXTENDS Naturals, FiniteSets

CONSTANTS Workers,     \* server processes
          Threads,     \* request threads
          Home,        \* Home[t]: the process of thread t
          Tables,      \* entities an override may name
          Catalogs,    \* the sets of them the warehouse may hold
          Ids,         \* primary keys of the override table
          MaxWrites,   \* bound: committed changes of the override table
          MaxRebuilds  \* bound: changes of the warehouse

Pairs == {p \in SUBSET Tables : Cardinality(p) = 2}
NoPair == {}  \* no row

ASSUME HomeIsWorker == Home \in [Threads -> Workers]
ASSUME CatalogsHoldTables == Catalogs \subseteq SUBSET Tables
ASSUME BoundsAreNat == MaxWrites \in Nat /\ MaxRebuilds \in Nat

VARIABLES catalog,   \* the tables the warehouse holds
          rebuilds,  \* how often it has changed
          rowPair,   \* the canonical pair of each stored override
          spent,     \* primary keys that have been used
          writes,    \* committed changes of the override table
          cached,    \* processes with a graph in their cache
          cTables,   \* the entities of that graph
          cWrites,   \* the writes its overrides were read after
          pc,        \* what each thread does next
          wanted,    \* the pair a write is about
          target,    \* the row an edit or a delete has fetched
          saw,       \* the entities of the graph a request is building
          sawWrites, \* the writes its overrides were read after
          own        \* history: the last write each process has finished

table == <<rowPair, spent, writes>>
cache == <<cached, cTables, cWrites>>
locals == <<wanted, target, saw, sawWrites>>
vars == <<catalog, rebuilds, table, cache, pc, locals, own>>

-----------------------------------------------------------------------------
(* Types and helpers. *)

Places == {"idle", "graph", "list", "introspect", "introspectList",
           "overrides", "overridesList", "store", "storeList", "rows",
           "upsert", "clash", "save", "delete", "invalidate"}

TypeOK ==
  /\ catalog \in Catalogs
  /\ rebuilds \in Nat
  /\ rowPair \in [Ids -> Pairs \union {NoPair}]
  /\ spent \in SUBSET Ids
  /\ writes \in Nat
  /\ cached \in SUBSET Workers
  /\ cTables \in [Workers -> SUBSET Tables]
  /\ cWrites \in [Workers -> Nat]
  /\ pc \in [Threads -> Places]
  /\ wanted \in [Threads -> Pairs \union {NoPair}]
  /\ target \in [Threads -> SUBSET Ids]
  /\ saw \in [Threads -> SUBSET Tables]
  /\ sawWrites \in [Threads -> Nat]
  /\ own \in [Workers -> Nat]

Goto(t, place) == pc' = [pc EXCEPT ![t] = place]

(* The request is answered; what the thread held is gone. *)
Finish(t) ==
  /\ Goto(t, "idle")
  /\ wanted' = [wanted EXCEPT ![t] = NoPair]
  /\ target' = [target EXCEPT ![t] = {}]
  /\ saw' = [saw EXCEPT ![t] = {}]
  /\ sawWrites' = [sawWrites EXCEPT ![t] = 0]

(* cache.delete, or the TTL. *)
Drop(w) ==
  /\ cached' = cached \ {w}
  /\ cTables' = [cTables EXCEPT ![w] = {}]
  /\ cWrites' = [cWrites EXCEPT ![w] = 0]

-----------------------------------------------------------------------------
Init ==
  /\ catalog \in Catalogs /\ rebuilds = 0
  /\ rowPair = [i \in Ids |-> NoPair] /\ spent = {} /\ writes = 0
  /\ cached = {}
  /\ cTables = [w \in Workers |-> {}] /\ cWrites = [w \in Workers |-> 0]
  /\ pc = [t \in Threads |-> "idle"]
  /\ wanted = [t \in Threads |-> NoPair]
  /\ target = [t \in Threads |-> {}]
  /\ saw = [t \in Threads |-> {}]
  /\ sawWrites = [t \in Threads |-> 0]
  /\ own = [w \in Workers |-> 0]

(* Environment: a pipeline changes the warehouse, the TTL runs out. *)
Rebuild(S) ==
  /\ rebuilds < MaxRebuilds
  /\ S # catalog
  /\ catalog' = S
  /\ rebuilds' = rebuilds + 1
  /\ UNCHANGED <<table, cache, pc, wanted, target, saw, sawWrites, own>>

(* Variant: cache.set is given no timeout. *)
ExpireNever(w) == w \in cached /\ FALSE /\ UNCHANGED vars

Expire(w) ==
  /\ w \in cached
  /\ Drop(w)
  /\ UNCHANGED <<catalog, rebuilds, table, pc, locals, own>>

-----------------------------------------------------------------------------
(* build_graph, for GET /graph and for the override list. *)

(* A GET arrives. *)
Begin(t, request) ==
  /\ pc[t] = "idle"
  /\ Goto(t, request)
  /\ UNCHANGED <<catalog, rebuilds, table, cache, wanted, target, saw, sawWrites, own>>

(* cache.get hits: the graph is answered. *)
HitGraph(t) ==
  /\ pc[t] = "graph" /\ Home[t] \in cached
  /\ Finish(t)
  /\ UNCHANGED <<catalog, rebuilds, table, cache, own>>

(* cache.get hits: the list goes on with the cached entities. *)
HitList(t) ==
  /\ pc[t] = "list" /\ Home[t] \in cached
  /\ Goto(t, "rows")
  /\ saw' = [saw EXCEPT ![t] = cTables[Home[t]]]
  /\ UNCHANGED <<catalog, rebuilds, table, cache, wanted, target, sawWrites, own>>

Miss(t) ==
  /\ Home[t] \notin cached
  /\ \/ pc[t] = "graph" /\ Goto(t, "introspect")
     \/ pc[t] = "list" /\ Goto(t, "introspectList")
  /\ UNCHANGED <<catalog, rebuilds, table, cache, locals, own>>

Introspect(t) ==
  /\ \/ pc[t] = "introspect" /\ Goto(t, "overrides")
     \/ pc[t] = "introspectList" /\ Goto(t, "overridesList")
  /\ saw' = [saw EXCEPT ![t] = catalog]
  /\ UNCHANGED <<catalog, rebuilds, table, cache, wanted, target, sawWrites, own>>

(* IntrospectionUnavailable: 503, nothing is cached. *)
Unavailable(t) ==
  /\ pc[t] \in {"introspect", "introspectList"}
  /\ Finish(t)
  /\ UNCHANGED <<catalog, rebuilds, table, cache, own>>

(* stored_overrides, inside the cache miss. *)
ReadOverrides(t) ==
  /\ \/ pc[t] = "overrides" /\ Goto(t, "store")
     \/ pc[t] = "overridesList" /\ Goto(t, "storeList")
  /\ sawWrites' = [sawWrites EXCEPT ![t] = writes]
  /\ UNCHANGED <<catalog, rebuilds, table, cache, wanted, target, saw, own>>

(* cache.set, for TTL seconds from now; GET /graph answers, the list goes on. *)
Store(t) ==
  /\ \/ pc[t] = "store" /\ Finish(t)
     \/ /\ pc[t] = "storeList" /\ Goto(t, "rows")
        /\ sawWrites' = [sawWrites EXCEPT ![t] = 0]
        /\ UNCHANGED <<wanted, target, saw>>
  /\ cached' = cached \union {Home[t]}
  /\ cTables' = [cTables EXCEPT ![Home[t]] = saw[t]]
  /\ cWrites' = [cWrites EXCEPT ![Home[t]] = sawWrites[t]]
  /\ UNCHANGED <<catalog, rebuilds, table, own>>

(* list_overrides reads the rows and derives each one's status from the     *)
(* entities of that graph.                                                 *)
ListRows(t) ==
  /\ pc[t] = "rows"
  /\ Finish(t)
  /\ UNCHANGED <<catalog, rebuilds, table, cache, own>>

-----------------------------------------------------------------------------
(* Writes. *)

(* POST /overrides: save_override up to its update_or_create. *)
BeginSave(t, p) ==
  /\ pc[t] = "idle" /\ writes < MaxWrites
  /\ Goto(t, "upsert")
  /\ wanted' = [wanted EXCEPT ![t] = p]
  /\ UNCHANGED <<catalog, rebuilds, table, cache, target, saw, sawWrites, own>>

(* The table changes for t, which goes on to invalidate the graph. *)
Commit(t) ==
  /\ writes' = writes + 1
  /\ sawWrites' = [sawWrites EXCEPT ![t] = writes + 1]
  /\ Goto(t, "invalidate")

Taken(p, others) == \E i \in others : rowPair[i] = p

(* update_or_create finds the row of the pair and changes it ... *)
UpsertUpdates(t) ==
  /\ pc[t] = "upsert" /\ Taken(wanted[t], Ids)
  /\ Commit(t)
  /\ UNCHANGED <<catalog, rebuilds, rowPair, spent, cache, wanted, target, saw, own>>

(* Variant: POST always inserts. *)
AlwaysInsert(t, i) ==
  /\ pc[t] = "upsert" /\ i \notin spent
  /\ rowPair' = [rowPair EXCEPT ![i] = wanted[t]]
  /\ spent' = spent \union {i}
  /\ Commit(t)
  /\ UNCHANGED <<catalog, rebuilds, cache, wanted, target, saw, own>>

(* ... or makes it, with a primary key never used before. *)
UpsertInserts(t, i) ==
  /\ pc[t] = "upsert" /\ ~Taken(wanted[t], Ids) /\ i \notin spent
  /\ rowPair' = [rowPair EXCEPT ![i] = wanted[t]]
  /\ spent' = spent \union {i}
  /\ Commit(t)
  /\ UNCHANGED <<catalog, rebuilds, cache, wanted, target, saw, own>>

(* PUT and DELETE /overrides/i fetch the row first: a 404 without it.      *)
BeginUpdate(t, i, p) ==
  /\ pc[t] = "idle" /\ writes < MaxWrites
  /\ rowPair[i] # NoPair
  /\ Goto(t, "clash")
  /\ wanted' = [wanted EXCEPT ![t] = p]
  /\ target' = [target EXCEPT ![t] = {i}]
  /\ UNCHANGED <<catalog, rebuilds, table, cache, saw, sawWrites, own>>

BeginDelete(t, i) ==
  /\ pc[t] = "idle" /\ writes < MaxWrites
  /\ rowPair[i] # NoPair
  /\ Goto(t, "delete")
  /\ target' = [target EXCEPT ![t] = {i}]
  /\ UNCHANGED <<catalog, rebuilds, table, cache, wanted, saw, sawWrites, own>>

(* update_override asks whether another row has the pair: 409 if so. *)
Conflict(t) ==
  /\ pc[t] = "clash" /\ Taken(wanted[t], Ids \ target[t])
  /\ Finish(t)
  /\ UNCHANGED <<catalog, rebuilds, table, cache, own>>

NoConflict(t) ==
  /\ pc[t] = "clash" /\ ~Taken(wanted[t], Ids \ target[t])
  /\ Goto(t, "save")
  /\ UNCHANGED <<catalog, rebuilds, table, cache, locals, own>>

(* override.save() breaks the unique constraint: an IntegrityError, 500. *)
SaveFails(t) ==
  /\ pc[t] = "save" /\ Taken(wanted[t], Ids \ target[t])
  /\ Finish(t)
  /\ UNCHANGED <<catalog, rebuilds, table, cache, own>>

(* Variant: the edit takes the pair over from the row that has it. *)
SaveMerging(t) ==
  /\ pc[t] = "save"
  /\ rowPair' = [i \in Ids |-> IF i \in target[t] THEN wanted[t]
                               ELSE IF rowPair[i] = wanted[t] THEN NoPair ELSE rowPair[i]]
  /\ Commit(t)
  /\ UNCHANGED <<catalog, rebuilds, cache, spent, wanted, target, saw, own>>

(* override.save(): an UPDATE by primary key, and an INSERT of the row when *)
(* a delete has come between.                                              *)
Save(t) ==
  /\ pc[t] = "save" /\ ~Taken(wanted[t], Ids \ target[t])
  /\ rowPair' = [i \in Ids |-> IF i \in target[t] THEN wanted[t] ELSE rowPair[i]]
  /\ Commit(t)
  /\ UNCHANGED <<catalog, rebuilds, cache, spent, wanted, target, saw, own>>

Delete(t) ==
  /\ pc[t] = "delete"
  /\ rowPair' = [i \in Ids |-> IF i \in target[t] THEN NoPair ELSE rowPair[i]]
  /\ Commit(t)
  /\ UNCHANGED <<catalog, rebuilds, cache, spent, wanted, target, saw, own>>

(* Variant: the write leaves the cache alone. *)
InvalidateNothing(t) ==
  /\ pc[t] = "invalidate"
  /\ own' = [own EXCEPT ![Home[t]] = sawWrites[t]]
  /\ Finish(t)
  /\ UNCHANGED <<catalog, rebuilds, table, cache>>

(* invalidate_graph, in the process that wrote, and the answer. *)
InvalidateGraph(t) ==
  /\ pc[t] = "invalidate"
  /\ Drop(Home[t])
  /\ own' = [own EXCEPT ![Home[t]] = sawWrites[t]]
  /\ Finish(t)
  /\ UNCHANGED <<catalog, rebuilds, table>>

-----------------------------------------------------------------------------
Step(t) ==
  \/ HitGraph(t) \/ HitList(t) \/ Miss(t) \/ Introspect(t) \/ Unavailable(t)
  \/ ReadOverrides(t) \/ Store(t) \/ ListRows(t)
  \/ UpsertUpdates(t) \/ \E i \in Ids : UpsertInserts(t, i)
  \/ Conflict(t) \/ NoConflict(t) \/ SaveFails(t) \/ Save(t) \/ Delete(t)
  \/ InvalidateGraph(t)

Arrive(t) ==
  \/ \E request \in {"graph", "list"} : Begin(t, request)
  \/ \E p \in Pairs : BeginSave(t, p)
  \/ \E i \in Ids : BeginDelete(t, i) \/ \E p \in Pairs : BeginUpdate(t, i, p)

Next ==
  \/ \E t \in Threads : Step(t) \/ Arrive(t)
  \/ \E S \in Catalogs : Rebuild(S)
  \/ \E w \in Workers : Expire(w)

Spec == Init /\ [][Next]_vars

(* A thread finishes the request it serves, and an entry of the cache      *)
(* expires, however often it is read.                                      *)
Fairness ==
  /\ \A t \in Threads : WF_vars(Step(t))
  /\ \A w \in Workers : WF_vars(Expire(w))

FairSpec == Spec /\ Fairness

-----------------------------------------------------------------------------
(* Properties. *)

(* A process that serves one request at a time never serves a graph older  *)
(* than a write it has answered itself, whatever its siblings do: a write  *)
(* that two processes race for may still be missing, but not one's own.    *)
OneThreadEach == \A s, t \in Threads : Home[s] = Home[t] => s = t
ReadYourWrites ==
  OneThreadEach => \A w \in cached : cWrites[w] >= own[w]

(* An edit never costs another row its place: a pair that an existing row  *)
(* stands for is only ever given up by a request that fetched that row.    *)
OthersKeepTheirPair ==
  [][\A i \in Ids :
       rowPair[i] # NoPair /\ rowPair'[i] # rowPair[i]
       => \E t \in Threads : i \in target[t] /\ pc[t] \in {"save", "delete"}]_vars

(* One pair holds one assertion, with two admins racing on it too.         *)
OnePairOneRow ==
  \A i, j \in Ids : rowPair[i] # NoPair /\ rowPair[i] = rowPair[j] => i = j

(* Some time after the last write every process serves the overrides as    *)
(* they are stored: the TTL heals what invalidation cannot reach.          *)
GraphsCatchUp == <>[](\A w \in cached : cWrites[w] = writes)
=============================================================================
