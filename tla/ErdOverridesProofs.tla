------------------------- MODULE ErdOverridesProofs -------------------------
(* Theorems about ErdOverrides, for any number of processes, threads, rows  *)
(* and tables, and any interleaving of their statements.                    *)
EXTENDS ErdOverrides, TLAPS

-----------------------------------------------------------------------------
(* Type correctness. *)

LEMMA InitTypeOK == Init => TypeOK
<1> SUFFICES ASSUME Init PROVE TypeOK
  OBVIOUS
<1>1. NoPair \in SUBSET Ids /\ {} \in SUBSET Ids
  BY DEF NoPair
<1> QED
  BY <1>1, BoundsAreNat DEF Init, TypeOK, Places

(* What Finish, Drop and Commit leave well-typed. *)
LEMMA HelperTypes ==
  ASSUME TypeOK, NEW t \in Threads
  PROVE  /\ Finish(t) => /\ pc' \in [Threads -> Places]
                         /\ wanted' \in [Threads -> Pairs \union {NoPair}]
                         /\ target' \in [Threads -> SUBSET Ids]
                         /\ saw' \in [Threads -> SUBSET Tables]
                         /\ sawWrites' \in [Threads -> Nat]
         /\ \A w \in Workers : Drop(w) => /\ cached' \in SUBSET Workers
                                          /\ cTables' \in [Workers -> SUBSET Tables]
                                          /\ cWrites' \in [Workers -> Nat]
         /\ Commit(t) => /\ pc' \in [Threads -> Places]
                         /\ writes' \in Nat
                         /\ sawWrites' \in [Threads -> Nat]
BY DEF TypeOK, Finish, Drop, Commit, Goto, Places

LEMMA TypeStep == TypeOK /\ [Next]_vars => TypeOK'
<1> SUFFICES ASSUME TypeOK, [Next]_vars PROVE TypeOK'
  OBVIOUS
<1> USE DEF TypeOK, table, cache, locals
<1>1. ASSUME NEW S \in Catalogs, Rebuild(S) PROVE TypeOK'
  BY <1>1 DEF Rebuild
<1>2. ASSUME NEW w \in Workers, Expire(w) PROVE TypeOK'
  BY <1>2 DEF Expire, Drop
<1>3. ASSUME NEW t \in Threads, Step(t) PROVE TypeOK'
  <2> USE HomeIsWorker
  <2>1. CASE HitGraph(t)
    BY <2>1, HelperTypes DEF HitGraph
  <2>2. CASE HitList(t)
    BY <2>2 DEF HitList, Goto, Places
  <2>3. CASE Miss(t)
    BY <2>3 DEF Miss, Goto, Places
  <2>4. CASE Introspect(t)
    BY <2>4, CatalogsHoldTables DEF Introspect, Goto, Places
  <2>5. CASE Unavailable(t)
    BY <2>5, HelperTypes DEF Unavailable
  <2>6. CASE ReadOverrides(t)
    BY <2>6 DEF ReadOverrides, Goto, Places
  <2>7. CASE Store(t)
    <3>1. /\ cached' \in SUBSET Workers
          /\ cTables' \in [Workers -> SUBSET Tables]
          /\ cWrites' \in [Workers -> Nat]
      BY <2>7 DEF Store
    <3>2. CASE Finish(t)
      BY <2>7, <3>1, <3>2, HelperTypes DEF Store
    <3>3. CASE ~Finish(t)
      BY <2>7, <3>1, <3>3 DEF Store, Goto, Places
    <3> QED
      BY <3>2, <3>3
  <2>8. CASE ListRows(t)
    BY <2>8, HelperTypes DEF ListRows
  <2>9. CASE UpsertUpdates(t)
    BY <2>9, HelperTypes DEF UpsertUpdates
  <2>10. ASSUME NEW i \in Ids, UpsertInserts(t, i) PROVE TypeOK'
    <3>1. wanted[t] \in Pairs \union {NoPair}
      OBVIOUS
    <3> QED
      BY <2>10, <3>1, HelperTypes DEF UpsertInserts
  <2>11. CASE Conflict(t)
    BY <2>11, HelperTypes DEF Conflict
  <2>12. CASE NoConflict(t)
    BY <2>12 DEF NoConflict, Goto, Places
  <2>13. CASE SaveFails(t)
    BY <2>13, HelperTypes DEF SaveFails
  <2>14. CASE Save(t)
    <3>1. rowPair' \in [Ids -> Pairs \union {NoPair}]
      BY <2>14 DEF Save
    <3> QED
      BY <2>14, <3>1, HelperTypes DEF Save
  <2>15. CASE Delete(t)
    <3>1. rowPair' \in [Ids -> Pairs \union {NoPair}]
      BY <2>15 DEF Delete
    <3> QED
      BY <2>15, <3>1, HelperTypes DEF Delete
  <2>16. CASE InvalidateGraph(t)
    BY <2>16, HelperTypes DEF InvalidateGraph
  <2> QED
    BY <1>3, <2>1, <2>2, <2>3, <2>4, <2>5, <2>6, <2>7, <2>8, <2>9, <2>10, <2>11,
       <2>12, <2>13, <2>14, <2>15, <2>16 DEF Step
<1>4. ASSUME NEW t \in Threads, Arrive(t) PROVE TypeOK'
  <2>1. ASSUME NEW request \in {"graph", "list"}, Begin(t, request) PROVE TypeOK'
    BY <2>1 DEF Begin, Goto, Places
  <2>2. ASSUME NEW p \in Pairs, BeginSave(t, p) PROVE TypeOK'
    BY <2>2 DEF BeginSave, Goto, Places
  <2>3. ASSUME NEW i \in Ids, BeginDelete(t, i) PROVE TypeOK'
    BY <2>3 DEF BeginDelete, Goto, Places
  <2>4. ASSUME NEW i \in Ids, NEW p \in Pairs, BeginUpdate(t, i, p) PROVE TypeOK'
    BY <2>4 DEF BeginUpdate, Goto, Places
  <2> QED
    BY <1>4, <2>1, <2>2, <2>3, <2>4 DEF Arrive
<1>5. CASE UNCHANGED vars
  BY <1>5 DEF vars
<1> QED
  BY <1>1, <1>2, <1>3, <1>4, <1>5 DEF Next

(* No step leaves a variable outside its type: rows hold canonical pairs or *)
(* nothing, threads are at a statement of some request.                     *)
THEOREM TypeCorrect == Spec => []TypeOK
BY InitTypeOK, TypeStep, PTL DEF Spec

-----------------------------------------------------------------------------
(* The rows.  An edit or a delete is about one row it has seen, rows stand  *)
(* on keys that are spent, and a new row takes a fresh one.                 *)

Spent ==
  /\ \A i \in Ids : rowPair[i] # NoPair => i \in spent
  /\ \A t \in Threads : target[t] \subseteq spent

OneTarget == \A t \in Threads : \A i, j \in target[t] : i = j

RowInv == TypeOK /\ Spent /\ OneTarget /\ OnePairOneRow

LEMMA RowInvInit == Init => RowInv
BY InitTypeOK DEF Init, RowInv, Spent, OneTarget, OnePairOneRow

(* A step that leaves the rows alone fetches at most one of them. *)
LEMMA KeepsRows ==
  ASSUME RowInv, UNCHANGED <<rowPair, spent>>, TypeOK',
         \A t \in Threads : \/ target'[t] \subseteq target[t]
                            \/ \E i \in Ids : target'[t] = {i} /\ rowPair[i] # NoPair
  PROVE  RowInv'
<1>1. Spent' /\ OneTarget'
  BY DEF RowInv, Spent, OneTarget
<1>2. OnePairOneRow'
  BY DEF RowInv, OnePairOneRow
<1> QED
  BY <1>1, <1>2 DEF RowInv

(* Every step of a request but the four that change the rows. *)
LEMMA OtherSteps ==
  ASSUME TypeOK, NEW t \in Threads,
         \/ HitGraph(t) \/ HitList(t) \/ Miss(t) \/ Introspect(t)
         \/ Unavailable(t) \/ ReadOverrides(t) \/ Store(t) \/ ListRows(t)
         \/ UpsertUpdates(t) \/ Conflict(t) \/ NoConflict(t) \/ SaveFails(t)
         \/ InvalidateGraph(t)
  PROVE  /\ UNCHANGED <<rowPair, spent>>
         /\ \A s \in Threads : target'[s] \subseteq target[s]
<1> USE DEF TypeOK, Finish, table, locals
<1>1. UNCHANGED <<rowPair, spent>>
  BY DEF HitGraph, HitList, Miss, Introspect, Unavailable, ReadOverrides, Store,
         ListRows, UpsertUpdates, Conflict, NoConflict, SaveFails, InvalidateGraph
<1>2. \/ UNCHANGED target
      \/ target' = [target EXCEPT ![t] = {}]
  BY DEF HitGraph, HitList, Miss, Introspect, Unavailable, ReadOverrides, Store,
         ListRows, UpsertUpdates, Conflict, NoConflict, SaveFails, InvalidateGraph
<1> QED
  BY <1>1, <1>2

LEMMA RowInvStep == RowInv /\ [Next]_vars => RowInv'
<1> SUFFICES ASSUME RowInv, [Next]_vars PROVE RowInv'
  OBVIOUS
<1>0. TypeOK'
  BY TypeStep DEF RowInv
<1>t. TypeOK
  BY DEF RowInv
<1>1. ASSUME NEW S \in Catalogs, Rebuild(S) PROVE RowInv'
  BY <1>0, <1>1, KeepsRows DEF Rebuild, table
<1>2. ASSUME NEW w \in Workers, Expire(w) PROVE RowInv'
  BY <1>0, <1>2, KeepsRows DEF Expire, table, locals
<1>3. ASSUME NEW t \in Threads, Step(t) PROVE RowInv'
  <2>1. ASSUME NEW i \in Ids, UpsertInserts(t, i) PROVE RowInv'
    <3> USE <2>1, <1>t DEF UpsertInserts, RowInv, TypeOK
    <3>1. /\ i \notin spent /\ ~Taken(wanted[t], Ids)
          /\ rowPair' = [rowPair EXCEPT ![i] = wanted[t]]
          /\ spent' = spent \union {i} /\ target' = target
      OBVIOUS
    <3>2. Spent'
      BY <3>1 DEF Spent
    <3>3. OneTarget'
      BY <3>1 DEF OneTarget
    <3>4. OnePairOneRow'
      BY <3>1 DEF OnePairOneRow, Taken
    <3> QED
      BY <1>0, <3>2, <3>3, <3>4
  <2>2. CASE Save(t)
    <3> USE <2>2, <1>t DEF Save, RowInv, TypeOK
    <3>1. /\ ~Taken(wanted[t], Ids \ target[t])
          /\ rowPair' = [i \in Ids |-> IF i \in target[t] THEN wanted[t] ELSE rowPair[i]]
          /\ spent' = spent /\ target' = target
      OBVIOUS
    <3>2. Spent'
      BY <3>1 DEF Spent
    <3>3. OneTarget'
      BY <3>1 DEF OneTarget
    <3>4. OnePairOneRow'
      <4> SUFFICES ASSUME NEW i \in Ids, NEW j \in Ids,
                          rowPair'[i] # NoPair, rowPair'[i] = rowPair'[j], i # j
                   PROVE  FALSE
        BY DEF OnePairOneRow
      <4>1. CASE i \in target[t] /\ j \in target[t]
        BY <4>1 DEF OneTarget
      <4>2. CASE i \in target[t] /\ j \notin target[t]
        BY <3>1, <4>2 DEF Taken
      <4>3. CASE i \notin target[t] /\ j \in target[t]
        BY <3>1, <4>3 DEF Taken
      <4>4. CASE i \notin target[t] /\ j \notin target[t]
        BY <3>1, <4>4 DEF OnePairOneRow
      <4> QED
        BY <4>1, <4>2, <4>3, <4>4
    <3> QED
      BY <1>0, <3>2, <3>3, <3>4
  <2>3. CASE Delete(t)
    <3> USE <2>3, <1>t DEF Delete, RowInv, TypeOK
    <3>1. /\ rowPair' = [i \in Ids |-> IF i \in target[t] THEN NoPair ELSE rowPair[i]]
          /\ spent' = spent /\ target' = target
      OBVIOUS
    <3>2. Spent' /\ OneTarget' /\ OnePairOneRow'
      BY <3>1 DEF Spent, OneTarget, OnePairOneRow
    <3> QED
      BY <1>0, <3>2
  <2>4. CASE \/ HitGraph(t) \/ HitList(t) \/ Miss(t) \/ Introspect(t)
             \/ Unavailable(t) \/ ReadOverrides(t) \/ Store(t) \/ ListRows(t)
             \/ UpsertUpdates(t) \/ Conflict(t) \/ NoConflict(t) \/ SaveFails(t)
             \/ InvalidateGraph(t)
    BY <1>0, <1>t, <2>4, OtherSteps, KeepsRows
  <2> QED
    BY <1>3, <2>1, <2>2, <2>3, <2>4 DEF Step
<1>4. ASSUME NEW t \in Threads, Arrive(t) PROVE RowInv'
  <2>1. UNCHANGED <<rowPair, spent>>
    BY <1>4 DEF Arrive, Begin, BeginSave, BeginDelete, BeginUpdate, table
  <2>2. \/ UNCHANGED target
        \/ \E i \in Ids : rowPair[i] # NoPair /\ target' = [target EXCEPT ![t] = {i}]
    BY <1>4 DEF Arrive, Begin, BeginSave, BeginDelete, BeginUpdate
  <2> QED
    BY <1>0, <1>t, <2>1, <2>2, KeepsRows DEF TypeOK
<1>5. CASE UNCHANGED vars
  BY <1>0, <1>5, KeepsRows DEF vars, table, locals
<1> QED
  BY <1>1, <1>2, <1>3, <1>4, <1>5 DEF Next

LEMMA AlwaysRowInv == Spec => []RowInv
BY RowInvInit, RowInvStep, PTL DEF Spec

(* However two admins race on a pair, with POSTs, edits that move a row to  *)
(* it and deletes in between, one row at most stands for it.                *)
THEOREM PairsAreUnique == Spec => []OnePairOneRow
BY AlwaysRowInv, PTL DEF RowInv

(* A row keeps its pair until a request that fetched this very row changes  *)
(* or deletes it.                                                           *)
THEOREM EditsStayHome == Spec => OthersKeepTheirPair
<1> DEFINE Kept == \A i \in Ids :
                     rowPair[i] # NoPair /\ rowPair'[i] # rowPair[i]
                     => \E t \in Threads : i \in target[t] /\ pc[t] \in {"save", "delete"}
<1>1. RowInv /\ [Next]_vars => [Kept]_vars
  <2> SUFFICES ASSUME RowInv, Next, NEW i \in Ids,
                      rowPair[i] # NoPair, rowPair'[i] # rowPair[i]
               PROVE  \E t \in Threads : i \in target[t] /\ pc[t] \in {"save", "delete"}
    OBVIOUS
  <2> USE DEF RowInv, TypeOK
  <2>1. ~(\E S \in Catalogs : Rebuild(S)) /\ ~(\E w \in Workers : Expire(w))
    BY DEF Rebuild, Expire, table
  <2>2. PICK t \in Threads : Step(t) \/ Arrive(t)
    BY <2>1 DEF Next
  <2>3. ~Arrive(t)
    BY DEF Arrive, Begin, BeginSave, BeginDelete, BeginUpdate, table
  <2>4. ~(\E j \in Ids : UpsertInserts(t, j))
    BY DEF UpsertInserts, Spent
  <2>5. Save(t) \/ Delete(t)
    BY <2>2, <2>3, <2>4, OtherSteps DEF Step
  <2>6. i \in target[t] /\ pc[t] \in {"save", "delete"}
    BY <2>5 DEF Save, Delete
  <2> QED
    BY <2>6
<1> QED
  BY <1>1, AlwaysRowInv, PTL DEF Spec, OthersKeepTheirPair

-----------------------------------------------------------------------------
(* The graphs.  What a request read of the overrides is no older than the   *)
(* last write its process has answered, for as long as it holds the         *)
(* process alone: nobody else there can answer a write in between.          *)

Alone(w) == \A s, t \in Threads : Home[s] = w /\ Home[t] = w => s = t

ReadSince ==
  \A t \in Threads :
    /\ sawWrites[t] <= writes
    /\ own[Home[t]] <= writes
    /\ Alone(Home[t]) /\ pc[t] \in {"store", "storeList", "invalidate"}
         => sawWrites[t] >= own[Home[t]]

ServedSince == \A w \in cached : Alone(w) => cWrites[w] >= own[w]

GraphInv == TypeOK /\ ReadSince /\ ServedSince

LEMMA GraphInvInit == Init => GraphInv
BY InitTypeOK, HomeIsWorker DEF Init, GraphInv, ReadSince, ServedSince

LEMMA GraphInvStep == GraphInv /\ [Next]_vars => GraphInv'
<1> SUFFICES ASSUME GraphInv, [Next]_vars PROVE GraphInv'
  OBVIOUS
<1>0. TypeOK /\ TypeOK'
  BY TypeStep DEF GraphInv
<1> USE HomeIsWorker
<1>1. ASSUME NEW S \in Catalogs, Rebuild(S) PROVE GraphInv'
  BY <1>0, <1>1 DEF Rebuild, table, cache, GraphInv, ReadSince, ServedSince
<1>2. ASSUME NEW w \in Workers, Expire(w) PROVE GraphInv'
  BY <1>0, <1>2 DEF Expire, Drop, table, locals, GraphInv, ReadSince, ServedSince, TypeOK
<1>3. ASSUME NEW t \in Threads, Step(t) PROVE GraphInv'
  <2>1. CASE ReadOverrides(t)
    <3>1. UNCHANGED <<writes, own, cached, cWrites>>
      BY <2>1 DEF ReadOverrides, table, cache
    <3>2. /\ sawWrites' = [sawWrites EXCEPT ![t] = writes]
          /\ \A s \in Threads : s # t => pc'[s] = pc[s]
      BY <1>0, <2>1 DEF ReadOverrides, Goto, TypeOK
    <3> QED
      BY <1>0, <3>1, <3>2 DEF GraphInv, ReadSince, ServedSince, TypeOK
  <2>2. CASE Store(t)
    <3>1. /\ UNCHANGED <<writes, own>>
          /\ cached' = cached \union {Home[t]}
          /\ cWrites' = [cWrites EXCEPT ![Home[t]] = sawWrites[t]]
          /\ pc[t] \in {"store", "storeList"}
      BY <2>2 DEF Store, table
    <3>2. /\ sawWrites' = [sawWrites EXCEPT ![t] = 0]
          /\ pc'[t] \in {"idle", "rows"}
          /\ \A s \in Threads : s # t => pc'[s] = pc[s]
      BY <1>0, <2>2 DEF Store, Finish, Goto, TypeOK
    <3>3. ReadSince'
      BY <1>0, <3>1, <3>2 DEF GraphInv, ReadSince, TypeOK
    <3>4. ServedSince'
      BY <1>0, <3>1 DEF GraphInv, ReadSince, ServedSince, TypeOK
    <3> QED
      BY <1>0, <3>3, <3>4 DEF GraphInv
  <2>3. CASE InvalidateGraph(t)
    <3>1. /\ UNCHANGED writes
          /\ own' = [own EXCEPT ![Home[t]] = sawWrites[t]]
          /\ cached' = cached \ {Home[t]}
          /\ cWrites' = [cWrites EXCEPT ![Home[t]] = 0]
      BY <2>3 DEF InvalidateGraph, Drop, table
    <3>2. /\ sawWrites' = [sawWrites EXCEPT ![t] = 0]
          /\ pc' = [pc EXCEPT ![t] = "idle"]
      BY <2>3 DEF InvalidateGraph, Finish, Goto
    <3>3. ReadSince'
      BY <1>0, <3>1, <3>2 DEF GraphInv, ReadSince, Alone, TypeOK
    <3>4. ServedSince'
      BY <1>0, <3>1 DEF GraphInv, ServedSince, TypeOK
    <3> QED
      BY <1>0, <3>3, <3>4 DEF GraphInv
  <2>4. ASSUME Commit(t), UNCHANGED <<cached, cWrites, own>> PROVE GraphInv'
    <3>1. /\ writes' = writes + 1
          /\ sawWrites' = [sawWrites EXCEPT ![t] = writes + 1]
          /\ pc' = [pc EXCEPT ![t] = "invalidate"]
      BY <2>4 DEF Commit, Goto
    <3> QED
      BY <1>0, <2>4, <3>1 DEF GraphInv, ReadSince, ServedSince, TypeOK
  <2>5. ASSUME UNCHANGED <<writes, own, cached, cWrites>>,
               \/ Finish(t)
               \/ /\ UNCHANGED sawWrites
                  /\ \E place \in Places \ {"store", "storeList", "invalidate"} :
                       Goto(t, place)
        PROVE  GraphInv'
    <3>1. /\ sawWrites' = sawWrites \/ sawWrites' = [sawWrites EXCEPT ![t] = 0]
          /\ pc'[t] \notin {"store", "storeList", "invalidate"}
          /\ \A s \in Threads : s # t => pc'[s] = pc[s]
      BY <1>0, <2>5 DEF Finish, Goto, TypeOK
    <3> QED
      BY <1>0, <2>5, <3>1 DEF GraphInv, ReadSince, ServedSince, TypeOK
  <2>6. CASE HitGraph(t) \/ Unavailable(t) \/ ListRows(t) \/ Conflict(t) \/ SaveFails(t)
    BY <2>5, <2>6 DEF HitGraph, Unavailable, ListRows, Conflict, SaveFails, table, cache
  <2>7. CASE HitList(t) \/ Miss(t) \/ Introspect(t) \/ NoConflict(t)
    BY <2>5, <2>7 DEF HitList, Miss, Introspect, NoConflict, table, cache, locals, Places
  <2>8. CASE UpsertUpdates(t) \/ Save(t) \/ Delete(t)
    BY <2>4, <2>8 DEF UpsertUpdates, Save, Delete, cache
  <2>9. ASSUME NEW i \in Ids, UpsertInserts(t, i) PROVE GraphInv'
    BY <2>4, <2>9 DEF UpsertInserts, cache
  <2> QED
    BY <1>3, <2>1, <2>2, <2>3, <2>6, <2>7, <2>8, <2>9 DEF Step
<1>4. ASSUME NEW t \in Threads, Arrive(t) PROVE GraphInv'
  <2>1. UNCHANGED <<writes, own, cached, cWrites, sawWrites>>
    BY <1>4 DEF Arrive, Begin, BeginSave, BeginDelete, BeginUpdate, table, cache
  <2>2. \E place \in {"graph", "list", "upsert", "clash", "delete"} :
          pc' = [pc EXCEPT ![t] = place]
    BY <1>4 DEF Arrive, Begin, BeginSave, BeginDelete, BeginUpdate, Goto
  <2> QED
    BY <1>0, <2>1, <2>2 DEF GraphInv, ReadSince, ServedSince, TypeOK
<1>5. CASE UNCHANGED vars
  BY <1>0, <1>5 DEF vars, table, cache, locals, GraphInv, ReadSince, ServedSince
<1> QED
  BY <1>1, <1>2, <1>3, <1>4, <1>5 DEF Next

(* With one request at a time per process, as gunicorn runs it, a process   *)
(* that has answered a write never again serves a graph from before it,     *)
(* whatever its siblings write, cache or invalidate.                        *)
THEOREM WritesAreServed == Spec => []ReadYourWrites
<1>1. GraphInv => ReadYourWrites
  BY DEF GraphInv, ServedSince, ReadYourWrites, OneThreadEach, Alone
<1> QED
  BY <1>1, GraphInvInit, GraphInvStep, PTL DEF Spec
=============================================================================
