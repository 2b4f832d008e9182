------------------------ MODULE ResourceCacheProofs ------------------------
(***************************************************************************)
(* Theorems about ResourceCache, for every set of keys, hooks and requests *)
(* and every bound on the writes.                                          *)
(***************************************************************************)
EXTENDS ResourceCache, TLAPS

(* What makes OneFlightPerKey enough for NeverGoesBack: whatever is cached *)
(* was on the server once, and an answer under way is no older than it.    *)
AnswersAreNews ==
  /\ \A k \in Keys : data[k] # NoData => data[k] <= version[k]
  /\ \A r \in Requests :
       seen[r] # NoData =>
         /\ asks[r] # NoKey
         /\ seen[r] <= version[asks[r]]
         /\ data[asks[r]] # NoData => data[asks[r]] <= seen[r]

IInv == TypeOK /\ OneFlightPerKey /\ WatchedIsFetched /\ AnswersAreNews

-----------------------------------------------------------------------------
(* A hook's view of a well-typed cache is well typed. *)
LEMMA ShownType ==
  ASSUME TypeOK, NEW k \in Keys \union {NoKey}
  PROVE  Shown(k) \in View
  BY NoDataIsNoVersion DEF Shown, View, Loading, TypeOK

(* The same about the next state, where only the cache need be typed. *)
LEMMA NotifyType ==
  ASSUME TypeOK, UNCHANGED rendered,
         data' \in [Keys -> Nat \union {NoData}],
         NEW k \in Keys, Notify(k)
  PROVE  view' \in [Watchers -> View]
<1>1. \A w \in Watchers : rendered'[w] \in Keys \union {NoKey}
  BY DEF TypeOK
<1>2. \A w \in Watchers : Shown(rendered[w])' \in View
  BY <1>1, NoDataIsNoVersion DEF Shown, View, Loading
<1>3. \A w \in Watchers : view[w] \in View
  BY DEF TypeOK
<1>4. QED  BY <1>2, <1>3 DEF Notify

(* revalidate leaves k in flight, no key twice, and every answer alone.    *)
LEMMA RevalidateEffect ==
  ASSUME TypeOK, OneFlightPerKey, UNCHANGED rendered,
         data' \in [Keys -> Nat \union {NoData}],
         NEW k \in Keys, Revalidate(k)
  PROVE  /\ promised' = promised \union {k}
         /\ asks' \in [Requests -> Keys \union {NoKey}]
         /\ view' \in [Watchers -> View]
         /\ UNCHANGED seen
         /\ \A r \in Requests : asks[r] # NoKey => asks'[r] = asks[r]
         /\ OneFlightPerKey'
<1> USE NoKeyIsNoKey
<1>1. CASE k \in promised /\ UNCHANGED <<promised, net, view>>
  BY <1>1 DEF TypeOK, OneFlightPerKey, net
<1>2. CASE /\ k \notin promised
           /\ promised' = promised \union {k}
           /\ \E r \in Requests :
                asks[r] = NoKey /\ asks' = [asks EXCEPT ![r] = k]
           /\ UNCHANGED seen
           /\ Notify(k)
  <2>1. PICK r \in Requests : asks[r] = NoKey /\ asks' = [asks EXCEPT ![r] = k]
    BY <1>2
  <2>2. view' \in [Watchers -> View]
    BY <1>2, NotifyType
  <2>3. \A q \in Requests : asks[q] # k
    BY <1>2 DEF OneFlightPerKey
  <2>4. \A q \in Requests : asks'[q] = IF q = r THEN k ELSE asks[q]
    BY <2>1 DEF TypeOK
  <2>5. OneFlightPerKey'
    BY <1>2, <2>1, <2>3, <2>4 DEF OneFlightPerKey
  <2>6. QED  BY <1>2, <2>1, <2>2, <2>4, <2>5 DEF TypeOK
<1>3. QED  BY <1>1, <1>2 DEF Revalidate

(* A request that settles frees its key and touches no other.  *)
LEMMA SettleEffect ==
  ASSUME TypeOK, OneFlightPerKey,
         data' \in [Keys -> Nat \union {NoData}],
         NEW r \in Requests, asks[r] # NoKey, Settle(r)
  PROVE  /\ asks[r] \in Keys
         /\ age' = [age EXCEPT ![asks[r]] = "fresh"]
         /\ promised' = promised \ {asks[r]}
         /\ asks' \in [Requests -> Keys \union {NoKey}]
         /\ seen' \in [Requests -> Nat \union {NoData}]
         /\ view' \in [Watchers -> View]
         /\ asks'[r] = NoKey /\ seen'[r] = NoData
         /\ \A q \in Requests :
              q # r => /\ asks'[q] = asks[q] /\ seen'[q] = seen[q]
                       /\ asks[q] # asks[r]
         /\ OneFlightPerKey'
<1> USE NoKeyIsNoKey
<1>1. asks[r] \in Keys
  BY DEF TypeOK
<1>2. /\ asks' \in [Requests -> Keys \union {NoKey}]
      /\ seen' \in [Requests -> Nat \union {NoData}]
      /\ asks'[r] = NoKey /\ seen'[r] = NoData
      /\ \A q \in Requests : q # r => asks'[q] = asks[q] /\ seen'[q] = seen[q]
  BY DEF Settle, TypeOK
<1>3. \A q \in Requests : q # r => asks[q] # asks[r]
  BY DEF OneFlightPerKey
<1>4. view' \in [Watchers -> View]
  BY <1>1, NotifyType DEF Settle, hooks
<1>5. promised' = promised \ {asks[r]}
  BY DEF Settle
<1>6. OneFlightPerKey'
  BY <1>1, <1>2, <1>3, <1>5 DEF OneFlightPerKey
<1>7. QED  BY <1>1, <1>2, <1>3, <1>4, <1>5, <1>6 DEF Settle

-----------------------------------------------------------------------------
LEMMA InitIInv == Init => IInv
  BY NoKeyIsNoKey, NoDataIsNoVersion
     DEF Init, IInv, TypeOK, OneFlightPerKey, WatchedIsFetched, AnswersAreNews,
         Ages, View, Loading

LEMMA StepIInv == IInv /\ [Next]_vars => IInv'
<1> SUFFICES ASSUME IInv, [Next]_vars PROVE IInv'
  OBVIOUS
<1> USE NoDataIsNoVersion, NoKeyIsNoKey
<1>0. TypeOK /\ OneFlightPerKey /\ WatchedIsFetched /\ AnswersAreNews
  BY DEF IInv
<1>1. ASSUME NEW w \in Watchers, NEW k \in Keys \union {NoKey}, Render(w, k)
      PROVE  IInv'
  <2>1. TypeOK'
    BY <1>0, <1>1, ShownType DEF Render, TypeOK, entry, net
  <2>2. OneFlightPerKey' /\ WatchedIsFetched' /\ AnswersAreNews'
    BY <1>0, <1>1
       DEF Render, OneFlightPerKey, WatchedIsFetched, AnswersAreNews, entry, net
  <2>3. QED  BY <2>1, <2>2 DEF IInv
<1>2. ASSUME NEW w \in Watchers, Rerender(w) PROVE IInv'
  <2>1. rendered[w] \in Keys \union {NoKey}
    BY <1>0 DEF TypeOK
  <2>2. TypeOK'
    BY <1>0, <1>2, <2>1, ShownType DEF Rerender, TypeOK, entry, net, hooks
  <2>3. OneFlightPerKey' /\ WatchedIsFetched' /\ AnswersAreNews'
    BY <1>0, <1>2
       DEF Rerender, OneFlightPerKey, WatchedIsFetched, AnswersAreNews, entry, net, hooks
  <2>4. QED  BY <2>2, <2>3 DEF IInv
<1>3. ASSUME NEW w \in Watchers, Subscribe(w) PROVE IInv'
  <2> DEFINE k == rendered[w]
  <2>1. /\ k \in Keys \union {NoKey}
        /\ listening' = [listening EXCEPT ![w] = k]
        /\ listening' \in [Watchers -> Keys \union {NoKey}]
        /\ UNCHANGED <<version, data, failed, age, rendered, toDrop>>
    BY <1>0, <1>3 DEF Subscribe, TypeOK
  <2>2. CASE WantsFetch(k) /\ Revalidate(k)
    <3>1. k \in Keys
      BY <2>1, <2>2 DEF WantsFetch
    <3>2. data' \in [Keys -> Nat \union {NoData}] /\ UNCHANGED rendered
      BY <1>0, <2>1 DEF TypeOK
    <3>3. /\ promised' = promised \union {k}
          /\ asks' \in [Requests -> Keys \union {NoKey}]
          /\ view' \in [Watchers -> View]
          /\ UNCHANGED seen
          /\ \A r \in Requests : asks[r] # NoKey => asks'[r] = asks[r]
          /\ OneFlightPerKey'
      BY <1>0, <2>2, <3>1, <3>2, RevalidateEffect
    <3>4. TypeOK'
      BY <1>0, <2>1, <3>1, <3>3 DEF TypeOK
    <3>5. WatchedIsFetched'
      BY <1>0, <2>1, <3>3 DEF WatchedIsFetched, TypeOK
    <3>6. AnswersAreNews'
      BY <1>0, <2>1, <3>3 DEF AnswersAreNews
    <3>7. QED  BY <3>3, <3>4, <3>5, <3>6 DEF IInv
  <2>3. CASE ~WantsFetch(k) /\ UNCHANGED <<promised, net, view>>
    <3>1. TypeOK'
      BY <1>0, <2>1, <2>3 DEF TypeOK, net
    <3>2. OneFlightPerKey' /\ AnswersAreNews'
      BY <1>0, <2>1, <2>3 DEF OneFlightPerKey, AnswersAreNews, net
    <3>3. WatchedIsFetched'
      BY <1>0, <2>1, <2>3 DEF WatchedIsFetched, WantsFetch, TypeOK
    <3>4. QED  BY <3>1, <3>2, <3>3 DEF IInv
  <2>4. QED  BY <1>3, <2>2, <2>3 DEF Subscribe
<1>4. ASSUME NEW w \in Watchers, Refetch(w) PROVE IInv'
  <2> DEFINE k == rendered[w]
  <2>1. /\ k \in Keys
        /\ Revalidate(k)
        /\ UNCHANGED <<version, data, failed, age, rendered, listening, toDrop>>
    BY <1>0, <1>4 DEF Refetch, TypeOK, hooks
  <2>2. data' \in [Keys -> Nat \union {NoData}]
    BY <1>0, <2>1 DEF TypeOK
  <2>3. /\ promised' = promised \union {k}
        /\ asks' \in [Requests -> Keys \union {NoKey}]
        /\ view' \in [Watchers -> View]
        /\ UNCHANGED seen
        /\ \A r \in Requests : asks[r] # NoKey => asks'[r] = asks[r]
        /\ OneFlightPerKey'
    BY <1>0, <2>1, <2>2, RevalidateEffect
  <2>4. TypeOK'
    BY <1>0, <2>1, <2>3 DEF TypeOK
  <2>5. WatchedIsFetched'
    BY <1>0, <2>1, <2>3 DEF WatchedIsFetched
  <2>6. AnswersAreNews'
    BY <1>0, <2>1, <2>3 DEF AnswersAreNews
  <2>7. QED  BY <2>3, <2>4, <2>5, <2>6 DEF IInv
<1>5. ASSUME NEW k \in Keys, Mutate(k) PROVE IInv'
  <2>1. UNCHANGED <<data, failed, age, promised, asks, seen, rendered, listening, view>>
    BY <1>5 DEF Mutate, entry, net, hooks
  <2>2. TypeOK'
    BY <1>0, <1>5, <2>1 DEF Mutate, TypeOK
  <2>3. OneFlightPerKey' /\ WatchedIsFetched'
    BY <1>0, <2>1 DEF OneFlightPerKey, WatchedIsFetched
  <2>4. \A j \in Keys : /\ version[j] \in Nat /\ version'[j] \in Nat
                        /\ version[j] <= version'[j]
    BY <1>0, <1>5 DEF Mutate, TypeOK
  <2>5. AnswersAreNews'
    <3>1. \A j \in Keys : data[j] # NoData => data[j] \in Nat
      BY <1>0 DEF TypeOK
    <3>2. \A r \in Requests : /\ asks[r] # NoKey => asks[r] \in Keys
                              /\ seen[r] # NoData => seen[r] \in Nat
      BY <1>0 DEF TypeOK
    <3>3. QED  BY <1>0, <2>1, <2>4, <3>1, <3>2 DEF AnswersAreNews
  <2>6. QED  BY <2>2, <2>3, <2>5 DEF IInv
<1>6. ASSUME NEW k \in Keys, InvalidateResource(k) PROVE IInv'
  <2>1. /\ toDrop' = toDrop \ {k}
        /\ data' = [data EXCEPT ![k] = NoData]
        /\ failed' = failed \ {k}
        /\ age' = [age EXCEPT ![k] = "never"]
        /\ UNCHANGED <<version, rendered, listening>>
    BY <1>6 DEF InvalidateResource, hooks
  <2>2. /\ data' \in [Keys -> Nat \union {NoData}]
        /\ age' \in [Keys -> Ages]
        /\ \A j \in Keys : /\ data'[j] = IF j = k THEN NoData ELSE data[j]
                           /\ j # k => age'[j] = age[j]
    BY <1>0, <2>1 DEF TypeOK, Ages
  <2>3. CASE Watched(k) /\ Revalidate(k)
    <3>1. /\ promised' = promised \union {k}
          /\ asks' \in [Requests -> Keys \union {NoKey}]
          /\ view' \in [Watchers -> View]
          /\ UNCHANGED seen
          /\ \A r \in Requests : asks[r] # NoKey => asks'[r] = asks[r]
          /\ OneFlightPerKey'
      BY <1>0, <2>1, <2>2, <2>3, RevalidateEffect
    <3>2. TypeOK'
      BY <1>0, <2>1, <2>2, <3>1 DEF TypeOK
    <3>3. WatchedIsFetched'
      BY <1>0, <2>1, <2>2, <3>1 DEF WatchedIsFetched
    <3>4. AnswersAreNews'
      BY <1>0, <2>1, <2>2, <3>1 DEF AnswersAreNews, TypeOK
    <3>5. QED  BY <3>1, <3>2, <3>3, <3>4 DEF IInv
  <2>4. CASE ~Watched(k) /\ UNCHANGED <<promised, net, view>>
    <3>1. TypeOK'
      BY <1>0, <2>1, <2>2, <2>4 DEF TypeOK, net
    <3>2. OneFlightPerKey'
      BY <1>0, <2>4 DEF OneFlightPerKey, net
    <3>3. WatchedIsFetched'
      BY <1>0, <2>1, <2>2, <2>4 DEF WatchedIsFetched, Watched
    <3>4. AnswersAreNews'
      BY <1>0, <2>1, <2>2, <2>4 DEF AnswersAreNews, TypeOK, net
    <3>5. QED  BY <3>1, <3>2, <3>3, <3>4 DEF IInv
  <2>5. QED  BY <1>6, <2>3, <2>4 DEF InvalidateResource
<1>7. ASSUME NEW k \in Keys, GrowStale(k) PROVE IInv'
  <2>1. TypeOK'
    BY <1>0, <1>7 DEF GrowStale, TypeOK, Ages, net, hooks
  <2>2. OneFlightPerKey' /\ AnswersAreNews'
    BY <1>0, <1>7 DEF GrowStale, OneFlightPerKey, AnswersAreNews, net
  <2>3. WatchedIsFetched'
    BY <1>0, <1>7 DEF GrowStale, WatchedIsFetched, TypeOK, hooks
  <2>4. QED  BY <2>1, <2>2, <2>3 DEF IInv
<1>8. ASSUME NEW r \in Requests, Answer(r) PROVE IInv'
  <2>1. asks[r] \in Keys /\ version[asks[r]] \in Nat
    BY <1>0, <1>8 DEF Answer, TypeOK
  <2>2. TypeOK'
    BY <1>0, <1>8, <2>1 DEF Answer, TypeOK, entry, hooks
  <2>3. OneFlightPerKey' /\ WatchedIsFetched'
    BY <1>0, <1>8 DEF Answer, OneFlightPerKey, WatchedIsFetched, entry, hooks
  <2>4. AnswersAreNews'
    BY <1>0, <1>8, <2>1 DEF Answer, AnswersAreNews, TypeOK, entry
  <2>5. QED  BY <2>2, <2>3, <2>4 DEF IInv
<1>9. ASSUME NEW r \in Requests, SettleSuccess(r) PROVE IInv'
  <2>1. /\ asks[r] # NoKey /\ seen[r] \in Nat
        /\ asks[r] \in Keys
        /\ data' = [data EXCEPT ![asks[r]] = seen[r]]
        /\ data' \in [Keys -> Nat \union {NoData}]
        /\ failed' = failed \ {asks[r]}
        /\ Settle(r)
        /\ UNCHANGED <<version, rendered, listening, toDrop>>
    BY <1>0, <1>9 DEF SettleSuccess, Settle, AnswersAreNews, TypeOK, hooks
  <2>2. /\ age' = [age EXCEPT ![asks[r]] = "fresh"]
        /\ promised' = promised \ {asks[r]}
        /\ asks' \in [Requests -> Keys \union {NoKey}]
        /\ seen' \in [Requests -> Nat \union {NoData}]
        /\ view' \in [Watchers -> View]
        /\ asks'[r] = NoKey /\ seen'[r] = NoData
        /\ \A q \in Requests :
             q # r => /\ asks'[q] = asks[q] /\ seen'[q] = seen[q]
                      /\ asks[q] # asks[r]
        /\ OneFlightPerKey'
    BY <1>0, <2>1, SettleEffect
  <2>3. TypeOK'
    BY <1>0, <2>1, <2>2 DEF TypeOK, Ages
  <2>4. WatchedIsFetched'
    BY <1>0, <2>1, <2>2 DEF WatchedIsFetched, TypeOK
  <2>5. \A j \in Keys : data'[j] = IF j = asks[r] THEN seen[r] ELSE data[j]
    BY <1>0, <2>1 DEF TypeOK
  <2>6. AnswersAreNews'
    BY <1>0, <2>1, <2>2, <2>5 DEF AnswersAreNews, TypeOK
  <2>7. QED  BY <2>2, <2>3, <2>4, <2>6 DEF IInv
<1>10. ASSUME NEW r \in Requests, SettleFailure(r) PROVE IInv'
  <2>1. /\ asks[r] # NoKey
        /\ UNCHANGED data
        /\ data' \in [Keys -> Nat \union {NoData}]
        /\ failed' = failed \union {asks[r]}
        /\ Settle(r)
        /\ UNCHANGED <<version, rendered, listening, toDrop>>
    BY <1>0, <1>10 DEF SettleFailure, Settle, TypeOK, hooks
  <2>2. /\ asks[r] \in Keys
        /\ age' = [age EXCEPT ![asks[r]] = "fresh"]
        /\ promised' = promised \ {asks[r]}
        /\ asks' \in [Requests -> Keys \union {NoKey}]
        /\ seen' \in [Requests -> Nat \union {NoData}]
        /\ view' \in [Watchers -> View]
        /\ asks'[r] = NoKey /\ seen'[r] = NoData
        /\ \A q \in Requests :
             q # r => /\ asks'[q] = asks[q] /\ seen'[q] = seen[q]
                      /\ asks[q] # asks[r]
        /\ OneFlightPerKey'
    BY <1>0, <2>1, SettleEffect
  <2>3. TypeOK'
    BY <1>0, <2>1, <2>2 DEF TypeOK, Ages
  <2>4. WatchedIsFetched'
    BY <1>0, <2>1, <2>2 DEF WatchedIsFetched, TypeOK
  <2>5. AnswersAreNews'
    BY <1>0, <2>1, <2>2 DEF AnswersAreNews, TypeOK
  <2>6. QED  BY <2>2, <2>3, <2>4, <2>5 DEF IInv
<1>11. CASE UNCHANGED vars
  BY <1>0, <1>11
     DEF vars, entry, net, hooks, IInv, TypeOK, OneFlightPerKey, WatchedIsFetched,
         AnswersAreNews
<1>12. QED
  BY <1>1, <1>2, <1>3, <1>4, <1>5, <1>6, <1>7, <1>8, <1>9, <1>10, <1>11 DEF Next

LEMMA AlwaysIInv == Spec => []IInv
  BY InitIInv, StepIInv, PTL DEF Spec

-----------------------------------------------------------------------------
(* Every variable keeps its type. *)
THEOREM TypeCorrect == Spec => []TypeOK
  BY AlwaysIInv, PTL DEF IInv

(* revalidate never has two requests out for one key. *)
THEOREM SingleFlight == Spec => []OneFlightPerKey
  BY AlwaysIInv, PTL DEF IInv

(* An empty entry with a listener is being fetched. *)
THEOREM NoDeadSkeleton == Spec => []WatchedIsFetched
  BY AlwaysIInv, PTL DEF IInv
-----------------------------------------------------------------------------
LEMMA InitRefines == Init => Abstract!Init
  BY DEF Init, Abstract!Init

(* Every step of the cache writes, learns, forgets or stutters. *)
LEMMA StepRefines == IInv /\ [Next]_vars => [Abstract!Next]_(Abstract!vars)
<1> SUFFICES ASSUME IInv, [Next]_vars PROVE [Abstract!Next]_(Abstract!vars)
  OBVIOUS
<1>0. TypeOK /\ AnswersAreNews
  BY DEF IInv
<1>1. ASSUME NEW k \in Keys, Mutate(k) PROVE Abstract!Next
  BY <1>1 DEF Mutate, entry, Abstract!Next, Abstract!Write
<1>2. ASSUME NEW k \in Keys, InvalidateResource(k) PROVE Abstract!Next
  BY <1>2 DEF InvalidateResource, Abstract!Next, Abstract!Forget
<1>3. ASSUME NEW r \in Requests, SettleSuccess(r) PROVE Abstract!Next
  <2> DEFINE k == asks[r]
  <2>1. k \in Keys /\ seen[r] \in 0 .. version[k]
    BY <1>0, <1>3, NoKeyIsNoKey, NoDataIsNoVersion
       DEF SettleSuccess, AnswersAreNews, TypeOK
  <2>2. data[k] = NoData \/ data[k] <= seen[r]
    BY <1>0, <1>3 DEF SettleSuccess, AnswersAreNews
  <2>3. data' = [data EXCEPT ![k] = seen[r]] /\ UNCHANGED version
    BY <1>3 DEF SettleSuccess, Settle
  <2>4. Abstract!Learn(k)
    BY <2>1, <2>2, <2>3 DEF Abstract!Learn
  <2>5. QED  BY <2>1, <2>4 DEF Abstract!Next
<1>4. ASSUME NEW r \in Requests, SettleFailure(r) PROVE UNCHANGED <<version, data>>
  BY <1>4 DEF SettleFailure, Settle
<1>5. ASSUME NEW w \in Watchers,
             \/ \E k \in Keys \union {NoKey} : Render(w, k)
             \/ Rerender(w) \/ Subscribe(w) \/ Refetch(w)
      PROVE  UNCHANGED <<version, data>>
  BY <1>5 DEF Render, Rerender, Subscribe, Refetch, entry
<1>6. ASSUME NEW k \in Keys, GrowStale(k) PROVE UNCHANGED <<version, data>>
  BY <1>6 DEF GrowStale
<1>7. ASSUME NEW r \in Requests, Answer(r) PROVE UNCHANGED <<version, data>>
  BY <1>7 DEF Answer, entry
<1>8. CASE UNCHANGED vars
  BY <1>8 DEF vars, entry, Abstract!vars
<1>9. QED
  BY <1>1, <1>2, <1>3, <1>4, <1>5, <1>6, <1>7, <1>8 DEF Next, Abstract!vars

(* The cache never takes a version back and never invents one: it          *)
(* implements ReadThrough.                                                 *)
THEOREM CacheIsReadThrough == Spec => NeverGoesBack
  BY InitRefines, StepRefines, AlwaysIInv, PTL
     DEF Spec, NeverGoesBack, Abstract!Spec

-----------------------------------------------------------------------------
(* A fetch ends only in the finally block of its request.                  *)
LEMMA OnlySettling ==
  ASSUME IInv, [Next]_vars, NEW k \in Keys, k \in promised, k \notin promised'
  PROVE  \E r \in Requests : asks[r] = k /\ Settle(r)
<1> USE NoKeyIsNoKey
<1>1. ASSUME NEW j, Revalidate(j) PROVE promised \subseteq promised'
  BY <1>1 DEF Revalidate
<1>2. ASSUME NEW w \in Watchers, NEW j, Render(w, j) \/ Rerender(w) \/ Subscribe(w) \/ Refetch(w)
      PROVE  promised \subseteq promised'
  BY <1>1, <1>2 DEF Render, Rerender, Subscribe, Refetch, entry
<1>3. ASSUME NEW j \in Keys, Mutate(j) \/ InvalidateResource(j) \/ GrowStale(j)
      PROVE  promised \subseteq promised'
  BY <1>1, <1>3 DEF Mutate, InvalidateResource, GrowStale, entry
<1>4. ASSUME NEW r \in Requests, Answer(r) PROVE promised \subseteq promised'
  BY <1>4 DEF Answer, entry
<1>5. ASSUME NEW r \in Requests, SettleSuccess(r) \/ SettleFailure(r)
      PROVE  Settle(r) /\ (k \notin promised' => asks[r] = k)
  BY <1>5 DEF SettleSuccess, SettleFailure, Settle
<1>6. UNCHANGED vars => promised' = promised
  BY DEF vars, entry
<1> QED BY <1>2, <1>3, <1>4, <1>5, <1>6 DEF Next

LEMMA HookKeepsUp ==
  ASSUME IInv, [Next]_vars, NEW w \in Watchers, NEW k \in Keys,
         listening[w] = k, rendered[w] = k, rendered'[w] = k,
         view[w] = Shown(k) \/ k \in promised
  PROVE  view'[w] = Shown(k)' \/ k \in promised'
<1> SUFFICES ASSUME k \notin promised' PROVE view'[w] = Shown(k)'
  OBVIOUS
<1> USE NoKeyIsNoKey
<1>0. TypeOK
  BY DEF IInv
<1>1. CASE k \in promised
  <2>1. PICK r \in Requests : asks[r] = k /\ Settle(r)
    BY <1>1, OnlySettling
  <2>2. listening'[w] = k
    BY <2>1 DEF Settle, hooks
  <2> QED BY <2>1, <2>2 DEF Settle, Notify, Shown
<1>2. CASE k \notin promised
  <2> USE <1>2
  <2>0. view[w] = Shown(k)
    BY <1>2
  <2>1. ASSUME NEW j \in Keys, Revalidate(j), UNCHANGED hooks PROVE view'[w] = view[w]
    <3>1. j # k
      BY <2>1 DEF Revalidate
    <3>2. listening'[w] # j
      BY <2>1, <3>1 DEF hooks
    <3> QED BY <2>1, <3>2 DEF Revalidate, Notify
  <2>2. ASSUME NEW v \in Watchers, NEW j \in Keys \union {NoKey}, Render(v, j)
        PROVE  view'[w] = view[w] /\ Shown(k)' = Shown(k)
    <3>1. v # w
      BY <1>0, <2>2 DEF Render, TypeOK
    <3> QED BY <1>0, <2>2, <3>1 DEF Render, entry, TypeOK, Shown
  <2>3. ASSUME NEW v \in Watchers, Rerender(v)
        PROVE  view'[w] \in {view[w], Shown(k)} /\ Shown(k)' = Shown(k)
    BY <1>0, <2>3 DEF Rerender, entry, TypeOK, Shown
  <2>4. ASSUME NEW v \in Watchers, Subscribe(v)
        PROVE  view'[w] = view[w] /\ Shown(k)' = Shown(k)
    <3>1. v # w
      BY <2>4 DEF Subscribe
    <3>2. listening'[w] = k
      BY <1>0, <2>4, <3>1 DEF Subscribe, TypeOK
    <3>3. view'[w] = view[w] /\ (k \in promised' <=> k \in promised)
      BY <2>4, <3>2 DEF Subscribe, WantsFetch, Revalidate, Notify
    <3> QED BY <2>4, <3>3 DEF Subscribe, Shown
  <2>5. ASSUME NEW v \in Watchers, Refetch(v)
        PROVE  view'[w] = view[w] /\ Shown(k)' = Shown(k)
    <3>1. rendered[v] \in Keys /\ Revalidate(rendered[v]) /\ UNCHANGED <<data, failed, age, hooks>>
      BY <1>0, <2>5 DEF Refetch, TypeOK
    <3>2. view'[w] = view[w]
      BY <2>1, <3>1
    <3> QED BY <3>1, <3>2 DEF Shown
  <2>6. ASSUME NEW j \in Keys, InvalidateResource(j)
        PROVE  view'[w] = view[w] /\ Shown(k)' = Shown(k)
    <3>1. UNCHANGED hooks /\ (Revalidate(j) \/ UNCHANGED <<promised, net, view>>)
      BY <2>6 DEF InvalidateResource
    <3>2. view'[w] = view[w]
      BY <2>1, <3>1
    <3>3. j # k
      <4>1. SUFFICES ASSUME j = k PROVE FALSE
        OBVIOUS
      <4>2. Watched(j)
        BY <4>1 DEF Watched
      <4> QED BY <2>6, <4>1, <4>2 DEF InvalidateResource, Revalidate
    <3>4. data'[k] = data[k] /\ age'[k] = age[k] /\ (k \in failed' <=> k \in failed)
      BY <1>0, <2>6, <3>3 DEF InvalidateResource, TypeOK
    <3> QED BY <3>2, <3>4 DEF Shown
  <2>7. ASSUME NEW r \in Requests, SettleSuccess(r) \/ SettleFailure(r)
        PROVE  view'[w] = view[w] /\ Shown(k)' = Shown(k)
    <3> DEFINE j == asks[r]
    <3>1. Settle(r) /\ j \in promised
      <4>1. j # NoKey
        BY <1>0, <2>7, NoDataIsNoVersion DEF SettleSuccess, SettleFailure, IInv, AnswersAreNews
      <4> QED BY <1>0, <2>7, <4>1 DEF SettleSuccess, SettleFailure, IInv, OneFlightPerKey, TypeOK
    <3>2. j # k
      BY <1>2, <3>1
    <3>3. data'[k] = data[k] /\ (k \in failed' <=> k \in failed)
      BY <1>0, <2>7, <3>2 DEF SettleSuccess, SettleFailure, TypeOK
    <3> HIDE DEF j
    <3>4. age'[k] = age[k] /\ view'[w] = view[w]
      BY <1>0, <3>1, <3>2 DEF Settle, Notify, hooks, TypeOK, j
    <3> QED BY <3>3, <3>4 DEF Shown
  <2>8. ASSUME NEW j \in Keys, Mutate(j) \/ GrowStale(j)
        PROVE  view'[w] = view[w] /\ Shown(k)' = Shown(k)
    <3>1. UNCHANGED <<data, failed, promised, view>> /\ (age'[k] = "never" <=> age[k] = "never")
      BY <1>0, <2>8 DEF Mutate, GrowStale, entry, TypeOK
    <3> QED BY <3>1 DEF Shown
  <2>9. ASSUME NEW r \in Requests, Answer(r)
        PROVE  view'[w] = view[w] /\ Shown(k)' = Shown(k)
    BY <2>9 DEF Answer, entry, Shown
  <2>10. CASE UNCHANGED vars
    BY <2>0, <2>10 DEF vars, entry, Shown
  <2> QED BY <2>0, <2>2, <2>3, <2>4, <2>5, <2>6, <2>7, <2>8, <2>9, <2>10 DEF Next
<1> QED BY <1>1, <1>2

(* A hook that is up to date stays so, but for the time a fetch takes, for *)
(* any number of hooks, keys and requests.                                 *)
THEOREM HooksKeepUp == Spec => NoHookFallsBehind
<1>1. IInv /\ [Next]_vars =>
        [\A w \in Watchers, k \in Keys :
           /\ listening[w] = k /\ rendered[w] = k /\ rendered'[w] = k
           /\ view[w] = Shown(k) \/ k \in promised
           => view'[w] = Shown(k)' \/ k \in promised']_vars
  BY HookKeepsUp
<1> QED BY <1>1, AlwaysIInv, PTL DEF Spec, NoHookFallsBehind
=============================================================================
