--------------------------- MODULE ResourceCache ---------------------------
(***************************************************************************)
(* frontend/src/lib/useResource.ts: the module-level stale-while-revalidate*)
(* cache behind every data page, the hooks that read it, and the server it *)
(* reads.                                                                  *)
(*                                                                         *)
(* A payload is the version of the key the server held when it answered.   *)
(* A hook renders first and subscribes later: React runs a passive effect  *)
(* some time after the commit, so a response may be delivered in between.  *)
(* An unmounted component is one that renders no key.                      *)
(***************************************************************************)
EXTENDS Naturals

CONSTANTS Keys,        \* the cache keys
          Watchers,    \* component instances that call useResource
          Requests,    \* places for the outstanding HTTP requests
          NoKey,       \* key = null, no component mounted, or no request
          NoData,      \* data = undefined, or a request not yet answered
          MaxVersion   \* bound: how often one key is written

ASSUME NoKeyIsNoKey == NoKey \notin Keys
ASSUME NoDataIsNoVersion == NoData \notin Nat
ASSUME MaxVersionIsNat == MaxVersion \in Nat

VARIABLES version,   \* server: version[k], bumped by every write of k
          data,      \* entry.data of k
          failed,    \* the keys with entry.error set
          age,       \* entry.updatedAt of k: never, within dedupeMs, older
          promised,  \* the keys with entry.promise set
          asks,      \* asks[r]: the key request r is outstanding for
          seen,      \* seen[r]: the version the server answered r with
          rendered,  \* the key each hook last rendered with
          listening, \* the key whose listeners hold the hook's forceRender
          view,      \* what each hook last returned to its component
          toDrop     \* keys a finished mutation has still to invalidate

entry == <<data, failed, age, promised>>
net == <<asks, seen>>
hooks == <<rendered, listening>>
vars == <<version, entry, net, hooks, view, toDrop>>

-----------------------------------------------------------------------------
(* Types. *)

Ages == {"never", "fresh", "stale"}
View == [status : {"loading", "success", "error"}, data : Nat \union {NoData},
         isValidating : BOOLEAN]

TypeOK ==
  /\ version \in [Keys -> Nat]
  /\ data \in [Keys -> Nat \union {NoData}]
  /\ failed \in SUBSET Keys
  /\ age \in [Keys -> Ages]
  /\ promised \in SUBSET Keys
  /\ asks \in [Requests -> Keys \union {NoKey}]
  /\ seen \in [Requests -> Nat \union {NoData}]
  /\ rendered \in [Watchers -> Keys \union {NoKey}]
  /\ listening \in [Watchers -> Keys \union {NoKey}]
  /\ view \in [Watchers -> View]
  /\ toDrop \in SUBSET Keys

-----------------------------------------------------------------------------
(* Helpers. *)

(* What the hook returns for key k. *)
Loading == [status |-> "loading", data |-> NoData, isValidating |-> FALSE]

Shown(k) ==
  IF k = NoKey THEN Loading
  ELSE [status |-> IF k \in failed THEN "error"
                   ELSE IF age[k] = "never" THEN "loading" ELSE "success",
        data |-> data[k],
        isValidating |-> k \in promised]

Watched(k) == \E w \in Watchers : listening[w] = k

(* A subscriber fetches a cold or stale entry that nobody is fetching. *)
WantsFetch(k) ==
  k # NoKey /\ k \notin promised /\ age[k] \in {"never", "stale"}

-----------------------------------------------------------------------------
Init ==
  /\ version = [k \in Keys |-> 0]
  /\ data = [k \in Keys |-> NoData]
  /\ failed = {}
  /\ age = [k \in Keys |-> "never"]
  /\ promised = {}
  /\ asks = [r \in Requests |-> NoKey]
  /\ seen = [r \in Requests |-> NoData]
  /\ rendered = [w \in Watchers |-> NoKey]
  /\ listening = [w \in Watchers |-> NoKey]
  /\ view = [w \in Watchers |-> Loading]
  /\ toDrop = {}

(* notify(entry of k), after the step's changes: every hook listening on k *)
(* renders, with the key it rendered last.                                 *)
Notify(k) ==
  view' = [w \in Watchers |-> IF listening'[w] = k THEN Shown(rendered[w])'
                              ELSE view[w]]

(* Variant: revalidate does not look for a fetch in flight. *)
RevalidateAlways(k) ==
  /\ promised' = promised \union {k}
  /\ \E r \in Requests :
       /\ asks[r] = NoKey
       /\ asks' = [asks EXCEPT ![r] = k]
  /\ UNCHANGED seen
  /\ Notify(k)

(* revalidate(k): join the fetch in flight, or send one and notify. *)
Revalidate(k) ==
  \/ k \in promised /\ UNCHANGED <<promised, net, view>>
  \/ /\ k \notin promised
     /\ promised' = promised \union {k}
     /\ \E r \in Requests :
          /\ asks[r] = NoKey
          /\ asks' = [asks EXCEPT ![r] = k]
     /\ UNCHANGED seen
     /\ Notify(k)

(* The component of w renders with key k (mounts, changes key, unmounts).  *)
Render(w, k) ==
  /\ rendered[w] = listening[w]
  /\ k # rendered[w]
  /\ rendered' = [rendered EXCEPT ![w] = k]
  /\ view' = [view EXCEPT ![w] = Shown(k)]
  /\ UNCHANGED <<version, entry, net, listening, toDrop>>

(* The parent re-renders w for a reason of its own. *)
Rerender(w) ==
  /\ view' = [view EXCEPT ![w] = Shown(rendered[w])]
  /\ UNCHANGED <<version, entry, net, hooks, toDrop>>

(* The passive effect after a render with a new key: the old subscription  *)
(* is removed, the new one added, and a cold or stale entry is fetched.    *)
Subscribe(w) ==
  /\ rendered[w] # listening[w]
  /\ listening' = [listening EXCEPT ![w] = rendered[w]]
  /\ UNCHANGED <<version, data, failed, age, rendered, toDrop>>
  /\ \/ WantsFetch(rendered[w]) /\ Revalidate(rendered[w])
     \/ ~WantsFetch(rendered[w]) /\ UNCHANGED <<promised, net, view>>

(* refetch(), from the Retry button or after a mutation.  React runs the    *)
(* pending effects before it handles the event.                            *)
Refetch(w) ==
  /\ rendered[w] # NoKey
  /\ listening[w] = rendered[w]
  /\ UNCHANGED <<version, data, failed, age, hooks, toDrop>>
  /\ Revalidate(rendered[w])

(* A write of k is committed at the server; when it is this browser's own  *)
(* mutation, the code after its await is still to invalidate k.            *)
Mutate(k) ==
  /\ version[k] < MaxVersion
  /\ version' = [version EXCEPT ![k] = @ + 1]
  /\ toDrop' \in {toDrop, toDrop \union {k}}
  /\ UNCHANGED <<entry, net, hooks, view>>

(* Variant: invalidateResource clears the entry and only notifies. *)
InvalidateNoFetch(k) ==
  /\ k \in toDrop
  /\ toDrop' = toDrop \ {k}
  /\ data' = [data EXCEPT ![k] = NoData]
  /\ failed' = failed \ {k}
  /\ age' = [age EXCEPT ![k] = "never"]
  /\ UNCHANGED <<version, hooks, promised, net>>
  /\ Notify(k)

(* invalidateResource(k): forget the value, then refetch it if anyone is   *)
(* watching; otherwise only notify, and nobody is there to render.         *)
InvalidateResource(k) ==
  /\ k \in toDrop
  /\ toDrop' = toDrop \ {k}
  /\ data' = [data EXCEPT ![k] = NoData]
  /\ failed' = failed \ {k}
  /\ age' = [age EXCEPT ![k] = "never"]
  /\ UNCHANGED <<version, hooks>>
  /\ \/ Watched(k) /\ Revalidate(k)
     \/ ~Watched(k) /\ UNCHANGED <<promised, net, view>>

(* The server reads the key of request r. *)
Answer(r) ==
  /\ asks[r] # NoKey
  /\ seen[r] = NoData
  /\ seen' = [seen EXCEPT ![r] = version[asks[r]]]
  /\ UNCHANGED <<version, entry, asks, hooks, view, toDrop>>

(* The finally block for request r: the entry settles, its hooks render.   *)
Settle(r) ==
  /\ age' = [age EXCEPT ![asks[r]] = "fresh"]
  /\ promised' = promised \ {asks[r]}
  /\ asks' = [asks EXCEPT ![r] = NoKey]
  /\ seen' = [seen EXCEPT ![r] = NoData]
  /\ UNCHANGED <<version, hooks, toDrop>>
  /\ Notify(asks[r])

(* The answer of r is delivered: .then, .finally. *)
SettleSuccess(r) ==
  /\ seen[r] # NoData
  /\ data' = [data EXCEPT ![asks[r]] = seen[r]]
  /\ failed' = failed \ {asks[r]}
  /\ Settle(r)

(* Variant: the listeners are told in .then, so a failure goes unnoticed. *)
SettleFailureSilently(r) ==
  /\ asks[r] # NoKey
  /\ failed' = failed \union {asks[r]}
  /\ age' = [age EXCEPT ![asks[r]] = "fresh"]
  /\ promised' = promised \ {asks[r]}
  /\ asks' = [asks EXCEPT ![r] = NoKey]
  /\ seen' = [seen EXCEPT ![r] = NoData]
  /\ UNCHANGED <<version, data, hooks, view, toDrop>>

(* Request r fails, before or after the server read: .catch, .finally. *)
SettleFailure(r) ==
  /\ asks[r] # NoKey
  /\ failed' = failed \union {asks[r]}
  /\ UNCHANGED data
  /\ Settle(r)

(* dedupeMs pass after the last settle. *)
GrowStale(k) ==
  /\ age[k] = "fresh"
  /\ age' = [age EXCEPT ![k] = "stale"]
  /\ UNCHANGED <<version, data, failed, promised, net, hooks, view, toDrop>>

Next ==
  \/ \E w \in Watchers :
       \/ \E k \in Keys \union {NoKey} : Render(w, k)
       \/ Rerender(w)
       \/ Subscribe(w)
       \/ Refetch(w)
  \/ \E k \in Keys : Mutate(k) \/ InvalidateResource(k) \/ GrowStale(k)
  \/ \E r \in Requests : Answer(r) \/ SettleSuccess(r) \/ SettleFailure(r)

Spec == Init /\ [][Next]_vars

(* React runs every passive effect and the browser settles every request,  *)
(* with an answer or with an error.  Nothing else has to happen: no render,*)
(* no mutation, no retry.                                                  *)
Fairness ==
  /\ \A w \in Watchers : WF_vars(Subscribe(w))
  /\ \A r \in Requests : WF_vars(SettleSuccess(r) \/ SettleFailure(r))

FairSpec == Spec /\ Fairness

-----------------------------------------------------------------------------
(* Properties. *)

(* No two requests for one key are ever outstanding, and the promise field *)
(* tells whether one is: revalidate coalesces, so a slow old answer cannot *)
(* land after a newer one.                                                 *)
OneFlightPerKey ==
  /\ \A q, r \in Requests : asks[q] # NoKey /\ asks[q] = asks[r] => q = r
  /\ \A k \in Keys : k \in promised <=> \E r \in Requests : asks[r] = k

(* A key somebody listens on is never left empty with no fetch under way:  *)
(* the subscriber that found it cold, or the invalidation that emptied it, *)
(* has fetched it.  Otherwise the page would show its skeleton for ever.   *)
WatchedIsFetched ==
  \A w \in Watchers, k \in Keys :
    listening[w] = k /\ age[k] = "never" => k \in promised

(* A hook that shows its entry falls behind it only while a fetch of the    *)
(* key is under way, and that fetch brings it up to date, whether it ends  *)
(* in a value or in an error: an invalidation that joins the fetch empties *)
(* the entry and tells nobody.  (A hook that subscribed too late to hear   *)
(* of a fetch that has settled is behind from the start.)                  *)
NoHookFallsBehind ==
  [][\A w \in Watchers, k \in Keys :
       /\ listening[w] = k /\ rendered[w] = k /\ rendered'[w] = k
       /\ view[w] = Shown(k) \/ k \in promised
       => view'[w] = Shown(k)' \/ k \in promised']_vars

(* The cache never shows a version it has to take back: a copy only moves  *)
(* forward, and never past the server, however fetches, failures,          *)
(* invalidations and writes of others interleave.                          *)
Abstract ==
  INSTANCE ReadThrough WITH Keys <- Keys, NoData <- NoData, version <- version, data <- data
NeverGoesBack == Abstract!Spec

(* A page that subscribed gets a first result (or an error), unless it     *)
(* leaves first.                                                           *)
WatchedSettles ==
  \A w \in Watchers, k \in Keys :
    listening[w] = k ~> age[k] # "never" \/ listening[w] # k
=============================================================================
