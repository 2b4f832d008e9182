---------------------------- MODULE RebuildPage ----------------------------
(***************************************************************************)
(* The Rebuild button of budget-map/page.tsx, over the server of Rebuild:  *)
(* a tab probes the status when it mounts, posts a rebuild and waits for   *)
(* its answer, and polls the status every second while its progress bar    *)
(* is up.  A reload forgets everything, also the requests it waits for.    *)
(***************************************************************************)
EXTENDS Rebuild

CONSTANT Tabs  \* browser tabs on the Budget Map page

VARIABLES running,  \* rebuildRunning: the bar is up, the button disabled
          result,   \* the tabs with a rebuildResult
          awaited,  \* rebuild POSTs the mounted page awaits
          probes,   \* status requests of the mount effect
          polls     \* status requests of the interval

page == <<running, result, awaited, probes, polls>>
pvars == <<vars, page>>

PageTypeOK ==
  /\ TypeOK
  /\ running \in SUBSET Tabs
  /\ result \in SUBSET Tabs
  /\ awaited \in [Tabs -> SUBSET Posts]
  /\ probes \in [Tabs -> SUBSET Polls]
  /\ polls \in [Tabs -> SUBSET Polls]

PageInit ==
  /\ Init
  /\ running = {} /\ result = {}
  /\ awaited = [t \in Tabs |-> {}]
  /\ probes = [t \in Tabs |-> {}]
  /\ polls = [t \in Tabs |-> {}]

Expected(g) == \E t \in Tabs : g \in probes[t] \union polls[t]

-----------------------------------------------------------------------------
(* GET /budgets/rebuild/status, sent and taken by the page.  *)
Ask(g) ==
  /\ pc[g] = "idle"
  /\ pc' = [pc EXCEPT ![g] = "queued"]
  /\ UNCHANGED <<saved, on, holder, reply, stage, progress, tables, kills, asked, overlapped>>

(* The client has taken the answer of a poll, or seen its connection break. *)
Deliver(g) ==
  /\ pc[g] \in {"answered", "lost"}
  /\ pc' = [pc EXCEPT ![g] = "idle"]
  /\ reply' = [reply EXCEPT ![g] = "none"]
  /\ UNCHANGED <<saved, on, holder, stage, progress, tables, kills, asked, overlapped>>

(* The endpoint: is_rebuild_running() of the worker that serves the poll.   *)
Status(g) ==
  /\ pc[g] = "handling"
  /\ Respond(g, IF holder[on[g]] # Nobody THEN "running" ELSE "idle")
  /\ UNCHANGED <<saved, holder, stage, progress, tables, kills, asked, overlapped, page>>

-----------------------------------------------------------------------------
(* The page mounts (after a load or a reload) and probes the status. *)
Mount(t, g) ==
  /\ Ask(g)
  /\ running' = running \ {t}
  /\ result' = result \ {t}
  /\ awaited' = [awaited EXCEPT ![t] = {}]
  /\ probes' = [probes EXCEPT ![t] = {g}]
  /\ polls' = [polls EXCEPT ![t] = {}]

(* handleRebuild, up to its await. *)
ClickRebuild(t, p) ==
  /\ t \notin running
  /\ Post(p)
  /\ running' = running \union {t}
  /\ result' = result \ {t}
  /\ awaited' = [awaited EXCEPT ![t] = @ \union {p}]
  /\ UNCHANGED <<probes, polls>>

(* Variant: a rebuild that throws sets no result. *)
TakeResultSilent(t, p) ==
  /\ p \in awaited[t] /\ pc[p] \in {"answered", "lost"}
  /\ awaited' = [awaited EXCEPT ![t] = @ \ {p}]
  /\ result' = IF pc[p] = "lost" THEN result ELSE result \union {t}
  /\ running' = running \ {t}
  /\ UNCHANGED <<vars, probes, polls>>

(* handleRebuild, after its await: the answer, or the error it throws. *)
TakeResult(t, p) ==
  /\ p \in awaited[t] /\ pc[p] \in {"answered", "lost"}
  /\ awaited' = [awaited EXCEPT ![t] = @ \ {p}]
  /\ result' = result \union {t}
  /\ running' = running \ {t}
  /\ UNCHANGED <<vars, probes, polls>>

(* The interval, once a second while the bar is up and there is no result. *)
Tick(t, g) ==
  /\ t \in running /\ t \notin result
  /\ Ask(g)
  /\ polls' = [polls EXCEPT ![t] = @ \union {g}]
  /\ UNCHANGED <<running, result, awaited, probes>>

(* The probe is answered: a running rebuild raises the bar. *)
TakeProbe(t, g) ==
  /\ g \in probes[t]
  /\ Deliver(g)
  /\ probes' = [probes EXCEPT ![t] = @ \ {g}]
  /\ running' = IF reply[g] = "running" THEN running \union {t} ELSE running
  /\ UNCHANGED <<result, awaited, polls>>

(* Variant: the poll's answer is not looked at. *)
TakePollDeaf(t, g) ==
  /\ g \in polls[t]
  /\ Deliver(g)
  /\ polls' = [polls EXCEPT ![t] = @ \ {g}]
  /\ UNCHANGED <<running, result, awaited, probes>>

(* A poll is answered: no running rebuild clears the bar.  The effect's    *)
(* clean-up stops the interval, not the requests it has sent.              *)
TakePoll(t, g) ==
  /\ g \in polls[t]
  /\ Deliver(g)
  /\ polls' = [polls EXCEPT ![t] = @ \ {g}]
  /\ running' = IF reply[g] = "idle" THEN running \ {t} ELSE running
  /\ UNCHANGED <<result, awaited, probes>>

(* A request of a page that has been reloaded meanwhile comes to nothing. *)
Discard(g) ==
  /\ ~Expected(g)
  /\ Deliver(g)
  /\ UNCHANGED page

PageNext ==
  \/ ServerNext /\ UNCHANGED page
  \/ \E t \in Tabs :
       \/ \E p \in Posts : ClickRebuild(t, p) \/ TakeResult(t, p)
       \/ \E g \in Polls :
            Mount(t, g) \/ Tick(t, g) \/ TakeProbe(t, g) \/ TakePoll(t, g)
  \/ \E g \in Polls : Status(g) \/ Discard(g)

PageSpec == PageInit /\ [][PageNext]_pvars

(* The server of Rebuild; the listen queue is first in, first out, so no   *)
(* queued request is passed over for ever; answers are delivered; and the  *)
(* interval keeps ticking, however often the one poll there is room for is *)
(* in flight.  Nobody has to mount a page or click.                        *)
PageFairness ==
  /\ \A q \in Requests :
       /\ WF_pvars(Handle(q) /\ UNCHANGED page)
       /\ SF_pvars((\E w \in Workers : Accept(w, q)) /\ UNCHANGED page)
  /\ \A c \in Runs : WF_pvars(RunStep(c) /\ UNCHANGED page)
  /\ \A t \in Tabs :
       /\ \A p \in Posts : WF_pvars(TakeResult(t, p))
       /\ SF_pvars(\E g \in Polls : Tick(t, g))
       /\ \A g \in Polls : WF_pvars(TakeProbe(t, g)) /\ WF_pvars(TakePoll(t, g))
  /\ \A g \in Polls : WF_pvars(Status(g)) /\ WF_pvars(Discard(g))

PageFairSpec == PageSpec /\ PageFairness

-----------------------------------------------------------------------------
(* Properties. *)

(* The answer to a rebuild the page started is never dropped: when the     *)
(* page stops waiting it shows a result, unless it has been reloaded.      *)
ResultIsShown ==
  [][\A t \in Tabs, p \in Posts :
       p \in awaited[t] /\ p \notin awaited'[t]
       => t \in result' \/ probes'[t] # probes[t]]_pvars

(* A page that only watches a rebuild (no result yet) is not left with its *)
(* bar: polling ends it, also when the rebuild's worker was killed or the  *)
(* POST is never answered.                                                 *)
WatchedBarClears ==
  \A t \in Tabs : t \in running /\ t \notin result ~> t \notin running \/ t \in result
=============================================================================
