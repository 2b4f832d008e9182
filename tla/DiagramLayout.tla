---------------------------- MODULE DiagramLayout ----------------------------
(***************************************************************************)
(* The arrangement of an Omni-ERD diagram: DiagramView.tsx and             *)
(* ErdCanvas.tsx of a browser window, the window's cached copy of the      *)
(* layout (useResource), and the row per user that save_layout keeps.      *)
(*                                                                         *)
(* A place is a number: Arranged where dagre puts a table in the whole     *)
(* diagram, Gathered where it puts it among the tables a focus shows, and  *)
(* a new number for every drag.  How much a card shows (default and          *)
(* overrides) is one of Modes.  One user, one schema; its tables stay, and *)
(* its graph is in the cache.  Switching to another schema and back is to  *)
(* close the tab and open it.                                              *)
(***************************************************************************)
EXTENDS Naturals

CONSTANTS Tables,    \* entities of the schema
          Foci,      \* sets of tables that a focus leaves on screen
          Modes,     \* view states
          Default,   \* DEFAULT_VIEW_STATE
          Slots,     \* places for PUTs in flight
          NoLayout,  \* data = undefined
          NoPut,     \* a free slot
          Unsaid,    \* a PUT without view_state
          MaxEdits   \* bound: drags, mode changes, resets, saves elsewhere

ASSUME FociHoldTables == Foci \subseteq SUBSET Tables
ASSUME DefaultIsMode == Default \in Modes /\ Unsaid \notin Modes
ASSUME NoLayoutIsNone == NoLayout \notin [at : [Tables -> Nat], view : Modes]
ASSUME NoPutIsNone == NoPut \notin [at : [Tables -> Nat], view : Modes \union {Unsaid}]
ASSUME MaxEditsIsNat == MaxEdits \in Nat

VARIABLES stored,    \* the row: where the tables are, and the view state
          cached,    \* entry.data of the layout key
          age,       \* entry.updatedAt: never, within dedupeMs, older
          fetching,  \* a GET of the layout is in flight
          answer,    \* what the server answered it
          graphDue,  \* a refetch of the graph is in flight
          open,      \* the Diagram tab is mounted
          at,        \* where the tables are on the canvas
          view,      \* the canvas's view state
          focus,     \* focusedId: the tables it leaves on screen, or all
          armed,     \* the save timer runs
          puts,      \* PUTs in flight
          edits,     \* edits so far
          ours,      \* history: the canvas shows an edit that is to be saved last
          lastView,  \* history: the view state set last, here or elsewhere
          raced      \* history: saves have been in flight together, or one was lost

resource == <<cached, age, fetching, answer, graphDue>>
canvas == <<at, view, focus>>
history == <<ours, lastView, raced>>
vars == <<stored, resource, open, canvas, armed, puts, edits, history>>

-----------------------------------------------------------------------------
(* Types and helpers. *)

Arranged == 0
Gathered == 1
Places == [Tables -> Nat]
Layout == [at : Places, view : Modes]
Put == [at : Places, view : Modes \union {Unsaid}]

Everywhere(place) == [t \in Tables |-> place]
NoRow == [at |-> Everywhere(Arranged), view |-> Default]

TypeOK ==
  /\ stored \in Layout
  /\ cached \in Layout \union {NoLayout}
  /\ age \in {"never", "fresh", "stale"}
  /\ fetching \in BOOLEAN
  /\ answer \in Layout \union {NoLayout} /\ (answer # NoLayout => fetching)
  /\ graphDue \in BOOLEAN
  /\ open \in BOOLEAN
  /\ at \in Places
  /\ view \in Modes
  /\ focus \in Foci \union {Tables}
  /\ armed \in BOOLEAN /\ (armed => open)
  /\ puts \in [Slots -> Put \union {NoPut}]
  /\ edits \in Nat
  /\ ours \in BOOLEAN /\ raced \in BOOLEAN
  /\ lastView \in Modes

(* The canvas waits for the layout call to settle, well or badly. *)
Shown == open /\ age # "never"

(* What an entry's data makes of a canvas: mergeLayout, and the defaults of *)
(* DiagramView when there is no data.                                      *)
Seed(data) == IF data = NoLayout THEN NoRow ELSE data

(* The nodes are built anew; what the user did to them is gone. *)
Rebuild(data) ==
  /\ at' = Seed(data).at
  /\ ours' = FALSE
  /\ UNCHANGED <<lastView, raced>>

(* The canvas mounts. *)
MountCanvas(data) ==
  /\ Rebuild(data)
  /\ view' = Seed(data).view
  /\ focus' = Tables

Init ==
  /\ stored = NoRow
  /\ cached = NoLayout /\ age = "never"
  /\ fetching = FALSE /\ answer = NoLayout /\ graphDue = FALSE
  /\ open = FALSE
  /\ at = Everywhere(Arranged) /\ view = Default /\ focus = Tables
  /\ armed = FALSE
  /\ puts = [q \in Slots |-> NoPut]
  /\ edits = 0
  /\ ours = FALSE /\ raced = FALSE
  /\ lastView = Default

-----------------------------------------------------------------------------
(* Loading. *)

(* The Diagram tab mounts: a settled entry is shown at once, a cold or     *)
(* stale one fetched; the graph's entry may be stale, too.                 *)
Open ==
  /\ ~open
  /\ open' = TRUE
  /\ fetching' = (fetching \/ age # "fresh")
  /\ UNCHANGED <<stored, cached, age, answer, armed, puts, edits>>
  /\ \/ age # "never" /\ MountCanvas(cached) /\ graphDue' \in BOOLEAN
     \/ age = "never" /\ UNCHANGED <<graphDue, canvas, history>>

(* The canvas goes, with its timer. *)
Leave ==
  /\ open
  /\ open' = FALSE /\ graphDue' = FALSE /\ armed' = FALSE
  /\ at' = Everywhere(Arranged) /\ view' = Default /\ focus' = Tables
  /\ ours' = FALSE
  /\ UNCHANGED <<stored, puts, edits, lastView, raced>>

(* The tab unmounts; the entries stay in the cache. *)
Close == Leave /\ UNCHANGED <<cached, age, fetching, answer>>

(* The browser reloads the page: the cache is gone, too. *)
Reload ==
  /\ Leave
  /\ cached' = NoLayout /\ age' = "never"
  /\ fetching' = FALSE /\ answer' = NoLayout

(* get_layout. *)
Answer ==
  /\ fetching /\ answer = NoLayout
  /\ answer' = stored
  /\ UNCHANGED <<stored, cached, age, fetching, graphDue, open, canvas, armed,
                 puts, edits, history>>

Settle ==
  /\ age' = "fresh"
  /\ fetching' = FALSE
  /\ answer' = NoLayout
  /\ UNCHANGED <<stored, graphDue, open, armed, puts, edits>>

(* The layout arrives.  A canvas that waited for it mounts; one that is up *)
(* has its nodes rebuilt and keeps its view.                               *)
LayoutArrives ==
  /\ answer # NoLayout
  /\ cached' = answer
  /\ Settle
  /\ \/ Shown /\ Rebuild(answer) /\ UNCHANGED <<view, focus>>
     \/ open /\ ~Shown /\ MountCanvas(answer)
     \/ ~open /\ UNCHANGED <<canvas, history>>

(* The GET fails: the entry keeps its data.  A canvas without any has its   *)
(* nodes rebuilt, as `?? {}` is a new object on every render.              *)
LayoutFails ==
  /\ fetching
  /\ Settle
  /\ UNCHANGED cached
  /\ \/ Shown /\ cached = NoLayout /\ Rebuild(NoLayout) /\ UNCHANGED <<view, focus>>
     \/ open /\ ~Shown /\ MountCanvas(NoLayout)
     \/ (~open \/ cached # NoLayout) /\ UNCHANGED <<canvas, history>>

(* DiagramView renders for another reason, with no layout to show. *)
Rerender ==
  /\ Shown /\ cached = NoLayout
  /\ Rebuild(NoLayout)
  /\ UNCHANGED <<stored, resource, open, view, focus, armed, puts, edits>>

(* The refetched graph arrives and replaces the canvas's nodes. *)
GraphArrives ==
  /\ graphDue
  /\ graphDue' = FALSE
  /\ Rebuild(cached)
  /\ UNCHANGED <<stored, cached, age, fetching, answer, open, view, focus, armed,
                 puts, edits>>

(* dedupeMs pass. *)
GrowStale ==
  /\ age = "fresh"
  /\ age' = "stale"
  /\ UNCHANGED <<stored, cached, fetching, answer, graphDue, open, canvas, armed,
                 puts, edits, history>>

-----------------------------------------------------------------------------
(* Saving. *)

InFlight == \E q \in Slots : puts[q] # NoPut

(* saveLayout, not awaited. *)
Send(places, mode) ==
  /\ \E q \in Slots :
       /\ puts[q] = NoPut
       /\ puts' = [puts EXCEPT ![q] = [at |-> places, view |-> mode]]
  /\ raced' = (raced \/ InFlight)

(* save_layout: an absent view_state leaves the stored one alone. *)
Apply(q) ==
  /\ puts[q] # NoPut
  /\ stored' = [at |-> puts[q].at,
                view |-> IF puts[q].view = Unsaid THEN stored.view ELSE puts[q].view]
  /\ puts' = [puts EXCEPT ![q] = NoPut]
  /\ UNCHANGED <<resource, open, canvas, armed, edits, history>>

(* The PUT fails, and the error is swallowed. *)
Lose(q) ==
  /\ puts[q] # NoPut
  /\ puts' = [puts EXCEPT ![q] = NoPut]
  /\ raced' = TRUE
  /\ UNCHANGED <<stored, resource, open, canvas, armed, edits, ours, lastView>>

(* Another window of the user saves a drag, or a view state with it. *)
SaveElsewhere(mode) ==
  /\ edits < MaxEdits
  /\ edits' = edits + 1
  /\ stored' = [at |-> Everywhere(edits + 2),
                view |-> IF mode = Unsaid THEN stored.view ELSE mode]
  /\ lastView' = IF mode = Unsaid THEN lastView ELSE mode
  /\ ours' = (ours /\ armed)
  /\ raced' = (raced \/ InFlight)
  /\ UNCHANGED <<resource, open, canvas, armed, puts>>

(* An edit on the canvas. *)
Edit ==
  /\ Shown
  /\ edits < MaxEdits
  /\ edits' = edits + 1
  /\ ours' = TRUE
  /\ UNCHANGED <<stored, resource, open>>

(* Variant: while a PUT is in flight, a drag starts no timer. *)
DragWhileSaving(t) ==
  /\ Edit
  /\ at' = [at EXCEPT ![t] = edits + 2]
  /\ armed' = (armed \/ ~InFlight)
  /\ UNCHANGED <<view, focus, puts, lastView, raced>>

(* A drag ends: the timer starts again.  Which tables a focus hides is    *)
(* left out (a rebuilt canvas shows them all, focused or not).             *)
Drag(t) ==
  /\ Edit
  /\ at' = [at EXCEPT ![t] = edits + 2]
  /\ armed' = TRUE
  /\ UNCHANGED <<view, focus, puts, lastView, raced>>

(* Variant: the timer saves the view as well. *)
TimerSavesView ==
  /\ armed
  /\ armed' = FALSE
  /\ Send(at, view)
  /\ UNCHANGED <<stored, resource, open, canvas, edits, ours, lastView>>

(* SAVE_DEBOUNCE_MS after the last drag: positions only. *)
TimerFires ==
  /\ armed
  /\ armed' = FALSE
  /\ Send(at, Unsaid)
  /\ UNCHANGED <<stored, resource, open, canvas, edits, ours, lastView>>

(* A view state is saved: it is the one set last. *)
SendView(places, mode) ==
  /\ Send(places, mode)
  /\ lastView' = mode

(* applyView: the mode of one card or of all changes.  jumpTo, which comes  *)
(* here for a column, has cleared the focus.                               *)
ApplyView(mode) ==
  /\ Edit /\ mode # view
  /\ view' = mode
  /\ focus' \in {focus, Tables}
  /\ SendView(at, mode)
  /\ UNCHANGED <<at, armed>>

(* Variant: a reset saves the positions it has just given up. *)
ResetSavesOld ==
  /\ Edit /\ focus = Tables
  /\ at' = Everywhere(Arranged)
  /\ SendView(at, view)
  /\ UNCHANGED <<view, focus, armed>>

(* handleReset of the whole diagram. *)
Reset ==
  /\ Edit /\ focus = Tables
  /\ at' = Everywhere(Arranged)
  /\ SendView(at', view)
  /\ UNCHANGED <<view, focus, armed>>

(* handleReset while focused arranges what is on screen and saves nothing. *)
ResetFocused ==
  /\ Shown /\ focus # Tables
  /\ at' = [t \in Tables |-> IF t \in focus THEN Gathered ELSE at[t]]
  /\ ours' = FALSE
  /\ UNCHANGED <<stored, resource, open, view, focus, armed, puts, edits,
                 lastView, raced>>

(* focusOn a table and those joined to it; clearFocus. *)
Focus(S) ==
  /\ Shown /\ S # focus
  /\ focus' = S
  /\ UNCHANGED <<stored, resource, open, at, view, armed, puts, edits, history>>

-----------------------------------------------------------------------------
Next ==
  \/ Open \/ Close \/ Reload
  \/ Answer \/ LayoutArrives \/ LayoutFails
  \/ Rerender \/ GraphArrives \/ GrowStale
  \/ \E t \in Tables : Drag(t)
  \/ TimerFires
  \/ \E mode \in Modes : ApplyView(mode)
  \/ Reset \/ ResetFocused
  \/ \E S \in Foci \union {Tables} : Focus(S)
  \/ \E q \in Slots : Apply(q) \/ Lose(q)
  \/ \E mode \in Modes \union {Unsaid} : SaveElsewhere(mode)

Spec == Init /\ [][Next]_vars

(* A timer that runs fires, and a PUT comes to an end.  Nobody has to edit, *)
(* and nobody has to stay.                                                 *)
Fairness ==
  /\ WF_vars(TimerFires)
  /\ \A q \in Slots : WF_vars(Apply(q) \/ Lose(q))

FairSpec == Spec /\ Fairness

-----------------------------------------------------------------------------
(* Properties. *)

Quiet == ~armed /\ ~InFlight

(* Once the timer has fired and the PUTs are through, the row is what the  *)
(* canvas shows, through every mixture of drags, resets, mode changes and  *)
(* remounts - unless PUTs overtook each other, one was lost, or another    *)
(* window has saved since.                                                 *)
SavedIsShown == Quiet /\ ~raced /\ ours => stored.at = at

(* The view state set last stays stored: no drag, whatever view its window *)
(* still has, takes it back.                                               *)
ViewIsKept == Quiet /\ ~raced => stored.view = lastView

(* An edit reaches the server, unless the canvas is rebuilt or closed      *)
(* first: also when the user drags again before the timer fires.           *)
EditIsSaved == ours ~> stored.at = at \/ ~ours \/ raced
=============================================================================
