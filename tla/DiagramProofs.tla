--------------------------- MODULE DiagramProofs ---------------------------
(* Theorems about an Omni-ERD diagram: DiagramLayout, for any tables, view  *)
(* states, number of edits and number of PUTs in flight, and Diagram, for   *)
(* any catalogs, overrides and picks.                                       *)
EXTENDS Diagram, DiagramLayout, FiniteSetTheorems, WellFoundedInduction, TLAPS

(***************************************************************************)
(*                          The layout: DiagramLayout                      *)
(***************************************************************************)


-----------------------------------------------------------------------------
(* Type correctness. *)

LEMMA SeedType ==
  ASSUME NEW data \in Layout \union {NoLayout}
  PROVE  Seed(data).at \in Places /\ Seed(data).view \in Modes
BY DefaultIsMode DEF Seed, NoRow, Layout, Places, Everywhere, Arranged

LEMMA MountType ==
  ASSUME NEW data \in Layout \union {NoLayout},
         raced \in BOOLEAN, lastView \in Modes
  PROVE  /\ Rebuild(data) => /\ at' \in Places /\ lastView' \in Modes
                             /\ ours' \in BOOLEAN /\ raced' \in BOOLEAN
         /\ MountCanvas(data) => /\ at' \in Places /\ lastView' \in Modes
                                 /\ view' \in Modes /\ focus' \in Foci \union {Tables}
                                 /\ ours' \in BOOLEAN
                                 /\ raced' \in BOOLEAN
BY SeedType DEF Rebuild, MountCanvas

LEMMA SendType ==
  ASSUME puts \in [Slots -> Put \union {NoPut}], raced \in BOOLEAN,
         NEW places \in Places, NEW mode \in Modes \union {Unsaid}, Send(places, mode)
  PROVE  puts' \in [Slots -> Put \union {NoPut}] /\ raced' \in BOOLEAN
<1>1. [at |-> places, view |-> mode] \in Put
  BY DEF Put
<1>2. puts' \in [Slots -> Put \union {NoPut}]
  BY <1>1 DEF Send
<1>3. raced' \in BOOLEAN
  BY Zenon DEF Send, InFlight
<1> QED
  BY <1>2, <1>3

LEMMA InitTypeOK == Init => TypeOK
<1> SUFFICES ASSUME Init PROVE TypeOK
  OBVIOUS
<1>1. NoRow \in Layout /\ Everywhere(Arranged) \in Places
  BY DefaultIsMode DEF NoRow, Layout, Places, Everywhere, Arranged
<1> QED
  BY <1>1, DefaultIsMode DEF Init, TypeOK

(* A view state is saved. *)
LEMMA SendViewType ==
  ASSUME TypeOK, NEW places \in Places, NEW mode \in Modes, SendView(places, mode)
  PROVE  /\ puts' \in [Slots -> Put \union {NoPut}] /\ raced' \in BOOLEAN
         /\ lastView' \in Modes
<1>1. Send(places, mode)
  BY DEF SendView
<1>2. puts' \in [Slots -> Put \union {NoPut}] /\ raced' \in BOOLEAN
  BY <1>1, SendType DEF TypeOK
<1>3. lastView' = mode
  BY DEF SendView
<1> QED
  BY <1>2, <1>3

LEMMA LoadingType ==
  ASSUME TypeOK,
         Open \/ Close \/ Reload \/ Answer \/ LayoutArrives \/ LayoutFails
         \/ Rerender \/ GraphArrives \/ GrowStale
  PROVE  TypeOK'
<1>1. CASE Open
  <2>1. cached \in Layout \union {NoLayout} /\ raced \in BOOLEAN
        /\ lastView \in Modes
    BY DEF TypeOK
  <2>2. CASE MountCanvas(cached) /\ graphDue' \in BOOLEAN
    <3>1. /\ at' \in Places /\ lastView' \in Modes
          /\ view' \in Modes /\ focus' \in Foci \union {Tables}
          /\ ours' \in BOOLEAN
          /\ raced' \in BOOLEAN
      BY <2>1, <2>2, MountType
    <3>2. fetching' \in BOOLEAN /\ (fetching => fetching')
      BY <1>1 DEF Open, TypeOK
    <3> QED
      BY <1>1, <2>2, <3>1, <3>2 DEF Open, TypeOK
  <2>3. CASE UNCHANGED <<graphDue, canvas, history>>
    <3>1. fetching' \in BOOLEAN /\ (fetching => fetching')
      BY <1>1 DEF Open, TypeOK
    <3> QED
      BY <1>1, <2>3, <3>1 DEF Open, TypeOK, canvas, history
  <2> QED
    BY <1>1, <2>2, <2>3 DEF Open
<1>2. CASE Close \/ Reload
  <2>1. Everywhere(Arranged) \in Places
    BY DEF Everywhere, Arranged, Places
  <2>2. CASE Close
    BY <2>1, <2>2, DefaultIsMode DEF Close, Leave, TypeOK
  <2>3. CASE Reload
    BY <2>1, <2>3, DefaultIsMode DEF Reload, Leave, TypeOK
  <2> QED
    BY <1>2, <2>2, <2>3
<1>3. CASE Answer
  BY <1>3 DEF Answer, TypeOK, canvas, history
<1>4. CASE LayoutArrives
  <2>1. answer \in Layout \union {NoLayout} /\ raced \in BOOLEAN
        /\ lastView \in Modes
    BY DEF TypeOK
  <2>2. CASE Rebuild(answer) /\ UNCHANGED <<view, focus>>
    <3>1. /\ at' \in Places /\ lastView' \in Modes
          /\ ours' \in BOOLEAN /\ raced' \in BOOLEAN
      BY <2>1, <2>2, MountType
    <3> QED
      BY <1>4, <2>2, <3>1 DEF LayoutArrives, Settle, TypeOK
  <2>3. CASE MountCanvas(answer)
    <3>1. /\ at' \in Places /\ lastView' \in Modes
          /\ view' \in Modes /\ focus' \in Foci \union {Tables}
          /\ ours' \in BOOLEAN
          /\ raced' \in BOOLEAN
      BY <2>1, <2>3, MountType
    <3> QED
      BY <1>4, <3>1 DEF LayoutArrives, Settle, TypeOK
  <2>4. CASE UNCHANGED <<canvas, history>>
    BY <1>4, <2>4 DEF LayoutArrives, Settle, TypeOK, canvas, history
  <2> QED
    BY <1>4, <2>2, <2>3, <2>4 DEF LayoutArrives
<1>5. CASE LayoutFails
  <2>1. NoLayout \in Layout \union {NoLayout} /\ raced \in BOOLEAN
        /\ lastView \in Modes
    BY DEF TypeOK
  <2>2. CASE Rebuild(NoLayout) /\ UNCHANGED <<view, focus>>
    <3>1. /\ at' \in Places /\ lastView' \in Modes
          /\ ours' \in BOOLEAN /\ raced' \in BOOLEAN
      BY <2>1, <2>2, MountType
    <3> QED
      BY <1>5, <2>2, <3>1 DEF LayoutFails, Settle, TypeOK
  <2>3. CASE MountCanvas(NoLayout)
    <3>1. /\ at' \in Places /\ lastView' \in Modes
          /\ view' \in Modes /\ focus' \in Foci \union {Tables}
          /\ ours' \in BOOLEAN
          /\ raced' \in BOOLEAN
      BY <2>1, <2>3, MountType
    <3> QED
      BY <1>5, <3>1 DEF LayoutFails, Settle, TypeOK
  <2>4. CASE UNCHANGED <<canvas, history>>
    BY <1>5, <2>4 DEF LayoutFails, Settle, TypeOK, canvas, history
  <2> QED
    BY <1>5, <2>2, <2>3, <2>4 DEF LayoutFails
<1>6. CASE Rerender \/ GraphArrives
  <2>1. /\ NoLayout \in Layout \union {NoLayout} /\ cached \in Layout \union {NoLayout}
        /\ raced \in BOOLEAN /\ lastView \in Modes
    BY DEF TypeOK
  <2>2. Rebuild(NoLayout) \/ Rebuild(cached)
    BY <1>6 DEF Rerender, GraphArrives
  <2>3. /\ at' \in Places /\ lastView' \in Modes
        /\ ours' \in BOOLEAN /\ raced' \in BOOLEAN
    BY <2>1, <2>2, MountType
  <2>4. CASE Rerender
    BY <2>3, <2>4 DEF Rerender, TypeOK, resource
  <2>5. CASE GraphArrives
    BY <2>3, <2>5 DEF GraphArrives, TypeOK
  <2> QED
    BY <1>6, <2>4, <2>5
<1>7. CASE GrowStale
  BY <1>7 DEF GrowStale, TypeOK, canvas, history
<1> QED
  BY <1>1, <1>2, <1>3, <1>4, <1>5, <1>6, <1>7

LEMMA SavingType ==
  ASSUME TypeOK,
         \/ \E t \in Tables : Drag(t)
         \/ TimerFires
         \/ \E mode \in Modes : ApplyView(mode)
         \/ Reset \/ ResetFocused
         \/ \E S \in Foci \union {Tables} : Focus(S)
         \/ \E q \in Slots : Apply(q) \/ Lose(q)
         \/ \E mode \in Modes \union {Unsaid} : SaveElsewhere(mode)
  PROVE  TypeOK'
<1>1. ASSUME NEW t \in Tables, Drag(t) PROVE TypeOK'
  <2>1. at' \in Places
    BY <1>1 DEF Drag, Edit, TypeOK, Places
  <2>2. armed' = TRUE /\ open /\ edits' \in Nat /\ ours' = TRUE
    BY <1>1 DEF Drag, Edit, Shown, TypeOK
  <2> QED
    BY <1>1, <2>1, <2>2 DEF Drag, Edit, TypeOK, resource
<1>2. CASE TimerFires
  <2>1. at \in Places /\ Unsaid \in Modes \union {Unsaid} /\ Send(at, Unsaid)
    BY <1>2 DEF TimerFires, TypeOK
  <2>2. puts' \in [Slots -> Put \union {NoPut}] /\ raced' \in BOOLEAN
    BY <2>1, SendType DEF TypeOK
  <2> QED
    BY <1>2, <2>2 DEF TimerFires, TypeOK, resource, canvas
<1>3. ASSUME NEW mode \in Modes, ApplyView(mode) PROVE TypeOK'
  <2>1. at \in Places /\ SendView(at, mode)
    BY <1>3 DEF ApplyView, TypeOK
  <2>2. /\ puts' \in [Slots -> Put \union {NoPut}] /\ raced' \in BOOLEAN
        /\ lastView' \in Modes
    BY <2>1, SendViewType
  <2>3. edits' \in Nat /\ ours' = TRUE /\ focus' \in Foci \union {Tables}
    BY <1>3 DEF ApplyView, Edit, TypeOK
  <2> QED
    BY <1>3, <2>2, <2>3 DEF ApplyView, Edit, TypeOK, resource
<1>4. CASE Reset
  <2>1. at' \in Places /\ view \in Modes /\ SendView(at', view)
    BY <1>4 DEF Reset, TypeOK, Everywhere, Arranged, Places
  <2>2. /\ puts' \in [Slots -> Put \union {NoPut}] /\ raced' \in BOOLEAN
        /\ lastView' \in Modes
    BY <2>1, SendViewType
  <2>3. edits' \in Nat /\ ours' = TRUE
    BY <1>4 DEF Reset, Edit, TypeOK
  <2> QED
    BY <1>4, <2>1, <2>2, <2>3 DEF Reset, Edit, TypeOK, resource
<1>5. CASE ResetFocused
  <2>1. at' \in Places
    BY <1>5 DEF ResetFocused, TypeOK, Gathered, Places
  <2> QED
    BY <1>5, <2>1 DEF ResetFocused, TypeOK, resource
<1>6. ASSUME NEW S \in Foci \union {Tables}, Focus(S) PROVE TypeOK'
  BY <1>6 DEF Focus, TypeOK, resource, history
<1>7. ASSUME NEW q \in Slots, Apply(q) PROVE TypeOK'
  <2>1. puts[q] \in Put /\ stored.view \in Modes
    BY <1>7 DEF Apply, TypeOK, Layout
  <2>2. stored' \in Layout
    BY <1>7, <2>1 DEF Apply, Put, Layout
  <2>3. puts' \in [Slots -> Put \union {NoPut}]
    BY <1>7 DEF Apply, TypeOK
  <2> QED
    BY <1>7, <2>2, <2>3 DEF Apply, TypeOK, resource, canvas, history
<1>8. ASSUME NEW q \in Slots, Lose(q) PROVE TypeOK'
  <2>1. puts' \in [Slots -> Put \union {NoPut}]
    BY <1>8 DEF Lose, TypeOK
  <2> QED
    BY <1>8, <2>1 DEF Lose, TypeOK, resource, canvas
<1>9. ASSUME NEW mode \in Modes \union {Unsaid}, SaveElsewhere(mode) PROVE TypeOK'
  <2>1. edits + 2 \in Nat /\ edits' \in Nat
    BY <1>9 DEF SaveElsewhere, TypeOK
  <2>2. Everywhere(edits + 2) \in Places /\ stored.view \in Modes
    BY <2>1 DEF TypeOK, Everywhere, Places, Layout
  <2>3. stored' \in Layout /\ lastView' \in Modes
    BY <1>9, <2>2 DEF SaveElsewhere, TypeOK, Layout
  <2>4. ours' \in BOOLEAN /\ raced' \in BOOLEAN
    BY <1>9, Zenon DEF SaveElsewhere
  <2> QED
    BY <1>9, <2>1, <2>3, <2>4 DEF SaveElsewhere, TypeOK, resource, canvas
<1> QED
  BY <1>1, <1>2, <1>3, <1>4, <1>5, <1>6, <1>7, <1>8, <1>9

LEMMA TypeStep == TypeOK /\ [Next]_vars => TypeOK'
<1> SUFFICES ASSUME TypeOK, [Next]_vars PROVE TypeOK'
  OBVIOUS
<1>1. CASE Next
  BY <1>1, LoadingType, SavingType DEF Next
<1>2. CASE UNCHANGED vars
  BY <1>2 DEF vars, resource, canvas, history, TypeOK
<1> QED
  BY <1>1, <1>2

(* No step leaves a variable outside its type, and the save timer never     *)
(* runs without a canvas.                                                   *)
THEOREM TypeCorrect == Spec => []TypeOK
BY InitTypeOK, TypeStep, PTL DEF Spec

-----------------------------------------------------------------------------
(* What is stored, and what is on its way.  While no saves have crossed,    *)
(* one PUT at most is in flight.  It, or else the row, has the places that  *)
(* the canvas shows, as soon as no drag waits for its timer; and the view   *)
(* state set last, unless it carries none: then the row has it.             *)

OneInFlight ==
  ~raced => \A q, r \in Slots : puts[q] # NoPut /\ puts[r] # NoPut => q = r

PlacesOnTheWay ==
  ~raced /\ ours /\ ~armed =>
    /\ \A q \in Slots : puts[q] # NoPut => puts[q].at = at
    /\ ~InFlight => stored.at = at

ViewOnTheWay ==
  ~raced =>
    /\ \A q \in Slots : puts[q] # NoPut =>
         \/ puts[q].view = lastView
         \/ puts[q].view = Unsaid /\ stored.view = lastView
    /\ ~InFlight => stored.view = lastView

SaveInv == TypeOK /\ OneInFlight /\ PlacesOnTheWay /\ ViewOnTheWay

LEMMA SaveInvInit == Init => SaveInv
<1> SUFFICES ASSUME Init PROVE SaveInv
  OBVIOUS
<1>1. TypeOK
  BY InitTypeOK
<1>2. \A q \in Slots : puts[q] = NoPut
  BY DEF Init
<1>3. stored.view = lastView /\ ours = FALSE
  BY DEF Init, NoRow
<1> QED
  BY <1>1, <1>2, <1>3 DEF SaveInv, OneInFlight, PlacesOnTheWay, ViewOnTheWay

(* A save that crosses no other has been sent. *)
LEMMA SendFacts ==
  ASSUME SaveInv, NEW places \in Places, NEW mode \in Modes \union {Unsaid},
         Send(places, mode), ~raced'
  PROVE  /\ ~raced /\ ~InFlight /\ stored.view = lastView
         /\ \A q, r \in Slots : puts'[q] # NoPut /\ puts'[r] # NoPut => q = r
         /\ \A q \in Slots : puts'[q] # NoPut =>
              puts'[q].at = places /\ puts'[q].view = mode
         /\ InFlight'
<1>1. ~raced /\ ~InFlight
  BY Zenon DEF Send
<1>2. \A q \in Slots : puts[q] = NoPut
  BY <1>1 DEF InFlight
<1>3. PICK q \in Slots : puts' = [puts EXCEPT ![q] = [at |-> places, view |-> mode]]
  BY DEF Send
<1>4. puts'[q] = [at |-> places, view |-> mode] /\ \A r \in Slots : r # q => puts'[r] = NoPut
  BY <1>2, <1>3 DEF SaveInv, TypeOK
<1>5. puts'[q] # NoPut
  BY <1>4, NoPutIsNone DEF Places
<1>6. stored.view = lastView
  BY <1>1 DEF SaveInv, ViewOnTheWay
<1> QED
  BY <1>1, <1>4, <1>5, <1>6 DEF InFlight

(* A step that changes neither the row nor the PUTs nor what they are       *)
(* compared with, except that it ends an edit or starts the timer.          *)
LEMMA KeepsSaves ==
  ASSUME SaveInv, TypeOK', UNCHANGED <<stored, puts, lastView, raced>>,
         (ours' /\ ~armed') => (ours /\ ~armed /\ at' = at)
  PROVE  SaveInv'
BY DEF SaveInv, OneInFlight, PlacesOnTheWay, ViewOnTheWay, InFlight

LEMMA SaveInvStep == SaveInv /\ [Next]_vars => SaveInv'
<1> SUFFICES ASSUME SaveInv, [Next]_vars PROVE SaveInv'
  OBVIOUS
<1>1. TypeOK /\ TypeOK'
  BY TypeStep DEF SaveInv
<1>2. CASE Open \/ LayoutArrives \/ LayoutFails \/ Rerender \/ GraphArrives
  <2>1. UNCHANGED <<stored, puts, armed>>
    BY <1>2 DEF Open, LayoutArrives, LayoutFails, Rerender, GraphArrives, Settle
  <2>2. \/ ours' = FALSE /\ UNCHANGED <<lastView, raced>>
        \/ UNCHANGED <<at, ours, lastView, raced>>
    BY <1>2 DEF Open, LayoutArrives, LayoutFails, Rerender, GraphArrives,
                MountCanvas, Rebuild, canvas, history
  <2> QED
    BY <1>1, <2>1, <2>2, KeepsSaves
<1>3. CASE Close \/ Reload
  <2>1. UNCHANGED <<stored, puts, lastView, raced>> /\ ours' = FALSE
    BY <1>3 DEF Close, Reload, Leave
  <2> QED
    BY <1>1, <2>1, KeepsSaves
<1>4. CASE Answer \/ GrowStale
  <2>1. UNCHANGED <<stored, puts, lastView, raced, ours, armed, at>>
    BY <1>4 DEF Answer, GrowStale, canvas, history
  <2> QED
    BY <1>1, <2>1, KeepsSaves
<1>5. ASSUME NEW t \in Tables, Drag(t) PROVE SaveInv'
  <2>1. UNCHANGED <<stored, puts, lastView, raced>> /\ armed' = TRUE
    BY <1>5 DEF Drag, Edit
  <2> QED
    BY <1>1, <2>1, KeepsSaves
<1>6. CASE ResetFocused
  <2>1. UNCHANGED <<stored, puts, lastView, raced>> /\ ours' = FALSE
    BY <1>6 DEF ResetFocused
  <2> QED
    BY <1>1, <2>1, KeepsSaves
<1>7. ASSUME NEW S \in Foci \union {Tables}, Focus(S) PROVE SaveInv'
  <2>1. UNCHANGED <<stored, puts, lastView, raced, ours, armed, at>>
    BY <1>7 DEF Focus, history
  <2> QED
    BY <1>1, <2>1, KeepsSaves
<1>8. CASE TimerFires
  <2>1. /\ at \in Places /\ Unsaid \in Modes \union {Unsaid} /\ Send(at, Unsaid)
        /\ UNCHANGED <<stored, at, ours, lastView>>
    BY <1>1, <1>8 DEF TimerFires, TypeOK, canvas
  <2>2. CASE raced'
    BY <1>1, <2>2 DEF SaveInv, OneInFlight, PlacesOnTheWay, ViewOnTheWay
  <2>3. CASE ~raced'
    <3>1. /\ stored.view = lastView /\ InFlight'
          /\ \A q, r \in Slots : puts'[q] # NoPut /\ puts'[r] # NoPut => q = r
          /\ \A q \in Slots : puts'[q] # NoPut =>
               puts'[q].at = at /\ puts'[q].view = Unsaid
      BY <2>1, <2>3, SendFacts
    <3> QED
      BY <1>1, <2>1, <3>1 DEF SaveInv, OneInFlight, PlacesOnTheWay, ViewOnTheWay
  <2> QED
    BY <2>2, <2>3
<1>9. ASSUME NEW mode \in Modes, ApplyView(mode) \/ (Reset /\ mode = view) PROVE SaveInv'
  <2>1. at' \in Places /\ Send(at', mode) /\ lastView' = mode /\ UNCHANGED stored
    BY <1>1, <1>9 DEF ApplyView, Reset, SendView, Edit, TypeOK
  <2>2. CASE raced'
    BY <1>1, <2>2 DEF SaveInv, OneInFlight, PlacesOnTheWay, ViewOnTheWay
  <2>3. CASE ~raced'
    <3>1. /\ InFlight'
          /\ \A q, r \in Slots : puts'[q] # NoPut /\ puts'[r] # NoPut => q = r
          /\ \A q \in Slots : puts'[q] # NoPut =>
               puts'[q].at = at' /\ puts'[q].view = mode
      BY <2>1, <2>3, SendFacts
    <3> QED
      BY <1>1, <2>1, <3>1 DEF SaveInv, OneInFlight, PlacesOnTheWay, ViewOnTheWay
  <2> QED
    BY <2>2, <2>3
<1>10. ASSUME NEW q \in Slots, Apply(q) PROVE SaveInv'
  <2>1. /\ puts[q] # NoPut /\ puts' = [puts EXCEPT ![q] = NoPut]
        /\ stored'.at = puts[q].at
        /\ stored'.view = IF puts[q].view = Unsaid THEN stored.view ELSE puts[q].view
        /\ UNCHANGED <<at, ours, armed, lastView, raced>>
    BY <1>10 DEF Apply, canvas, history
  <2>2. CASE raced
    BY <1>1, <2>1, <2>2 DEF SaveInv, OneInFlight, PlacesOnTheWay, ViewOnTheWay
  <2>3. CASE ~raced
    <3>1. \A r \in Slots : puts'[r] = NoPut
      BY <1>1, <2>1, <2>3 DEF SaveInv, OneInFlight, TypeOK
    <3>2. stored'.view = lastView
      BY <2>1, <2>3, DefaultIsMode, <1>1 DEF SaveInv, ViewOnTheWay, TypeOK
    <3>3. ours /\ ~armed => stored'.at = at
      BY <2>1, <2>3 DEF SaveInv, PlacesOnTheWay
    <3> QED
      BY <1>1, <2>1, <3>1, <3>2, <3>3 DEF SaveInv, OneInFlight, PlacesOnTheWay, ViewOnTheWay
  <2> QED
    BY <2>2, <2>3
<1>11. ASSUME NEW q \in Slots, Lose(q) PROVE SaveInv'
  BY <1>1, <1>11 DEF Lose, SaveInv, OneInFlight, PlacesOnTheWay, ViewOnTheWay
<1>12. ASSUME NEW mode \in Modes \union {Unsaid}, SaveElsewhere(mode) PROVE SaveInv'
  <2>1. /\ UNCHANGED <<at, armed, puts>>
        /\ stored'.view = IF mode = Unsaid THEN stored.view ELSE mode
        /\ lastView' = IF mode = Unsaid THEN lastView ELSE mode
    BY <1>12 DEF SaveElsewhere, canvas
  <2>2. CASE raced'
    BY <1>1, <2>2 DEF SaveInv, OneInFlight, PlacesOnTheWay, ViewOnTheWay
  <2>3. CASE ~raced'
    <3>1. ~raced /\ ~InFlight /\ (ours' => armed)
      BY <1>12, <2>3, Zenon DEF SaveElsewhere
    <3>2. \A q \in Slots : puts'[q] = NoPut
      BY <2>1, <3>1 DEF InFlight
    <3>3. stored'.view = lastView'
      BY <2>1, <3>1 DEF SaveInv, ViewOnTheWay
    <3> QED
      BY <1>1, <2>1, <3>1, <3>2, <3>3 DEF SaveInv, OneInFlight, PlacesOnTheWay, ViewOnTheWay
  <2> QED
    BY <2>2, <2>3
<1>13. CASE UNCHANGED vars
  <2>1. UNCHANGED <<stored, puts, lastView, raced, ours, armed, at>>
    BY <1>13 DEF vars, canvas, history
  <2> QED
    BY <1>1, <2>1, KeepsSaves
<1>14. Reset => SaveInv'
  BY <1>1, <1>9 DEF TypeOK
<1> QED
  BY <1>2, <1>3, <1>4, <1>5, <1>6, <1>7, <1>8, <1>9, <1>10, <1>11, <1>12, <1>13, <1>14
     DEF Next

LEMMA AlwaysSaveInv == Spec => []SaveInv
BY SaveInvInit, SaveInvStep, PTL DEF Spec

(* Once all is quiet, the row has the places the canvas shows: no mixture   *)
(* of drags, timers, resets, mode changes and remounts saves others.        *)
THEOREM SavesWhatIsShown == Spec => []SavedIsShown
<1>1. SaveInv => SavedIsShown
  BY DEF SaveInv, PlacesOnTheWay, SavedIsShown, Quiet
<1> QED
  BY <1>1, AlwaysSaveInv, PTL

(* Once all is quiet, the row has the view state set last: a drag of a      *)
(* window with an older one does not take it back.                          *)
THEOREM DragsKeepTheView == Spec => []ViewIsKept
<1>1. SaveInv => ViewIsKept
  BY DEF SaveInv, ViewOnTheWay, ViewIsKept, Quiet
<1> QED
  BY <1>1, AlwaysSaveInv, PTL

(***************************************************************************)
(*                     The graph and the picks: Diagram                    *)
(***************************************************************************)
(* Induction over the naturals, for a set: the library's is for an operator.*)
LEMMA CountingUp ==
  ASSUME NEW T, 0 \in T, \A n \in Nat : n \in T => n + 1 \in T
  PROVE  \A n \in Nat : n \in T
<1> DEFINE Bad == {n \in Nat : n \notin T}
           R == OpToRel(<, Nat)
<1> SUFFICES ASSUME Bad # {} PROVE FALSE
  OBVIOUS
<1>1. IsWellFoundedOn(R, Nat)
  BY NatLessThanWellFounded
<1>2. \A m, n \in Nat : m < n <=> <<m, n>> \in R
  BY DEF OpToRel
<1> HIDE DEF R
<1>3. Bad \subseteq Nat
  OBVIOUS
<1>4. PICK n \in Bad : \A m \in Bad : ~(<<m, n>> \in R)
  <2> HIDE DEF Bad
  <2> QED BY <1>1, <1>3, WFMin
<1>5. n - 1 \in Nat /\ n - 1 < n
  BY <1>4
<1>6. n - 1 \in T
  BY <1>2, <1>4, <1>5
<1> QED BY <1>4, <1>5, <1>6

(* A step that is a function on S can be taken N times. *)
Taken(g, F, N, S, base) ==
  /\ g \in [0..N -> S] /\ g[0] = base
  /\ \A n \in 1..N : g[n] = F[n][g[n - 1]]

LEMMA Iterated ==
  ASSUME NEW N \in Nat, NEW S, NEW base \in S, NEW F \in [1..N -> [S -> S]]
  PROVE  \E g : Taken(g, F, N, S, base)
<1> DEFINE Upto(g, n) == /\ g \in [0..N -> S] /\ g[0] = base
                         /\ \A m \in 1..N : m <= n => g[m] = F[m][g[m - 1]]
           T == {n \in Nat : \E g : Upto(g, n)}
<1>1. 0 \in T
  <2> DEFINE g == [m \in 0..N |-> base]
  <2>1. Upto(g, 0)
    OBVIOUS
  <2> HIDE DEF g, Upto
  <2> QED BY <2>1
<1>2. ASSUME NEW n \in Nat, n \in T PROVE n + 1 \in T
  <2>1. PICK g : Upto(g, n)
    BY <1>2
  <2> DEFINE h == [m \in 0..N |-> IF m <= n THEN g[m]
                                  ELSE IF m = n + 1 THEN F[m][g[n]] ELSE base]
  <2>2. h \in [0..N -> S] /\ h[0] = base
    <3>1. ASSUME n + 1 \in 0..N PROVE F[n + 1][g[n]] \in S
      <4>1. n + 1 \in 1..N /\ g[n] \in S
        BY <2>1, <3>1
      <4> QED BY <4>1
    <3> QED BY <2>1, <3>1
  <2>3. ASSUME NEW m \in 1..N, m <= n + 1 PROVE h[m] = F[m][h[m - 1]]
    <3>1. m - 1 \in 0..N /\ m - 1 <= n /\ h[m - 1] = g[m - 1]
      BY <2>3
    <3>2. CASE m <= n
      BY <2>1, <3>1, <3>2
    <3>3. CASE m = n + 1
      BY <3>1, <3>3
    <3> QED BY <2>3, <3>2, <3>3
  <2>4. Upto(h, n + 1)
    BY <2>2, <2>3
  <2> HIDE DEF h, Upto
  <2> QED BY <2>4
<1>3. N \in T
  <2> HIDE DEF T
  <2> QED BY <1>1, <1>2, CountingUp
<1>4. PICK g : Upto(g, N)
  BY <1>3
<1>5. Taken(g, F, N, S, base)
  BY <1>4 DEF Taken
<1> QED BY <1>5

-----------------------------------------------------------------------------
(* Sequences. *)

LEMMA Appended ==
  ASSUME NEW T, NEW s \in Seq(T), NEW x \in T
  PROVE  /\ Append(s, x) \in Seq(T) /\ Len(Append(s, x)) = Len(s) + 1
         /\ \A i \in 1..Len(s) : Append(s, x)[i] = s[i]
         /\ Append(s, x)[Len(s) + 1] = x
         /\ ToSet(Append(s, x)) = ToSet(s) \union {x}
<1>1. /\ Append(s, x) \in Seq(T) /\ Len(Append(s, x)) = Len(s) + 1 /\ Len(s) \in Nat
      /\ \A i \in 1..Len(s) : Append(s, x)[i] = s[i]
      /\ Append(s, x)[Len(s) + 1] = x
      /\ DOMAIN s = 1..Len(s) /\ DOMAIN Append(s, x) = 1..(Len(s) + 1)
  OBVIOUS
<1> DEFINE t == Append(s, x)  N == Len(s)
<1>2. {t[i] : i \in 1..(N + 1)} = {s[i] : i \in 1..N} \union {x}
  <2>1. /\ N \in Nat /\ \A i \in 1..N : t[i] = s[i]
        /\ t[N + 1] = x
    BY <1>1
  <2> HIDE DEF t, N
  <2>2. 1..(N + 1) = (1..N) \union {N + 1}
    BY <2>1
  <2> QED BY <2>1, <2>2
<1> QED BY <1>1, <1>2 DEF ToSet

(* s, cut to its elements in S, is s at positions that grow. *)
Selects(pos, t, s, S, n) ==
  /\ pos \in [1..Len(t) -> 1..n]
  /\ \A j, k \in 1..Len(t) : j < k => pos[j] < pos[k]
  /\ \A k \in 1..Len(t) : t[k] = s[pos[k]]
  /\ \A i \in 1..n : s[i] \in S <=> \E k \in 1..Len(t) : pos[k] = i

(* How Only comes to be. *)
Cutting(up, T, s, S) ==
  /\ up \in [0..Len(s) -> Seq(T)]
  /\ up[0] = <<>>
  /\ \A n \in 1..Len(s) :
       up[n] = IF s[n] \in S THEN Append(up[n - 1], s[n]) ELSE up[n - 1]
  /\ Only(s, S) = up[Len(s)]

LEMMA OnlyUpTo ==
  ASSUME NEW T, NEW s \in Seq(T), NEW S
  PROVE  \E up : Cutting(up, T, s, S)
<1> DEFINE N == Len(s)
           Q == Seq(T)
           F == [n \in 1..N |-> [t \in Q |-> IF s[n] \in S THEN Append(t, s[n]) ELSE t]]
           P(g) == g = [n \in 0..N |->
                          IF n = 0 THEN <<>>
                          ELSE IF s[n] \in S THEN Append(g[n - 1], s[n]) ELSE g[n - 1]]
           upTo == CHOOSE g : P(g)
<1>1. N \in Nat /\ <<>> \in Seq(T) /\ \A n \in 1..N : s[n] \in T
  OBVIOUS
<1>2. Only(s, S) = upTo[N]
  BY DEF Only
<1> HIDE DEF N
<1>3. F \in [1..N -> [Q -> Q]]
  <2>1. ASSUME NEW n \in 1..N, NEW t \in Q
        PROVE  (IF s[n] \in S THEN Append(t, s[n]) ELSE t) \in Q
    BY <1>1, <2>1
  <2> HIDE DEF Q
  <2> QED BY <2>1
<1>4. ASSUME NEW n \in 1..N, NEW t \in Q
      PROVE  F[n][t] = IF s[n] \in S THEN Append(t, s[n]) ELSE t
  <2> HIDE DEF Q
  <2> QED OBVIOUS
<1>5. PICK g : Taken(g, F, N, Q, <<>>)
  <2>1. <<>> \in Q
    BY <1>1
  <2>2. N \in Nat
    BY <1>1
  <2> HIDE DEF F, Q, P
  <2> QED BY <1>3, <2>1, <2>2, Iterated
<1> HIDE DEF F
<1> USE DEF Taken
<1>6. P(g)
  <2>1. ASSUME NEW n \in 0..N
        PROVE  g[n] = IF n = 0 THEN <<>>
                      ELSE IF s[n] \in S THEN Append(g[n - 1], s[n]) ELSE g[n - 1]
    <3>1. CASE n = 0
      BY <1>5, <3>1
    <3>2. CASE n # 0
      <4>1. n \in 1..N /\ n - 1 \in 0..N
        BY <1>1, <3>2
      <4>2. g[n - 1] \in Q
        BY <1>5, <4>1
      <4> QED BY <1>4, <1>5, <4>1, <4>2
    <3> QED BY <3>1, <3>2
  <2> HIDE DEF Q
  <2> QED BY <1>5, <2>1
<1>7. P(upTo)
  <2> HIDE DEF P
  <2> QED BY <1>6
<1> HIDE DEF upTo
<1>8. /\ upTo[0] = <<>>
      /\ \A n \in 1..N : upTo[n] = IF s[n] \in S THEN Append(upTo[n - 1], s[n]) ELSE upTo[n - 1]
      /\ DOMAIN upTo = 0..N
  <2> HIDE DEF upTo
  <2>1. ASSUME NEW n \in 0..N
        PROVE  upTo[n] = IF n = 0 THEN <<>>
                         ELSE IF s[n] \in S THEN Append(upTo[n - 1], s[n]) ELSE upTo[n - 1]
    BY <1>7
  <2>2. DOMAIN upTo = 0..N
    BY <1>7
  <2>3. N \in Nat /\ 0 \in 0..N /\ \A n \in 1..N : n \in 0..N /\ n # 0
    BY <1>1
  <2>4. upTo[0] = <<>>
    BY <2>1, <2>3, Zenon
  <2>5. \A n \in 1..N : upTo[n] = IF s[n] \in S THEN Append(upTo[n - 1], s[n])
                                    ELSE upTo[n - 1]
    BY <2>1, <2>3, Zenon
  <2> QED BY <2>2, <2>4, <2>5
<1>9. upTo \in [0..N -> Seq(T)]
  <2> DEFINE U == {n \in Nat : n <= N => upTo[n] \in Seq(T)}
  <2>1. 0 \in U
    BY <1>1, <1>8
  <2>2. ASSUME NEW n \in Nat, n \in U PROVE n + 1 \in U
    <3> SUFFICES ASSUME n + 1 <= N PROVE upTo[n + 1] \in Seq(T)
      OBVIOUS
    <3>1. n + 1 \in 1..N /\ upTo[n] \in Seq(T) /\ s[n + 1] \in T
      BY <1>1, <2>2
    <3>2. upTo[n + 1] = IF s[n + 1] \in S THEN Append(upTo[n], s[n + 1]) ELSE upTo[n]
      BY <1>8, <3>1
    <3> QED BY <3>1, <3>2
  <2>3. \A n \in Nat : n \in U
    <3> HIDE DEF U
    <3> QED BY <2>1, <2>2, CountingUp
  <2>4. \A n \in 0..N : upTo[n] \in Seq(T)
    BY <1>1, <2>3
  <2>5. upTo = [n \in 0..N |-> upTo[n]]
    BY <1>7
  <2> QED BY <2>4, <2>5
<1>10. Cutting(upTo, T, s, S)
  BY <1>2, <1>8, <1>9 DEF N, Cutting
<1> QED BY <1>10

LEMMA OnlyAre ==
  ASSUME NEW T, NEW s \in Seq(T), NEW S
  PROVE  Only(s, S) \in Seq(T) /\ \E pos : Selects(pos, Only(s, S), s, S, Len(s))
<1> DEFINE N == Len(s)
<1>1. PICK up : Cutting(up, T, s, S)
  BY OnlyUpTo
<1>2. N \in Nat /\ \A n \in 1..N : s[n] \in T
  OBVIOUS
<1>3. /\ up \in [0..N -> Seq(T)] /\ up[0] = <<>> /\ Only(s, S) = up[N]
      /\ \A n \in 1..N : up[n] = IF s[n] \in S THEN Append(up[n - 1], s[n]) ELSE up[n - 1]
  BY <1>1 DEF Cutting
<1> HIDE DEF N
<1> DEFINE U == {n \in Nat : n <= N => \E pos : Selects(pos, up[n], s, S, n)}
<1>4. 0 \in U
  <2>1. Selects(<<>>, <<>>, s, S, 0)
    BY DEF Selects
  <2> QED BY <1>3, <2>1
<1>5. ASSUME NEW n \in Nat, n \in U PROVE n + 1 \in U
  <2> SUFFICES ASSUME n + 1 <= N PROVE \E pos : Selects(pos, up[n + 1], s, S, n + 1)
    OBVIOUS
  <2>1. n + 1 \in 1..N /\ n \in 0..N /\ s[n + 1] \in T /\ up[n] \in Seq(T)
    BY <1>2, <1>3
  <2>2. up[n + 1] = IF s[n + 1] \in S THEN Append(up[n], s[n + 1]) ELSE up[n]
    BY <1>3, <2>1
  <2>3. PICK pos : Selects(pos, up[n], s, S, n)
    BY <1>5, <1>2
  <2> DEFINE t == up[n]  L == Len(t)
  <2>4. t \in Seq(T) /\ L \in Nat /\ Selects(pos, t, s, S, n)
    BY <2>1, <2>3
  <2>5. CASE s[n + 1] \notin S
    <3>1. Selects(pos, t, s, S, n + 1)
      <4> USE <2>4 DEF Selects
      <4>1. pos \in [1..L -> 1..(n + 1)]
        OBVIOUS
      <4>2. ASSUME NEW i \in 1..(n + 1) PROVE s[i] \in S <=> \E k \in 1..L : pos[k] = i
        <5>1. CASE i = n + 1
          BY <2>5, <5>1
        <5>2. CASE i \in 1..n
          BY <5>2
        <5> QED BY <5>1, <5>2
      <4> HIDE DEF t, L
      <4> QED BY <4>1, <4>2 DEF L
    <3> QED BY <2>2, <2>5, <3>1
  <2>6. CASE s[n + 1] \in S
    <3> DEFINE w == Append(t, s[n + 1])
               to == [k \in 1..(L + 1) |-> IF k = L + 1 THEN n + 1 ELSE pos[k]]
    <3>1. /\ Len(w) = L + 1 /\ w[L + 1] = s[n + 1]
          /\ \A i \in 1..L : w[i] = t[i]
      BY <2>1, <2>4, Appended
    <3>2. /\ pos \in [1..L -> 1..n] /\ L \in Nat
          /\ \A j, k \in 1..L : j < k => pos[j] < pos[k]
          /\ \A k \in 1..L : t[k] = s[pos[k]]
          /\ \A i \in 1..n : s[i] \in S <=> \E k \in 1..L : pos[k] = i
      BY <2>4 DEF Selects
    <3> HIDE DEF w, t, L
    <3>3. to \in [1..(L + 1) -> 1..(n + 1)]
      BY <3>2
    <3>4. \A j, k \in 1..(L + 1) : j < k => to[j] < to[k]
      <4>1. ASSUME NEW j \in 1..(L + 1), NEW k \in 1..(L + 1), j < k PROVE to[j] < to[k]
        <5>1. j \in 1..L
          BY <3>2, <4>1
        <5>2. CASE k = L + 1
          BY <3>2, <5>1, <5>2
        <5>3. CASE k \in 1..L
          BY <3>2, <4>1, <5>1, <5>3
        <5> QED BY <3>2, <5>2, <5>3
      <4> QED BY <4>1
    <3>5. \A k \in 1..(L + 1) : w[k] = s[to[k]]
      <4>1. ASSUME NEW k \in 1..(L + 1) PROVE w[k] = s[to[k]]
        <5>1. CASE k = L + 1
          BY <3>1, <5>1
        <5>2. CASE k \in 1..L
          BY <3>1, <3>2, <5>2
        <5> QED BY <3>2, <5>1, <5>2
      <4> QED BY <4>1
    <3>6. ASSUME NEW i \in 1..(n + 1) PROVE s[i] \in S <=> \E k \in 1..(L + 1) : to[k] = i
      <4>1. CASE i = n + 1
        <5>1. L + 1 \in 1..(L + 1) /\ to[L + 1] = i
          BY <3>2, <4>1
        <5> QED BY <2>6, <4>1, <5>1
      <4>2. CASE i \in 1..n
        <5>1. \A k \in 1..L : to[k] = pos[k] /\ k \in 1..(L + 1)
          BY <3>2
        <5>2. to[L + 1] # i
          BY <3>2, <4>2
        <5>3. \A k \in 1..(L + 1) : to[k] = i => k \in 1..L
          BY <3>2, <5>2
        <5> HIDE DEF to
        <5> QED BY <3>2, <4>2, <5>1, <5>3
      <4> QED BY <4>1, <4>2
    <3> HIDE DEF to
    <3>7. Selects(to, w, s, S, n + 1)
      BY <3>1, <3>3, <3>4, <3>5, <3>6 DEF Selects
    <3>8. up[n + 1] = w
      BY <2>2, <2>6 DEF w, t
    <3> QED BY <3>7, <3>8
  <2> QED BY <2>5, <2>6
<1>6. N \in U
  <2> HIDE DEF U
  <2> QED BY <1>2, <1>4, <1>5, CountingUp
<1>7. \E pos : Selects(pos, Only(s, S), s, S, N)
  BY <1>2, <1>3, <1>6
<1>8. Only(s, S) \in Seq(T)
  BY <1>2, <1>3
<1> QED BY <1>7, <1>8 DEF N

LEMMA OnlyHas ==
  ASSUME NEW T, NEW s \in Seq(T), NEW S
  PROVE  Only(s, S) \in Seq(T) /\ ToSet(Only(s, S)) = ToSet(s) \intersect S
<1> DEFINE t == Only(s, S)  N == Len(s)
<1>1. t \in Seq(T) /\ N \in Nat /\ \E pos : Selects(pos, t, s, S, N)
  BY OnlyAre
<1>2. PICK pos : Selects(pos, t, s, S, N)
  BY <1>1
<1>3. DOMAIN t = 1..Len(t) /\ DOMAIN s = 1..N
  BY <1>1
<1>4. /\ pos \in [1..Len(t) -> 1..N]
      /\ \A k \in 1..Len(t) : t[k] = s[pos[k]]
      /\ \A i \in 1..N : s[i] \in S <=> \E k \in 1..Len(t) : pos[k] = i
  BY <1>2 DEF Selects
<1> HIDE DEF t, N
<1>5. ToSet(t) = {t[k] : k \in 1..Len(t)} /\ ToSet(s) = {s[i] : i \in 1..N}
  BY <1>3 DEF ToSet
<1>6. ASSUME NEW k \in 1..Len(t) PROVE t[k] \in ToSet(s) \intersect S
  BY <1>4, <1>5
<1>7. ASSUME NEW i \in 1..N, s[i] \in S PROVE s[i] \in ToSet(t)
  <2>1. PICK k \in 1..Len(t) : pos[k] = i
    BY <1>4, <1>7
  <2> QED BY <1>4, <1>5, <2>1
<1>8. ToSet(t) = ToSet(s) \intersect S
  BY <1>5, <1>6, <1>7
<1> QED BY <1>1, <1>8 DEF t

LEMMA OwnElements ==
  ASSUME NEW T, NEW s \in Seq(T)
  PROVE  /\ s \in Seq(ToSet(s)) /\ ToSet(s) \subseteq T /\ IsFiniteSet(ToSet(s))
         /\ Cardinality(ToSet(s)) <= Len(s)
         /\ DOMAIN s = 1..Len(s) /\ Len(s) \in Nat
<1> DEFINE N == Len(s)
<1>1. N \in Nat /\ DOMAIN s = 1..N /\ s \in [1..N -> T]
  OBVIOUS
<1>2. ToSet(s) = {s[i] : i \in 1..N}
  BY <1>1 DEF ToSet
<1>3. s \in [1..N -> ToSet(s)] /\ ToSet(s) \subseteq T
  <2> HIDE DEF N
  <2> QED BY <1>1, <1>2
<1>4. s \in Seq(ToSet(s))
  BY <1>3
<1>5. ExistsSurjection(1..N, ToSet(s))
  <2>1. s \in Surjection(1..N, ToSet(s))
    <3> HIDE DEF N
    <3> QED BY <1>2, <1>3 DEF Surjection
  <2> QED BY <2>1 DEF ExistsSurjection
<1>6. IsFiniteSet(ToSet(s)) /\ Cardinality(ToSet(s)) <= N
  <2>1. Cardinality(ToSet(s)) <= N
    BY <1>1, <1>5, FS_SurjCardinalityBound
  <2>2. IsFiniteSet(ToSet(s))
    BY <1>1, <1>5, FS_NatSurjection
  <2> QED BY <2>1, <2>2
<1> QED BY <1>1, <1>3, <1>4, <1>6

LEMMA Listed ==
  ASSUME NEW N \in Nat, NEW T, NEW s, s = [i \in 1..N |-> s[i]],
         \A i \in 1..N : s[i] \in T
  PROVE  s \in Seq(T) /\ Len(s) = N
OBVIOUS

LEMMA Joined ==
  ASSUME NEW T, NEW s \in Seq(T), NEW t \in Seq(T)
  PROVE  /\ s \o t \in Seq(T) /\ Len(s \o t) = Len(s) + Len(t)
         /\ ToSet(s \o t) = ToSet(s) \union ToSet(t)
<1> DEFINE w == s \o t  M == Len(s)  N == Len(t)
<1>1. /\ w \in Seq(T) /\ Len(w) = M + N /\ M \in Nat /\ N \in Nat
      /\ DOMAIN w = 1..(M + N) /\ DOMAIN s = 1..M /\ DOMAIN t = 1..N
  OBVIOUS
<1>2. \A i \in 1..M : w[i] = s[i]
  OBVIOUS
<1>3. \A i \in 1..N : w[M + i] = t[i]
  OBVIOUS
<1> HIDE DEF w, M, N
<1>4. /\ ToSet(w) = {w[i] : i \in 1..(M + N)}
      /\ ToSet(s) = {s[i] : i \in 1..M} /\ ToSet(t) = {t[i] : i \in 1..N}
  BY <1>1 DEF ToSet
<1>5. ASSUME NEW i \in 1..(M + N) PROVE w[i] \in ToSet(s) \union ToSet(t)
  <2>1. CASE i \in 1..M
    BY <1>2, <1>4, <2>1
  <2>2. CASE i \notin 1..M
    <3>1. i - M \in 1..N /\ M + (i - M) = i
      BY <1>1, <2>2
    <3>2. w[i] = t[i - M]
      BY <1>3, <3>1
    <3> QED BY <1>4, <3>1, <3>2
  <2> QED BY <2>1, <2>2
<1>6. ToSet(s) \subseteq ToSet(w)
  <2>1. \A i \in 1..M : i \in 1..(M + N)
    BY <1>1
  <2> QED BY <1>2, <1>4, <2>1
<1>7. ToSet(t) \subseteq ToSet(w)
  <2>1. \A i \in 1..N : M + i \in 1..(M + N)
    BY <1>1
  <2> QED BY <1>3, <1>4, <2>1
<1>8. ToSet(w) = ToSet(s) \union ToSet(t)
  BY <1>4, <1>5, <1>6, <1>7
<1> QED BY <1>1, <1>8 DEF w, M, N

LEMMA Flattened ==
  ASSUME NEW T, NEW ss \in Seq(Seq(T))
  PROVE  FlattenSeq(ss) \in Seq(T)
<1> DEFINE N == Len(ss)
           Q == Seq(T)
           P(g) == g = [i \in 1..N |-> IF i = 1 THEN ss[i] ELSE g[i - 1] \o ss[i]]
           flatten == CHOOSE g : P(g)
<1>1. N \in Nat /\ \A i \in 1..N : ss[i] \in Q
  OBVIOUS
<1>2. FlattenSeq(ss) = IF N = 0 THEN ss ELSE flatten[N]
  BY DEF FlattenSeq
<1>3. CASE N = 0
  BY <1>2, <1>3
<1> HIDE DEF N
<1>4. CASE N # 0
  <2> DEFINE F == [i \in 1..N |-> [t \in Q |-> IF i = 1 THEN ss[i] ELSE t \o ss[i]]]
  <2>1. \A i \in 1..N, t \in Q : (IF i = 1 THEN ss[i] ELSE t \o ss[i]) \in Q
    BY <1>1
  <2>2. F \in [1..N -> [Q -> Q]]
    <3> HIDE DEF Q
    <3> QED BY <2>1
  <2>3. \A i \in 1..N, t \in Q : F[i][t] = IF i = 1 THEN ss[i] ELSE t \o ss[i]
    <3> HIDE DEF Q
    <3> QED OBVIOUS
  <2>4. PICK h : Taken(h, F, N, Q, <<>>)
    <3>1. <<>> \in Q
      OBVIOUS
    <3> HIDE DEF F, Q
    <3> QED BY <1>1, <2>2, <3>1, Iterated
  <2> HIDE DEF F
  <2> DEFINE g == [i \in 1..N |-> h[i]]
  <2>5. P(g)
    <3>1. ASSUME NEW i \in 1..N
          PROVE  h[i] = IF i = 1 THEN ss[i] ELSE g[i - 1] \o ss[i]
      <4>1. i - 1 \in 0..N /\ h[i - 1] \in Q /\ h[i] = F[i][h[i - 1]]
        BY <1>1, <2>4 DEF Taken
      <4>2. h[i] = IF i = 1 THEN ss[i] ELSE h[i - 1] \o ss[i]
        BY <2>3, <4>1
      <4>3. i # 1 => i - 1 \in 1..N
        BY <1>1
      <4>4. i # 1 => g[i - 1] = h[i - 1]
        BY <4>3
      <4> HIDE DEF g
      <4> QED BY <4>2, <4>4
    <3> DEFINE G == [i \in 1..N |-> IF i = 1 THEN ss[i] ELSE g[i - 1] \o ss[i]]
    <3>2. g = G
      BY <3>1
    <3> QED BY <3>2
  <2>6. P(flatten)
    <3> HIDE DEF P, g
    <3> QED BY <2>5
  <2> HIDE DEF flatten
  <2> DEFINE U == {n \in Nat : n + 1 <= N => flatten[n + 1] \in Q}
  <2>7. \A i \in 1..N : flatten[i] = IF i = 1 THEN ss[i] ELSE flatten[i - 1] \o ss[i]
    BY <2>6
  <2>8. 0 \in U
    <3>1. 1 \in 1..N /\ 0 + 1 = 1
      BY <1>1, <1>4
    <3>2. flatten[1] = ss[1]
      BY <2>7, <3>1
    <3> QED BY <1>1, <3>1, <3>2
  <2>9. ASSUME NEW n \in Nat, n \in U PROVE n + 1 \in U
    <3> SUFFICES ASSUME n + 1 + 1 <= N PROVE flatten[n + 1 + 1] \in Q
      OBVIOUS
    <3>1. /\ n + 1 <= N /\ n + 1 + 1 \in 1..N /\ n + 1 + 1 # 1
          /\ (n + 1 + 1) - 1 = n + 1
      BY <1>1
    <3>2. flatten[n + 1] \in Q /\ ss[n + 1 + 1] \in Q
      BY <1>1, <2>9, <3>1
    <3>3. flatten[n + 1 + 1] = flatten[n + 1] \o ss[n + 1 + 1]
      BY <2>7, <3>1
    <3> QED BY <3>2, <3>3
  <2>10. N - 1 \in Nat /\ N - 1 + 1 = N /\ N <= N
    BY <1>1, <1>4
  <2>11. N - 1 \in U
    <3> HIDE DEF U
    <3> QED BY <2>8, <2>9, <2>10, CountingUp
  <2>12. flatten[N] \in Q
    <3> HIDE DEF Q
    <3> QED BY <2>10, <2>11
  <2> QED BY <1>2, <1>4, <2>12
<1> QED BY <1>3, <1>4

(* A guess is never drawn for a pair that is claimed. *)
LEMMA EmitIs ==
  ASSUME NEW T, NEW claimed, NEW guesses \in Seq(T)
  PROVE  /\ Emit(claimed, guesses) \in Seq(T)
         /\ \A r \in ToSet(Emit(claimed, guesses)) : Pair(r) \notin claimed
<1> DEFINE N == Len(guesses)
           Fresh == {r \in T : Pair(r) \notin claimed}
           Q == Seq(Fresh)
           More(out, r) ==
             IF \/ r.source.entity = r.target.entity
                \/ Pair(r) \in claimed \union Pairs(out)
             THEN out
             ELSE Append(out, r)
           P(g) == g = [n \in 0..N |-> IF n = 0 THEN <<>> ELSE More(g[n - 1], guesses[n])]
           upTo == CHOOSE g : P(g)
           F == [n \in 1..N |-> [t \in Q |-> More(t, guesses[n])]]
<1>1. N \in Nat /\ \A n \in 1..N : guesses[n] \in T
  OBVIOUS
<1>2. Emit(claimed, guesses) = upTo[N]
  BY DEF Emit
<1> HIDE DEF N
<1>3. ASSUME NEW out \in Q, NEW r \in T PROVE More(out, r) \in Q
  <2>1. CASE Pair(r) \in claimed
    BY <2>1
  <2>2. CASE Pair(r) \notin claimed
    <3>1. r \in Fresh
      BY <2>2
    <3> HIDE DEF Fresh
    <3> QED BY <3>1
  <2> QED BY <2>1, <2>2
<1>4. <<>> \in Q
  OBVIOUS
<1>5. F \in [1..N -> [Q -> Q]]
  <2>1. \A n \in 1..N, t \in Q : More(t, guesses[n]) \in Q
    BY <1>1, <1>3
  <2> HIDE DEF Q, More
  <2> QED BY <2>1
<1>6. \A n \in 1..N, t \in Q : F[n][t] = More(t, guesses[n])
  <2> HIDE DEF Q, More
  <2> QED OBVIOUS
<1>7. PICK g : Taken(g, F, N, Q, <<>>)
  <2> HIDE DEF F, Q
  <2> QED BY <1>1, <1>4, <1>5, Iterated
<1> HIDE DEF F
<1>8. P(g)
  <2> HIDE DEF Q, More
  <2>1. g \in [0..N -> Q] /\ g[0] = <<>> /\ \A n \in 1..N : g[n] = F[n][g[n - 1]]
    BY <1>7 DEF Taken
  <2>2. ASSUME NEW n \in 0..N
        PROVE  g[n] = IF n = 0 THEN <<>> ELSE More(g[n - 1], guesses[n])
    <3>1. CASE n = 0
      BY <2>1, <3>1
    <3>2. CASE n # 0
      <4>1. n \in 1..N /\ n - 1 \in 0..N
        BY <1>1, <3>2
      <4>2. g[n - 1] \in Q
        BY <2>1, <4>1
      <4>3. g[n] = More(g[n - 1], guesses[n])
        BY <1>6, <2>1, <4>1, <4>2
      <4> QED BY <3>2, <4>3
    <3> QED BY <3>1, <3>2
  <2> QED BY <2>1, <2>2
<1>9. P(upTo)
  <2> HIDE DEF P
  <2> QED BY <1>8
<1> HIDE DEF upTo, More
<1>10. \A n \in 0..N : upTo[n] = IF n = 0 THEN <<>> ELSE More(upTo[n - 1], guesses[n])
  BY <1>9
<1> DEFINE U == {n \in Nat : n <= N => upTo[n] \in Q}
<1>11. 0 \in U
  <2>1. 0 \in 0..N
    BY <1>1
  <2> HIDE DEF Q
  <2> QED BY <1>4, <1>10, <2>1
<1>12. ASSUME NEW n \in Nat, n \in U PROVE n + 1 \in U
  <2> SUFFICES ASSUME n + 1 <= N PROVE upTo[n + 1] \in Q
    OBVIOUS
  <2>1. n + 1 \in 1..N /\ n + 1 \in 0..N /\ n + 1 # 0 /\ n + 1 - 1 = n /\ n <= N
    BY <1>1
  <2>2. upTo[n] \in Q
    BY <1>12, <2>1
  <2>3. upTo[n + 1] = More(upTo[n], guesses[n + 1])
    BY <1>10, <2>1
  <2> HIDE DEF Q
  <2> QED BY <1>1, <1>3, <2>1, <2>2, <2>3
<1>13. upTo[N] \in Q
  <2>1. N \in U
    <3> HIDE DEF U
    <3> QED BY <1>1, <1>11, <1>12, CountingUp
  <2> QED BY <1>1, <2>1
<1> HIDE DEF upTo
<1>14. upTo[N] \in Seq(T) /\ ToSet(upTo[N]) \subseteq Fresh
  <2>1. Q \subseteq Seq(T)
    OBVIOUS
  <2>2. ToSet(upTo[N]) \subseteq Fresh
    <3> HIDE DEF Fresh
    <3> QED BY <1>13, OwnElements
  <2> QED BY <1>13, <2>1, <2>2
<1> QED BY <1>2, <1>14

-----------------------------------------------------------------------------
(* Joins between picks. *)

(* What grows within P for as many turns as P has elements is in C by     *)
(* then, if it is in C exactly when it stops growing.                      *)
LEMMA Saturates ==
  ASSUME NEW N \in Nat, NEW P, IsFiniteSet(P), Cardinality(P) <= N,
         NEW C, NEW g, g[0] # {},
         \A n \in 0..N : g[n] \subseteq P,
         \A n \in 1..N : g[n - 1] \subseteq g[n],
         \A n \in 1..N : g[n - 1] \in C <=> g[n] = g[n - 1]
  PROVE  g[N] \in C
<1>1. \A n \in 0..N : IsFiniteSet(g[n]) /\ Cardinality(g[n]) \in Nat
  BY FS_Subset, FS_CardinalityType
<1> DEFINE U == {n \in Nat : n <= N => g[n] \in C \/ Cardinality(g[n]) >= n + 1}
<1>2. 0 \in U
  <2>1. Cardinality(g[0]) # 0
    <3>1. 0 \in 0..N
      OBVIOUS
    <3> QED BY <1>1, <3>1, FS_EmptySet
  <2> QED BY <1>1, <2>1
<1>3. ASSUME NEW n \in Nat, n \in U PROVE n + 1 \in U
  <2> SUFFICES ASSUME n + 1 <= N, g[n + 1] \notin C PROVE Cardinality(g[n + 1]) >= n + 2
    OBVIOUS
  <2>1. /\ n \in 0..N /\ n + 1 \in 1..N /\ n + 1 \in 0..N /\ n + 1 - 1 = n
    OBVIOUS
  <2>2. g[n] \notin C
    BY <2>1
  <2>3. g[n] \subseteq g[n + 1] /\ g[n] # g[n + 1]
    BY <2>1, <2>2
  <2>4. Cardinality(g[n]) >= n + 1
    BY <1>3, <2>1, <2>2
  <2>5. Cardinality(g[n]) <= Cardinality(g[n + 1]) /\ Cardinality(g[n]) # Cardinality(g[n + 1])
    BY <1>1, <2>1, <2>3, FS_Subset
  <2>6. Cardinality(g[n]) \in Nat /\ Cardinality(g[n + 1]) \in Nat
    BY <1>1, <2>1
  <2> QED BY <2>4, <2>5, <2>6
<1>4. N \in U
  <2> HIDE DEF U
  <2> QED BY <1>2, <1>3, CountingUp
<1>5. Cardinality(g[N]) <= Cardinality(P) /\ Cardinality(P) \in Nat /\ Cardinality(g[N]) \in Nat
  <2>1. N \in 0..N
    OBVIOUS
  <2> QED BY <1>1, <2>1, FS_Subset, FS_CardinalityType
<1> QED BY <1>4, <1>5

LEMMA Least ==
  ASSUME NEW S \in SUBSET Nat, S # {}
  PROVE  Min(S) \in S /\ \A y \in S : Min(S) <= y
<1> DEFINE R == OpToRel(<, Nat)
<1>1. IsWellFoundedOn(R, Nat)
  BY NatLessThanWellFounded
<1>2. \A m, n \in Nat : m < n <=> <<m, n>> \in R
  BY DEF OpToRel
<1> HIDE DEF R
<1>3. PICK n \in S : \A m \in S : ~(<<m, n>> \in R)
  BY <1>1, WFMin
<1>4. ASSUME NEW m \in S PROVE n <= m
  <2>1. m \in Nat /\ n \in Nat
    OBVIOUS
  <2>2. ~(<<m, n>> \in R)
    BY <1>3
  <2>3. ~(m < n)
    BY <1>2, <2>1, <2>2
  <2> QED BY <2>1, <2>3
<1> DEFINE L(x) == \A y \in S : x <= y
<1>5. \E x \in S : L(x)
  BY <1>4
<1>6. Min(S) = CHOOSE x \in S : L(x)
  BY DEF Min
<1> HIDE DEF L
<1>7. Min(S) \in S /\ L(Min(S))
  BY <1>5, <1>6
<1> QED BY <1>7 DEF L

(* The usable relationships of two tables. *)
Usable(rs, a, b) == {i \in DOMAIN rs : Pair(rs[i]) = {a, b} /\ Joinable(rs[i])}

Relating(rs) ==
  /\ rs \in Seq(ToSet(rs))
  /\ \A r \in ToSet(rs) : \A x, y \in {r.source.columns, r.target.columns} :
       None # [anchor |-> x, joined |-> y]

LEMMA JoinColumnsAre ==
  ASSUME NEW rs, Relating(rs), NEW a, NEW b
  PROVE  /\ JoinColumns(rs, a, b) # None <=> Usable(rs, a, b) # {}
         /\ Usable(rs, a, b) # {} =>
              \E i \in Usable(rs, a, b) : JoinColumns(rs, a, b) = Told(rs[i], a)
<1> DEFINE usable == Usable(rs, a, b)
<1>1. JoinColumns(rs, a, b) = IF usable = {} THEN None ELSE Told(rs[Min(usable)], a)
  BY DEF JoinColumns, Usable, Told
<1>2. DOMAIN rs = 1..Len(rs) /\ Len(rs) \in Nat /\ \A i \in DOMAIN rs : rs[i] \in ToSet(rs)
  BY DEF Relating, ToSet
<1>3. usable \in SUBSET Nat /\ usable \subseteq DOMAIN rs
  BY <1>2 DEF Usable
<1> HIDE DEF usable
<1>4. CASE usable = {}
  BY <1>1, <1>4 DEF usable
<1>5. CASE usable # {}
  <2>1. Min(usable) \in usable
    BY <1>3, <1>5, Least
  <2>2. rs[Min(usable)] \in ToSet(rs)
    BY <1>2, <1>3, <2>1
  <2>3. Told(rs[Min(usable)], a) # None
    BY <2>2 DEF Relating, Told
  <2> QED BY <1>1, <1>5, <2>1, <2>3 DEF usable
<1> QED BY <1>4, <1>5

LEMMA JoinsBothWays ==
  ASSUME NEW rs, Relating(rs), NEW a, NEW b
  PROVE  JoinColumns(rs, a, b) # None <=> JoinColumns(rs, b, a) # None
<1>1. {a, b} = {b, a}
  OBVIOUS
<1>2. Usable(rs, a, b) = Usable(rs, b, a)
  BY <1>1 DEF Usable
<1> QED BY <1>2, JoinColumnsAre

(* The picks that joins lead to. *)
LEMMA ReachedIs ==
  ASSUME NEW rs, NEW picks, NEW root \in picks
  PROVE  /\ ReachedFrom(rs, root, picks) \subseteq picks
         /\ root \in ReachedFrom(rs, root, picks)
         /\ Closed(rs, picks, ReachedFrom(rs, root, picks))
         /\ \A S \in SUBSET picks :
              root \in S /\ Closed(rs, picks, S) => ReachedFrom(rs, root, picks) \subseteq S
BY DEF ReachedFrom, Closed

LEMMA ReachedIsLeast ==
  ASSUME NEW rs, NEW picks, NEW root \in picks, NEW S \in SUBSET picks,
         root \in S, Closed(rs, picks, S), S \subseteq ReachedFrom(rs, root, picks)
  PROVE  S = ReachedFrom(rs, root, picks)
BY ReachedIs

LEMMA ReachedOn ==
  ASSUME NEW rs, NEW picks, NEW a \in picks, NEW b \in ReachedFrom(rs, a, picks)
  PROVE  ReachedFrom(rs, b, picks) \subseteq ReachedFrom(rs, a, picks)
<1> DEFINE S == ReachedFrom(rs, a, picks)
<1>1. S \in SUBSET picks /\ b \in S /\ Closed(rs, picks, S) /\ b \in picks
  BY ReachedIs
<1> HIDE DEF S
<1>2. ReachedFrom(rs, b, picks) \subseteq S
  BY <1>1, ReachedIs
<1> QED BY <1>2 DEF S

LEMMA ReachedBack ==
  ASSUME NEW rs, Relating(rs), NEW picks, NEW a \in picks, NEW b \in ReachedFrom(rs, a, picks)
  PROVE  a \in ReachedFrom(rs, b, picks)
<1> DEFINE S == {x \in picks : a \in ReachedFrom(rs, x, picks)}
<1>1. a \in S
  BY ReachedIs
<1>2. ASSUME NEW x \in picks, NEW y \in picks, x \in S, JoinColumns(rs, x, y) # None
      PROVE  y \in S
  <2>1. y \in ReachedFrom(rs, y, picks) /\ Closed(rs, picks, ReachedFrom(rs, y, picks))
    BY ReachedIs
  <2>2. JoinColumns(rs, y, x) # None
    BY <1>2, JoinsBothWays
  <2>3. x \in ReachedFrom(rs, y, picks)
    BY <2>1, <2>2 DEF Closed
  <2>4. ReachedFrom(rs, x, picks) \subseteq ReachedFrom(rs, y, picks)
    BY <2>3, ReachedOn
  <2> QED BY <1>2, <2>4
<1>3. Closed(rs, picks, S)
  BY <1>2 DEF Closed
<1>4. S \in SUBSET picks
  OBVIOUS
<1> HIDE DEF S
<1>5. b \in S
  BY <1>1, <1>3, <1>4, ReachedIs
<1> QED BY <1>5 DEF S

LEMMA ReachedFurther ==
  ASSUME NEW rs, NEW picks, NEW more, picks \subseteq more, NEW a \in picks
  PROVE  ReachedFrom(rs, a, picks) \subseteq ReachedFrom(rs, a, more)
<1> DEFINE S == ReachedFrom(rs, a, more) \intersect picks
<1>1. a \in more
  OBVIOUS
<1>2. /\ ReachedFrom(rs, a, more) \subseteq more /\ a \in ReachedFrom(rs, a, more)
      /\ Closed(rs, more, ReachedFrom(rs, a, more))
  BY <1>1, ReachedIs
<1>3. S \in SUBSET picks /\ a \in S /\ Closed(rs, picks, S)
  BY <1>2 DEF Closed
<1> HIDE DEF S
<1>4. ReachedFrom(rs, a, picks) \subseteq S
  BY <1>3, ReachedIs
<1> QED BY <1>4 DEF S

(* Going from members to what joins with them finds just those. *)
LEMMA MembersAre ==
  ASSUME NEW rs, NEW T, NEW picked \in Seq(T), NEW start \in ToSet(picked)
  PROVE  Members(rs, picked, start) = ReachedFrom(rs, start, ToSet(picked))
<1> DEFINE picks == ToSet(picked)  N == Len(picked)
           Q == SUBSET picks
           Step(ms) == ms \union {id \in picks : JoinsAny(rs, ms, id)}
           P(g) == g = [n \in 0..N |-> IF n = 0 THEN {start} ELSE Step(g[n - 1])]
           grown == CHOOSE g : P(g)
           F == [n \in 1..N |-> [ms \in Q |-> Step(ms)]]
           C == {S \in Q : Closed(rs, picks, S)}
<1>1. Members(rs, picked, start) = grown[N]
  BY DEF Members
<1>2. N \in Nat /\ IsFiniteSet(picks) /\ Cardinality(picks) <= N
  BY OwnElements
<1>3. start \in picks
  OBVIOUS
<1> HIDE DEF N, picks
<1>4. \A ms \in Q : Step(ms) \in Q /\ ms \subseteq Step(ms)
  OBVIOUS
<1>5. ASSUME NEW ms \in Q PROVE ms \in C <=> Step(ms) = ms
  BY DEF Closed, JoinsAny
<1>6. {start} \in Q
  BY <1>3
<1>7. F \in [1..N -> [Q -> Q]] /\ \A n \in 1..N, ms \in Q : F[n][ms] = Step(ms)
  <2> HIDE DEF Q, Step
  <2> QED BY <1>4
<1>8. PICK g : Taken(g, F, N, Q, {start})
  <2> HIDE DEF F, Q
  <2> QED BY <1>2, <1>6, <1>7, Iterated
<1> HIDE DEF F, Step, C
<1>9. g \in [0..N -> Q] /\ g[0] = {start} /\ \A n \in 1..N : g[n] = Step(g[n - 1])
  <2> HIDE DEF Q
  <2>1. g \in [0..N -> Q] /\ g[0] = {start} /\ \A n \in 1..N : g[n] = F[n][g[n - 1]]
    BY <1>8 DEF Taken
  <2>2. ASSUME NEW n \in 1..N PROVE g[n] = Step(g[n - 1])
    <3>1. n - 1 \in 0..N
      BY <1>2
    <3>2. g[n - 1] \in Q
      BY <2>1, <3>1
    <3> QED BY <1>7, <2>1, <3>2
  <2> QED BY <2>1, <2>2
<1>10. P(g)
  <2> HIDE DEF Q
  <2>1. ASSUME NEW n \in 0..N PROVE g[n] = IF n = 0 THEN {start} ELSE Step(g[n - 1])
    <3>1. n # 0 => n \in 1..N
      BY <1>2
    <3> QED BY <1>9, <3>1
  <2> QED BY <1>9, <2>1
<1>11. P(grown)
  <2> HIDE DEF P
  <2> QED BY <1>10
<1> HIDE DEF grown
<1>12. grown[0] = {start} /\ \A n \in 1..N : grown[n] = Step(grown[n - 1])
  <2>1. ASSUME NEW n \in 0..N PROVE grown[n] = IF n = 0 THEN {start} ELSE Step(grown[n - 1])
    BY <1>11
  <2>2. 0 \in 0..N /\ \A n \in 1..N : n \in 0..N /\ n # 0
    BY <1>2
  <2>3. grown[0] = {start}
    BY <2>1, <2>2, Zenon
  <2>4. \A n \in 1..N : grown[n] = Step(grown[n - 1])
    BY <2>1, <2>2, Zenon
  <2> QED BY <2>3, <2>4
<1> HIDE DEF P
<1> DEFINE Reach == ReachedFrom(rs, start, picks)
           U == {n \in Nat : n <= N => grown[n] \in Q /\ start \in grown[n] /\ grown[n] \subseteq Reach}
<1>13. Reach \subseteq picks /\ start \in Reach /\ Closed(rs, picks, Reach)
  BY <1>3, ReachedIs
<1> HIDE DEF Reach
<1>14. 0 \in U
  BY <1>6, <1>12, <1>13
<1>15. ASSUME NEW n \in Nat, n \in U PROVE n + 1 \in U
  <2> SUFFICES ASSUME n + 1 <= N
               PROVE  grown[n + 1] \in Q /\ start \in grown[n + 1] /\ grown[n + 1] \subseteq Reach
    OBVIOUS
  <2>1. n + 1 \in 1..N /\ n + 1 - 1 = n /\ n <= N
    BY <1>2
  <2>2. grown[n] \in Q /\ start \in grown[n] /\ grown[n] \subseteq Reach
    BY <1>15, <2>1
  <2>3. grown[n + 1] = Step(grown[n])
    BY <1>12, <2>1
  <2>4. Step(grown[n]) \subseteq Reach
    BY <1>13, <2>2 DEF Step, JoinsAny, Closed
  <2> QED BY <1>4, <2>2, <2>3, <2>4
<1>16. \A n \in Nat : n \in U
  <2> HIDE DEF U
  <2> QED BY <1>14, <1>15, CountingUp
<1>17. \A n \in 0..N : grown[n] \in Q /\ start \in grown[n] /\ grown[n] \subseteq Reach
  BY <1>2, <1>16
<1>18. grown[N] \in C
  <2>1. ASSUME NEW n \in 1..N
        PROVE  grown[n - 1] \subseteq grown[n] /\ (grown[n - 1] \in C <=> grown[n] = grown[n - 1])
    <3>1. n - 1 \in 0..N
      BY <1>2
    <3>2. grown[n - 1] \in Q
      BY <1>17, <3>1
    <3>3. grown[n] = Step(grown[n - 1])
      BY <1>12
    <3> HIDE DEF Q
    <3> QED BY <1>4, <1>5, <3>2, <3>3
  <2>2. grown[0] # {} /\ \A n \in 0..N : grown[n] \subseteq picks
    BY <1>12, <1>17
  <2> QED BY <1>2, <2>1, <2>2, Saturates
<1>19. grown[N] \in SUBSET picks /\ start \in grown[N] /\ grown[N] \subseteq Reach /\ Closed(rs, picks, grown[N])
  BY <1>2, <1>17, <1>18 DEF C
<1>20. grown[N] = Reach
  BY <1>3, <1>19, ReachedIsLeast DEF Reach
<1> QED BY <1>1, <1>20 DEF Reach, picks

(* The tables of a statement: the first, and each joins one before it. *)
Follows(rs, picks, root, c) ==
  /\ c \in Seq(picks) /\ Len(c) >= 1 /\ c[1] = root
  /\ \A i \in 2..Len(c) : \E j \in 1..(i - 1) : JoinColumns(rs, c[j], c[i]) # None
  /\ ToSet(c) \subseteq ReachedFrom(rs, root, picks)

Appending(rs, c, x) ==
  IF Contains(c, x) \/ ~JoinsAny(rs, ToSet(c), x) THEN c ELSE Append(c, x)

LEMMA AppendingFollows ==
  ASSUME NEW rs, NEW picks, NEW root \in picks, NEW c, Follows(rs, picks, root, c), NEW x \in picks
  PROVE  /\ Follows(rs, picks, root, Appending(rs, c, x))
         /\ ToSet(c) \subseteq ToSet(Appending(rs, c, x))
         /\ JoinsAny(rs, ToSet(c), x) => x \in ToSet(Appending(rs, c, x))
         /\ \A S \in SUBSET picks : Closed(rs, picks, S) /\ ToSet(c) \subseteq S =>
              ToSet(Appending(rs, c, x)) \subseteq S
<1> DEFINE N == Len(c)  d == Append(c, x)
<1>1. c \in Seq(picks) /\ DOMAIN c = 1..N /\ N \in Nat /\ ToSet(c) \subseteq picks
  BY OwnElements DEF Follows
<1>2. CASE Contains(c, x)
  <2>1. x \in ToSet(c)
    BY <1>1, <1>2 DEF Contains, ToSet
  <2> QED BY <1>2, <2>1 DEF Appending
<1>3. CASE ~Contains(c, x) /\ ~JoinsAny(rs, ToSet(c), x)
  BY <1>3 DEF Appending
<1>4. CASE ~Contains(c, x) /\ JoinsAny(rs, ToSet(c), x)
  <2>1. Appending(rs, c, x) = d
    BY <1>4 DEF Appending
  <2>2. /\ d \in Seq(picks) /\ Len(d) = N + 1 /\ d[N + 1] = x
        /\ \A i \in 1..N : d[i] = c[i]
        /\ ToSet(d) = ToSet(c) \union {x}
    BY <1>1, Appended
  <2>3. PICK m \in ToSet(c) : JoinColumns(rs, m, x) # None
    BY <1>4 DEF JoinsAny
  <2>4. PICK j \in 1..N : c[j] = m
    BY <1>1, <2>3 DEF ToSet
  <2>5. ASSUME NEW S \in SUBSET picks, Closed(rs, picks, S), ToSet(c) \subseteq S
        PROVE  ToSet(d) \subseteq S
    <3>1. m \in S /\ x \in S
      BY <1>1, <2>3, <2>5 DEF Closed
    <3> QED BY <2>2, <2>5, <3>1
  <2>6. N >= 1 /\ c[1] = root /\ ToSet(c) \subseteq ReachedFrom(rs, root, picks)
    BY DEF Follows
  <2>7. ToSet(d) \subseteq ReachedFrom(rs, root, picks)
    <3>1. /\ ReachedFrom(rs, root, picks) \subseteq picks
          /\ Closed(rs, picks, ReachedFrom(rs, root, picks))
      BY ReachedIs
    <3> QED BY <2>5, <2>6, <3>1
  <2>8. d[1] = root
    BY <1>1, <2>2, <2>6
  <2>9. ASSUME NEW i \in 2..(N + 1)
        PROVE  \E k \in 1..(i - 1) : JoinColumns(rs, d[k], d[i]) # None
    <3>1. CASE i = N + 1
      <4>1. j \in 1..(i - 1) /\ d[j] = m /\ d[i] = x
        BY <1>1, <2>2, <2>4, <3>1
      <4> QED BY <2>3, <4>1
    <3>2. CASE i # N + 1
      <4>1. i \in 2..N /\ i \in 1..N
        BY <1>1, <3>2
      <4>2. PICK k \in 1..(i - 1) : JoinColumns(rs, c[k], c[i]) # None
        BY <4>1 DEF Follows
      <4>3. k \in 1..N
        BY <1>1, <4>1
      <4> QED BY <2>2, <4>1, <4>2, <4>3
    <3> QED BY <3>1, <3>2
  <2>10. Len(d) >= 1 /\ Len(d) = N + 1
    BY <1>1, <2>2
  <2> HIDE DEF d, N
  <2>11. Follows(rs, picks, root, d)
    BY <2>2, <2>7, <2>8, <2>9, <2>10 DEF Follows
  <2> QED BY <2>1, <2>2, <2>5, <2>11
<1> QED BY <1>2, <1>3, <1>4

LEMMA PassIs ==
  ASSUME NEW rs, NEW T, NEW picked \in Seq(T), NEW root \in ToSet(picked),
         NEW c, Follows(rs, ToSet(picked), root, c)
  PROVE  /\ Follows(rs, ToSet(picked), root, Pass(rs, picked, c))
         /\ ToSet(c) \subseteq ToSet(Pass(rs, picked, c))
         /\ Closed(rs, ToSet(picked), ToSet(c)) <=> ToSet(Pass(rs, picked, c)) = ToSet(c)
<1> DEFINE picks == ToSet(picked)  N == Len(picked)
           Q == {d \in Seq(picks) : Follows(rs, picks, root, d)}
           P(g) == g = [k \in 0..N |-> IF k = 0 THEN c ELSE Appending(rs, g[k - 1], picked[k])]
           upTo == CHOOSE g : P(g)
           F == [k \in 1..N |-> [d \in Q |-> Appending(rs, d, picked[k])]]
<1>1. Pass(rs, picked, c) = upTo[N]
  BY DEF Pass, Appending
<1>2. N \in Nat /\ \A k \in 1..N : picked[k] \in picks
  BY OwnElements DEF ToSet
<1>3. picks = {picked[k] : k \in 1..N}
  BY OwnElements DEF ToSet
<1>4. root \in picks /\ c \in Q
  BY DEF Follows
<1> HIDE DEF N, picks
<1>5. \A d : d \in Q <=> Follows(rs, picks, root, d)
  BY DEF Follows
<1> HIDE DEF Q
<1>6. \A k \in 1..N, d \in Q : Appending(rs, d, picked[k]) \in Q
  BY <1>2, <1>4, <1>5, AppendingFollows
<1>7. F \in [1..N -> [Q -> Q]] /\ \A k \in 1..N, d \in Q : F[k][d] = Appending(rs, d, picked[k])
  BY <1>6
<1>8. PICK g : Taken(g, F, N, Q, c)
  <2> HIDE DEF F
  <2> QED BY <1>2, <1>4, <1>7, Iterated
<1> HIDE DEF F
<1>9. g \in [0..N -> Q] /\ g[0] = c /\ \A n \in 1..N : g[n] = Appending(rs, g[n - 1], picked[n])
  <2>1. g \in [0..N -> Q] /\ g[0] = c /\ \A n \in 1..N : g[n] = F[n][g[n - 1]]
    BY <1>8 DEF Taken
  <2>2. ASSUME NEW n \in 1..N PROVE g[n] = Appending(rs, g[n - 1], picked[n])
    <3>1. n - 1 \in 0..N
      BY <1>2
    <3>2. g[n - 1] \in Q
      BY <2>1, <3>1
    <3> QED BY <1>7, <2>1, <3>2
  <2> QED BY <2>1, <2>2
<1>10. P(g)
  <2>1. ASSUME NEW n \in 0..N PROVE g[n] = IF n = 0 THEN c ELSE Appending(rs, g[n - 1], picked[n])
    <3>1. n # 0 => n \in 1..N
      BY <1>2
    <3> QED BY <1>9, <3>1
  <2> QED BY <1>9, <2>1
<1>11. P(upTo)
  <2> HIDE DEF P
  <2> QED BY <1>10
<1> HIDE DEF upTo
<1>12. upTo[0] = c /\ \A n \in 1..N : upTo[n] = Appending(rs, upTo[n - 1], picked[n])
  <2>1. ASSUME NEW n \in 0..N
        PROVE  upTo[n] = IF n = 0 THEN c ELSE Appending(rs, upTo[n - 1], picked[n])
    BY <1>11
  <2>2. 0 \in 0..N /\ \A n \in 1..N : n \in 0..N /\ n # 0
    BY <1>2
  <2>3. upTo[0] = c
    BY <2>1, <2>2, Zenon
  <2>4. \A n \in 1..N : upTo[n] = Appending(rs, upTo[n - 1], picked[n])
    BY <2>1, <2>2, Zenon
  <2> QED BY <2>3, <2>4
<1> HIDE DEF P
<1> DEFINE Sound(d, n) ==
             /\ Follows(rs, picks, root, d) /\ ToSet(c) \subseteq ToSet(d)
             /\ \A k \in 1..n : JoinsAny(rs, ToSet(c), picked[k]) => picked[k] \in ToSet(d)
             /\ Closed(rs, picks, ToSet(c)) => ToSet(d) \subseteq ToSet(c)
           U == {n \in Nat : n <= N => Sound(upTo[n], n)}
<1>13. ToSet(c) \in SUBSET picks
  <2>1. c \in Seq(picks)
    BY DEF Follows, picks
  <2> QED BY <2>1, OwnElements
<1>14. 0 \in U
  <2>1. Follows(rs, picks, root, c)
    BY DEF picks
  <2>2. Sound(c, 0)
    BY <2>1
  <2> HIDE DEF Sound
  <2> QED BY <1>12, <2>2
<1>15. ASSUME NEW n \in Nat, n \in U PROVE n + 1 \in U
  <2> SUFFICES ASSUME n + 1 <= N PROVE Sound(upTo[n + 1], n + 1)
    OBVIOUS
  <2> DEFINE d == upTo[n]  x == picked[n + 1]  e == Appending(rs, d, x)
  <2>1. n + 1 \in 1..N /\ n + 1 - 1 = n /\ n <= N
    BY <1>2
  <2>2. Sound(d, n)
    BY <1>15, <2>1
  <2>3. upTo[n + 1] = e
    BY <1>12, <2>1
  <2>4. x \in picks
    BY <1>2, <2>1
  <2> HIDE DEF d, x
  <2>5. /\ Follows(rs, picks, root, e) /\ ToSet(d) \subseteq ToSet(e)
        /\ JoinsAny(rs, ToSet(d), x) => x \in ToSet(e)
        /\ \A S \in SUBSET picks : Closed(rs, picks, S) /\ ToSet(d) \subseteq S => ToSet(e) \subseteq S
    BY <1>4, <2>2, <2>4, AppendingFollows
  <2> HIDE DEF e
  <2>6. ASSUME NEW k \in 1..(n + 1), JoinsAny(rs, ToSet(c), picked[k])
        PROVE  picked[k] \in ToSet(e)
    <3>1. CASE k \in 1..n
      BY <2>2, <2>5, <2>6, <3>1
    <3>2. CASE k = n + 1
      <4>1. JoinsAny(rs, ToSet(d), x)
        BY <2>2, <2>6, <3>2 DEF JoinsAny, x
      <4> QED BY <2>5, <3>2, <4>1 DEF x
    <3> QED BY <3>1, <3>2
  <2>7. Closed(rs, picks, ToSet(c)) => ToSet(e) \subseteq ToSet(c)
    BY <1>13, <2>2, <2>5
  <2>8. Follows(rs, picks, root, e) /\ ToSet(c) \subseteq ToSet(e)
    BY <2>2, <2>5
  <2>9. Sound(e, n + 1)
    BY <2>6, <2>7, <2>8
  <2> HIDE DEF Sound
  <2> QED BY <2>3, <2>9
<1>16. N \in U
  <2> HIDE DEF U
  <2> QED BY <1>2, <1>14, <1>15, CountingUp
<1>17. Sound(upTo[N], N)
  <2> HIDE DEF Sound
  <2> QED BY <1>2, <1>16
<1> DEFINE p == upTo[N]
<1>18. Sound(p, N)
  BY <1>17
<1> HIDE DEF p
<1>19. Closed(rs, picks, ToSet(c)) => ToSet(p) = ToSet(c)
  BY <1>18
<1>20. ASSUME ToSet(p) = ToSet(c) PROVE Closed(rs, picks, ToSet(c))
  <2> SUFFICES ASSUME NEW a \in picks, NEW b \in picks, a \in ToSet(c), JoinColumns(rs, a, b) # None
               PROVE  b \in ToSet(c)
    BY DEF Closed
  <2>1. PICK k \in 1..N : picked[k] = b
    BY <1>3
  <2>2. JoinsAny(rs, ToSet(c), picked[k])
    BY <2>1 DEF JoinsAny
  <2>3. picked[k] \in ToSet(p)
    BY <1>18, <2>2
  <2> QED BY <1>20, <2>1, <2>3
<1>21. Follows(rs, picks, root, p) /\ ToSet(c) \subseteq ToSet(p)
  BY <1>18
<1> QED BY <1>1, <1>19, <1>20, <1>21 DEF p, picks

(* After as many passes as there are picks a pass adds nothing. *)
LEMMA ChainIs ==
  ASSUME NEW rs, NEW T, NEW picked \in Seq(T), picked # <<>>
  PROVE  /\ Follows(rs, ToSet(picked), picked[1], Chain(rs, picked, Len(picked)))
         /\ ToSet(Chain(rs, picked, Len(picked))) = ReachedFrom(rs, picked[1], ToSet(picked))
<1> DEFINE picks == ToSet(picked)  N == Len(picked)  root == picked[1]
           Q == {d \in Seq(picks) : Follows(rs, picks, root, d)}
           P(g) == g = [n \in 0..N |-> IF n = 0 THEN <<root>> ELSE Pass(rs, picked, g[n - 1])]
           after == CHOOSE g : P(g)
           F == [n \in 1..N |-> [d \in Q |-> Pass(rs, picked, d)]]
<1>1. Chain(rs, picked, N) = after[N]
  BY DEF Chain
<1>2. N \in Nat /\ N >= 1 /\ IsFiniteSet(picks) /\ Cardinality(picks) <= N /\ root \in picks
  <2>1. N \in Nat /\ DOMAIN picked = 1..N /\ IsFiniteSet(picks) /\ Cardinality(picks) <= N
    BY OwnElements
  <2>2. N >= 1
    BY <2>1
  <2>3. 1 \in DOMAIN picked
    BY <2>1, <2>2
  <2>4. root \in picks
    BY <2>3 DEF ToSet
  <2> QED BY <2>1, <2>2, <2>4
<1>3. \A d : d \in Q <=> Follows(rs, picks, root, d)
  BY DEF Follows
<1>4. \A d \in Q : Pass(rs, picked, d) \in Q
  <2> HIDE DEF Q, root
  <2> QED BY <1>2, <1>3, PassIs
<1>22. ToSet(<<root>>) = {root}
  <2> HIDE DEF root
  <2> QED BY DEF ToSet
<1>5. <<root>> \in Q
  <2>1. root \in ReachedFrom(rs, root, picks)
    BY <1>2, ReachedIs
  <2>3. Follows(rs, picks, root, <<root>>)
    <3> HIDE DEF root, picks
    <3> QED BY <1>2, <1>22, <2>1 DEF Follows
  <2> HIDE DEF Q
  <2> QED BY <1>3, <2>3
<1> HIDE DEF N, Q
<1>6. F \in [1..N -> [Q -> Q]] /\ \A k \in 1..N, d \in Q : F[k][d] = Pass(rs, picked, d)
  BY <1>4
<1>7. PICK g : Taken(g, F, N, Q, <<root>>)
  <2> HIDE DEF F, root
  <2> QED BY <1>2, <1>5, <1>6, Iterated
<1> HIDE DEF F, root
<1>8. g \in [0..N -> Q] /\ g[0] = <<root>> /\ \A n \in 1..N : g[n] = Pass(rs, picked, g[n - 1])
  <2>1. g \in [0..N -> Q] /\ g[0] = <<root>> /\ \A n \in 1..N : g[n] = F[n][g[n - 1]]
    BY <1>7 DEF Taken
  <2>2. ASSUME NEW n \in 1..N PROVE g[n] = Pass(rs, picked, g[n - 1])
    <3>1. n - 1 \in 0..N
      BY <1>2
    <3>2. g[n - 1] \in Q
      BY <2>1, <3>1
    <3> QED BY <1>6, <2>1, <3>2
  <2> QED BY <2>1, <2>2
<1>9. P(g)
  <2>1. ASSUME NEW n \in 0..N PROVE g[n] = IF n = 0 THEN <<root>> ELSE Pass(rs, picked, g[n - 1])
    <3>1. n # 0 => n \in 1..N
      BY <1>2
    <3> QED BY <1>8, <3>1
  <2> QED BY <1>8, <2>1
<1>10. P(after)
  <2> HIDE DEF P
  <2> QED BY <1>9
<1> HIDE DEF after
<1>11. after[0] = <<root>> /\ \A n \in 1..N : after[n] = Pass(rs, picked, after[n - 1])
  <2>1. ASSUME NEW n \in 0..N
        PROVE  after[n] = IF n = 0 THEN <<root>> ELSE Pass(rs, picked, after[n - 1])
    BY <1>10
  <2>2. 0 \in 0..N /\ \A n \in 1..N : n \in 0..N /\ n # 0
    BY <1>2
  <2>3. after[0] = <<root>>
    BY <2>1, <2>2, Zenon
  <2>4. \A n \in 1..N : after[n] = Pass(rs, picked, after[n - 1])
    BY <2>1, <2>2, Zenon
  <2> QED BY <2>3, <2>4
<1> HIDE DEF P
<1> DEFINE U == {n \in Nat : n <= N => after[n] \in Q}
<1>12. 0 \in U
  BY <1>5, <1>11
<1>13. ASSUME NEW n \in Nat, n \in U PROVE n + 1 \in U
  <2> SUFFICES ASSUME n + 1 <= N PROVE after[n + 1] \in Q
    OBVIOUS
  <2>1. n + 1 \in 1..N /\ n + 1 - 1 = n /\ n <= N
    BY <1>2
  <2>2. after[n] \in Q
    BY <1>13, <2>1
  <2>3. after[n + 1] = Pass(rs, picked, after[n])
    BY <1>11, <2>1
  <2> QED BY <1>4, <2>2, <2>3
<1>14. \A n \in 0..N : after[n] \in Q
  <2>1. \A n \in Nat : n \in U
    <3> HIDE DEF U
    <3> QED BY <1>12, <1>13, CountingUp
  <2> QED BY <1>2, <2>1
<1> DEFINE h == [n \in 0..N |-> ToSet(after[n])]
           C == {S \in SUBSET picks : Closed(rs, picks, S)}
<1>15. \A n \in 0..N : h[n] \subseteq picks
  <2>1. ASSUME NEW n \in 0..N PROVE ToSet(after[n]) \subseteq picks
    <3>1. after[n] \in Seq(picks)
      BY <1>3, <1>14 DEF Follows
    <3> HIDE DEF picks
    <3> QED BY <3>1, OwnElements
  <2> QED BY <2>1
<1>16. ASSUME NEW n \in 1..N
       PROVE  h[n - 1] \subseteq h[n] /\ (h[n - 1] \in C <=> h[n] = h[n - 1])
  <2>1. n - 1 \in 0..N /\ n \in 0..N
    BY <1>2
  <2> DEFINE d == after[n - 1]
  <2>2. Follows(rs, picks, root, d) /\ after[n] = Pass(rs, picked, d)
    BY <1>3, <1>11, <1>14, <2>1
  <2>3. h[n - 1] = ToSet(d) /\ h[n] = ToSet(Pass(rs, picked, d))
    BY <2>1, <2>2
  <2>4. h[n - 1] \subseteq picks
    BY <1>15, <2>1
  <2> HIDE DEF d, h
  <2>5. /\ ToSet(d) \subseteq ToSet(Pass(rs, picked, d))
        /\ Closed(rs, picks, ToSet(d)) <=> ToSet(Pass(rs, picked, d)) = ToSet(d)
    BY <1>2, <2>2, PassIs
  <2> HIDE DEF picks
  <2> QED BY <2>3, <2>4, <2>5
<1>17. h[0] # {}
  <2>1. 0 \in 0..N
    BY <1>2
  <2>2. h[0] = ToSet(<<root>>)
    BY <1>11, <2>1
  <2> HIDE DEF h
  <2> QED BY <1>22, <2>2
<1> HIDE DEF picks
<1>18. h[N] \in C
  <2> HIDE DEF h, C
  <2> QED BY <1>2, <1>15, <1>16, <1>17, Saturates
<1>19. h[N] = ToSet(after[N]) /\ Follows(rs, picks, root, after[N])
  BY <1>2, <1>3, <1>14
<1>20. root \in ToSet(after[N]) /\ ToSet(after[N]) \subseteq ReachedFrom(rs, root, picks)
  BY <1>19, OwnElements DEF Follows, ToSet
<1>21. ToSet(after[N]) = ReachedFrom(rs, root, picks)
  <2> HIDE DEF h
  <2> QED BY <1>2, <1>18, <1>19, <1>20, ReachedIsLeast
<1> QED BY <1>1, <1>19, <1>21 DEF picks, root, N

(* The tables of the statement, and the step that brings in each. *)
LEMMA PlanIs ==
  ASSUME NEW rs, Relating(rs), NEW T, NEW picked \in Seq(T), picked # <<>>
  PROVE  LET plan == PlanJoins(rs, picked)
         IN /\ Follows(rs, ToSet(picked), picked[1], plan.included)
            /\ ToSet(plan.included) = ReachedFrom(rs, picked[1], ToSet(picked))
            /\ \A i \in DOMAIN plan.steps :
                 LET step == plan.steps[i]
                     a == plan.included[step.anchor]
                     b == plan.included[i + 1]
                 IN /\ step.anchor \in Nat /\ step.anchor <= i
                    /\ \E k \in Usable(rs, a, b) : step.on = Told(rs[k], a)
<1> DEFINE c == Chain(rs, picked, Len(picked))  N == Len(c)
           steps == [i \in 1..(N - 1) |-> Attach(rs, SubSeq(c, 1, i), c[i + 1])]
<1>1. PlanJoins(rs, picked) = [included |-> c, steps |-> steps]
  BY DEF PlanJoins, Plan
<1>2. Follows(rs, ToSet(picked), picked[1], c) /\ ToSet(c) = ReachedFrom(rs, picked[1], ToSet(picked))
  BY ChainIs
<1> HIDE DEF c
<1>3. c \in Seq(ToSet(picked)) /\ N \in Nat
  BY <1>2 DEF Follows
<1> DEFINE Right(i) == /\ steps[i].anchor \in Nat /\ steps[i].anchor <= i
                       /\ \E k \in Usable(rs, c[steps[i].anchor], c[i + 1]) :
                            steps[i].on = Told(rs[k], c[steps[i].anchor])
<1>4. ASSUME NEW i \in 1..(N - 1) PROVE Right(i)
  <2> DEFINE sofar == SubSeq(c, 1, i)  b == c[i + 1]
             those == {j \in DOMAIN sofar : JoinColumns(rs, sofar[j], b) # None}
             n == Min(those)
  <2>1. DOMAIN sofar = 1..i /\ \A j \in 1..i : sofar[j] = c[j]
    BY <1>3
  <2>2. steps[i] = [anchor |-> n, on |-> JoinColumns(rs, sofar[n], b)]
    BY DEF Attach
  <2> HIDE DEF sofar
  <2>3. those \in SUBSET Nat
    BY <2>1
  <2>4. those # {}
    <3>1. i + 1 \in 2..N
      BY <1>3
    <3>2. PICK j \in 1..((i + 1) - 1) : JoinColumns(rs, c[j], c[i + 1]) # None
      BY <1>2, <3>1 DEF Follows
    <3>3. j \in 1..i
      BY <3>2
    <3>4. JoinColumns(rs, sofar[j], b) # None
      BY <2>1, <3>2, <3>3
    <3> QED BY <2>1, <3>3, <3>4
  <2>5. n \in those
    <3> HIDE DEF those
    <3> QED BY <2>3, <2>4, Least
  <2>6. n \in 1..i /\ JoinColumns(rs, c[n], b) # None /\ sofar[n] = c[n]
    BY <2>1, <2>5
  <2> HIDE DEF n, those
  <2>7. PICK k \in Usable(rs, c[n], b) : JoinColumns(rs, c[n], b) = Told(rs[k], c[n])
    BY <2>6, JoinColumnsAre
  <2>8. steps[i].anchor = n /\ steps[i].on = Told(rs[k], c[n])
    BY <2>2, <2>6, <2>7
  <2> HIDE DEF steps
  <2> QED BY <2>6, <2>7, <2>8
<1>5. DOMAIN steps = 1..(N - 1)
  OBVIOUS
<1> HIDE DEF steps, N
<1> QED BY <1>1, <1>2, <1>4, <1>5

(* Every pick is in a group, a group is what one of its picks leads to,    *)
(* and the first group is that of the first pick, and shares no pick.      *)
Grouped(rs, picked, groups) ==
  LET picks == ToSet(picked)
      first == ReachedFrom(rs, picked[1], picks)
  IN /\ groups = [g \in 1..Len(groups) |-> groups[g]] /\ Len(groups) \in Nat
     /\ 1 \in DOMAIN groups /\ ToSet(groups[1]) = first
     /\ \A g \in DOMAIN groups :
          /\ groups[g] \in Seq(picks)
          /\ \E x \in picks : ToSet(groups[g]) = ReachedFrom(rs, x, picks)
          /\ g # 1 => ToSet(groups[g]) \intersect first = {}
     /\ \A b \in picks : \E g \in DOMAIN groups : b \in ToSet(groups[g])

LEMMA StartsAre ==
  ASSUME NEW rs, NEW T, NEW picked \in Seq(T), picked # <<>>
  PROVE  LET starts == Starts(rs, picked)
             reached(i) == ReachedFrom(rs, picked[i], ToSet(picked))
         IN /\ starts \in Seq(1..Len(picked)) /\ Len(starts) >= 1 /\ starts[1] = 1
            /\ \A j, k \in 1..Len(starts) : j < k => starts[j] < starts[k]
            /\ \A i \in 1..Len(picked) :
                 (\E k \in 1..Len(starts) : starts[k] = i)
                   <=> \A j \in 1..(i - 1) : picked[i] \notin reached(j)
<1> DEFINE N == Len(picked)  picks == ToSet(picked)
           reached(i) == ReachedFrom(rs, picked[i], picks)
           grouped(i) == \E j \in 1..(i - 1) : picked[i] \in Members(rs, picked, picked[j])
           idx == [i \in DOMAIN picked |-> i]
           S == {i \in DOMAIN picked : ~grouped(i)}
           starts == Only(idx, S)
<1>1. Starts(rs, picked) = starts
  BY DEF Starts
<1>2. N \in Nat /\ N >= 1 /\ DOMAIN picked = 1..N /\ \A i \in 1..N : picked[i] \in picks
  <2>1. N \in Nat /\ DOMAIN picked = 1..N
    BY OwnElements
  <2>2. N >= 1
    BY <2>1
  <2> QED BY <2>1, <2>2 DEF ToSet
<1> HIDE DEF N, picks
<1>3. idx = [i \in 1..N |-> i]
  BY <1>2
<1> HIDE DEF idx
<1>4. idx \in Seq(1..N) /\ Len(idx) = N
  <2>1. idx = [i \in 1..N |-> idx[i]] /\ \A i \in 1..N : idx[i] \in 1..N
    BY <1>3
  <2> QED BY <1>2, <2>1, Listed
<1>5. ASSUME NEW i \in 1..N
      PROVE  i \in S <=> \A j \in 1..(i - 1) : picked[i] \notin reached(j)
  <2>1. ASSUME NEW j \in 1..(i - 1) PROVE Members(rs, picked, picked[j]) = reached(j)
    <3>1. j \in 1..N
      BY <1>2
    <3> QED BY <1>2, <3>1, MembersAre DEF picks
  <2> HIDE DEF reached
  <2>2. i \in S <=> ~grouped(i)
    BY <1>2
  <2> QED BY <2>1, <2>2
<1> HIDE DEF S
<1>6. starts \in Seq(1..N) /\ \E pos : Selects(pos, starts, idx, S, N)
  BY <1>4, OnlyAre
<1>7. PICK pos : Selects(pos, starts, idx, S, N)
  BY <1>6
<1> DEFINE M == Len(starts)
<1>8. M \in Nat
  BY <1>6
<1>9. /\ pos \in [1..M -> 1..N] /\ \A j, k \in 1..M : j < k => pos[j] < pos[k]
      /\ \A k \in 1..M : starts[k] = idx[pos[k]]
      /\ \A i \in 1..N : idx[i] \in S <=> \E k \in 1..M : pos[k] = i
  BY <1>7 DEF Selects
<1> HIDE DEF M, starts
<1>10. \A k \in 1..M : starts[k] = pos[k] /\ pos[k] \in 1..N
  BY <1>3, <1>9
<1>11. \A j, k \in 1..M : j < k => starts[j] < starts[k]
  BY <1>9, <1>10
<1>12. \A i \in 1..N : i \in S <=> \E k \in 1..M : starts[k] = i
  BY <1>3, <1>9, <1>10
<1>13. M >= 1 /\ starts[1] = 1
  <2>1. 1 \in 1..N /\ \A j \in 1..(1 - 1) : FALSE
    BY <1>2
  <2>2. 1 \in S
    BY <1>5, <2>1
  <2>3. PICK k \in 1..M : starts[k] = 1
    BY <1>12, <2>1, <2>2
  <2>4. k = 1
    <3> SUFFICES ASSUME k # 1 PROVE FALSE
      OBVIOUS
    <3>1. 1 \in 1..M /\ 1 < k
      BY <1>8
    <3>2. starts[1] < 1 /\ starts[1] \in 1..N
      BY <1>10, <1>11, <2>3, <3>1
    <3> QED BY <1>2, <3>2
  <2> QED BY <1>8, <2>3, <2>4
<1>14. \A i \in 1..N : (\E k \in 1..M : starts[k] = i)
                         <=> \A j \in 1..(i - 1) : picked[i] \notin reached(j)
  BY <1>5, <1>12
<1> QED BY <1>1, <1>6, <1>11, <1>13, <1>14 DEF M, N, picks

LEMMA GroupsAre ==
  ASSUME NEW rs, Relating(rs), NEW T, NEW picked \in Seq(T), picked # <<>>
  PROVE  Grouped(rs, picked, JoinGroups(rs, picked))
<1> DEFINE N == Len(picked)  picks == ToSet(picked)
           reached(i) == ReachedFrom(rs, picked[i], picks)
           starts == Starts(rs, picked)  M == Len(starts)
           groups == [g \in DOMAIN starts |-> Only(picked, Members(rs, picked, picked[starts[g]]))]
<1>1. JoinGroups(rs, picked) = groups
  BY DEF JoinGroups
<1>2. /\ N \in Nat /\ DOMAIN picked = 1..N /\ picked \in Seq(picks)
      /\ \A i \in 1..N : picked[i] \in picks
      /\ \A b \in picks : \E i \in 1..N : picked[i] = b
  BY OwnElements DEF ToSet
<1>3. /\ starts \in Seq(1..N) /\ M >= 1 /\ starts[1] = 1
      /\ \A j, k \in 1..M : j < k => starts[j] < starts[k]
      /\ \A i \in 1..N : (\E k \in 1..M : starts[k] = i)
                           <=> \A j \in 1..(i - 1) : picked[i] \notin reached(j)
  BY StartsAre
<1>4. M \in Nat /\ DOMAIN starts = 1..M /\ \A g \in 1..M : starts[g] \in 1..N
  BY <1>3
<1> HIDE DEF N, picks, starts, M
<1>5. ASSUME NEW g \in 1..M
      PROVE  groups[g] \in Seq(picks) /\ ToSet(groups[g]) = reached(starts[g])
  <2>1. starts[g] \in 1..N /\ picked[starts[g]] \in picks
    BY <1>2, <1>4
  <2>2. Members(rs, picked, picked[starts[g]]) = reached(starts[g])
    BY <2>1, MembersAre DEF picks
  <2>3. reached(starts[g]) \subseteq picks
    BY <2>1, ReachedIs
  <2>4. groups[g] = Only(picked, reached(starts[g]))
    BY <1>4, <2>2
  <2> HIDE DEF groups, reached
  <2>5. /\ Only(picked, reached(starts[g])) \in Seq(picks)
        /\ ToSet(Only(picked, reached(starts[g]))) = picks \intersect reached(starts[g])
    BY <1>2, OnlyHas DEF picks
  <2> QED BY <2>3, <2>4, <2>5
<1>6. ASSUME NEW b \in picks PROVE \E g \in 1..M : b \in reached(starts[g])
  <2> DEFINE those == {i \in 1..N : b \in reached(i)}  n == Min(those)
  <2>1. PICK k \in 1..N : picked[k] = b
    BY <1>2
  <2>2. k \in those
    BY <2>1, ReachedIs
  <2>3. n \in those /\ \A i \in those : n <= i
    <3>1. those \in SUBSET Nat /\ those # {}
      BY <2>2
    <3> HIDE DEF those
    <3> QED BY <3>1, Least
  <2>4. n \in 1..N /\ b \in reached(n)
    BY <2>3
  <2>5. ASSUME NEW j \in 1..(n - 1), picked[n] \in reached(j) PROVE FALSE
    <3>1. j \in 1..N /\ ~(n <= j)
      BY <1>2, <2>4
    <3>2. reached(n) \subseteq reached(j)
      BY <1>2, <2>5, <3>1, ReachedOn
    <3>3. j \in those
      BY <2>4, <3>1, <3>2
    <3> QED BY <2>3, <3>1, <3>3
  <2> HIDE DEF n, reached
  <2>6. PICK g \in 1..M : starts[g] = n
    BY <1>3, <2>4, <2>5
  <2> QED BY <2>4, <2>6
<1>7. ASSUME NEW g \in 1..M, g # 1 PROVE reached(starts[g]) \intersect reached(1) = {}
  <2> SUFFICES ASSUME NEW b, b \in reached(starts[g]), b \in reached(1) PROVE FALSE
    OBVIOUS
  <2>1. 1 \in 1..M /\ 1 < g
    BY <1>4, <1>7
  <2>2. starts[g] \in 1..N /\ 1 \in 1..N /\ 1 < starts[g] /\ starts[g] \in Nat
    BY <1>2, <1>3, <1>4, <2>1
  <2>3. picked[starts[g]] \in picks /\ picked[1] \in picks
    BY <1>2, <2>2
  <2>4. picked[starts[g]] \in ReachedFrom(rs, b, picks)
    BY <2>3, ReachedBack
  <2>5. ReachedFrom(rs, b, picks) \subseteq reached(1)
    BY <2>3, ReachedOn
  <2>6. picked[starts[g]] \in reached(1)
    BY <2>4, <2>5
  <2> HIDE DEF reached
  <2>7. 1 \in 1..(starts[g] - 1)
    BY <2>2
  <2> QED BY <1>3, <2>2, <2>6, <2>7
<1>8. groups = [g \in 1..M |-> groups[g]] /\ Len(groups) = M /\ DOMAIN groups = 1..M
  BY <1>4
<1> HIDE DEF groups
<1>9. ASSUME NEW g \in 1..M PROVE \E x \in picks : ToSet(groups[g]) = ReachedFrom(rs, x, picks)
  BY <1>2, <1>4, <1>5
<1>10. 1 \in 1..M /\ ToSet(groups[1]) = reached(1)
  BY <1>3, <1>4, <1>5
<1>11. \A b \in picks : \E g \in 1..M : b \in ToSet(groups[g])
  <2> HIDE DEF reached
  <2> QED BY <1>5, <1>6
<1>12. \A g \in 1..M : g # 1 => ToSet(groups[g]) \intersect reached(1) = {}
  <2> HIDE DEF reached
  <2> QED BY <1>5, <1>7
<1>13. \A g \in 1..M : groups[g] \in Seq(picks)
  BY <1>5
<1>14. Grouped(rs, picked, groups)
  BY <1>4, <1>8, <1>9, <1>10, <1>11, <1>12, <1>13 DEF Grouped, picks
<1> QED BY <1>1, <1>14

LEMMA KnownAre ==
  ASSUME NEW g, NEW T, NEW s \in Seq(T)
  PROVE  Known(g, s) \in Seq(T) /\ ToSet(Known(g, s)) = ToSet(s) \intersect Ids(g.entities)
BY OnlyHas DEF Known

LEMMA QueryIs ==
  ASSUME NEW g, NEW s, Known(g, s) # <<>>
  PROVE  LET query == BuildSelect(g, s)
             picked == Known(g, s)
             plan == PlanJoins(g.relationships, picked)
         IN /\ query.included = plan.included /\ query.steps = plan.steps
            /\ query.groups = JoinGroups(g.relationships, picked)
            /\ query.remedy = Remedy(g, picked)
BY DEF BuildSelect

LEMMA Loner ==
  ASSUME NEW T, NEW s \in Seq(T), Len(s) = 1, NEW a \in ToSet(s), NEW b \in ToSet(s)
  PROVE  a = b
BY OwnElements DEF ToSet

LEMMA StatementIsTrue ==
  ASSUME Relating(graph.relationships), NEW T, selected \in Seq(T)
  PROVE  StatementTellsTheTruth
<1> DEFINE rs == graph.relationships
           picked == Known(graph, selected)
           picks == ToSet(picked)
           query == BuildSelect(graph, selected)
           plan == PlanJoins(rs, picked)
           groups == JoinGroups(rs, picked)
           first == ReachedFrom(rs, picked[1], picks)
           related(b) == \E a \in picks \ {b} : JoinColumns(rs, a, b) # None
<1> SUFFICES ASSUME picks # {}
             PROVE  /\ ToSet(query.included) = ReachedFrom(rs, Head(query.included), picks)
                    /\ \A i \in DOMAIN query.steps : query.steps[i].anchor <= i
                    /\ \A b \in picks :
                         /\ RowLabel(query, b) = "in the query" <=> b \in ToSet(query.included)
                         /\ RowLabel(query, b) = "not joined" => ~related(b)
  BY DEF StatementTellsTheTruth
<1>1. picked \in Seq(T) /\ picked # <<>> /\ Relating(rs)
  <2>1. picked \in Seq(T)
    BY KnownAre
  <2>2. picked # <<>>
    BY DEF ToSet
  <2> QED BY <2>1, <2>2
<1>2. query.included = plan.included /\ query.steps = plan.steps /\ query.groups = groups
  BY <1>1, QueryIs
<1> HIDE DEF query, picked, rs
<1>3. /\ Follows(rs, picks, picked[1], plan.included)
      /\ ToSet(plan.included) = first
      /\ \A i \in DOMAIN plan.steps : plan.steps[i].anchor <= i
  BY <1>1, PlanIs
<1>4. Grouped(rs, picked, groups)
  BY <1>1, GroupsAre
<1> HIDE DEF plan, groups
<1>5. Head(query.included) = picked[1]
  BY <1>2, <1>3 DEF Follows
<1>6. ASSUME NEW b \in picks
      PROVE  /\ RowLabel(query, b) = "in the query" <=> b \in first
             /\ RowLabel(query, b) = "not joined" => ~related(b)
  <2> DEFINE g == CHOOSE i \in DOMAIN groups : b \in ToSet(groups[i])
  <2>1. g \in DOMAIN groups /\ b \in ToSet(groups[g])
    BY <1>4 DEF Grouped
  <2>2. RowLabel(query, b) = IF g = 1 THEN "in the query"
                             ELSE IF Len(groups[g]) = 1 THEN "not joined" ELSE "joins others"
    BY <1>2 DEF RowLabel
  <2> HIDE DEF g
  <2>3. g = 1 <=> b \in first
    BY <1>4, <2>1 DEF Grouped
  <2>4. RowLabel(query, b) = "in the query" <=> g = 1
    BY <2>2
  <2>5. ASSUME RowLabel(query, b) = "not joined", related(b) PROVE FALSE
    <3>1. Len(groups[g]) = 1
      BY <2>2, <2>5
    <3>2. PICK a \in picks : a # b /\ JoinColumns(rs, a, b) # None
      BY <2>5
    <3>3. PICK x \in picks : ToSet(groups[g]) = ReachedFrom(rs, x, picks)
      BY <1>4, <2>1 DEF Grouped
    <3>4. JoinColumns(rs, b, a) # None
      BY <1>1, <3>2, JoinsBothWays
    <3>5. Closed(rs, picks, ReachedFrom(rs, x, picks))
      BY ReachedIs
    <3>6. a \in ToSet(groups[g])
      BY <2>1, <3>2, <3>3, <3>4, <3>5 DEF Closed
    <3>7. groups[g] \in Seq(picks)
      BY <1>4, <2>1 DEF Grouped
    <3> QED BY <2>1, <3>1, <3>2, <3>6, <3>7, Loner
  <2>6. RowLabel(query, b) = "in the query" <=> b \in first
    BY <2>3, <2>4
  <2> QED BY <2>5, <2>6
<1> HIDE DEF related, first
<1>7. ToSet(query.included) = first
  BY <1>2, <1>3
<1> QED BY <1>2, <1>3, <1>5, <1>6, <1>7 DEF first

LEMMA OnlyOfMore ==
  ASSUME NEW T, NEW s \in Seq(T), NEW S, NEW x \in T \intersect S
  PROVE  Only(Append(s, x), S) = Append(Only(s, S), x)
<1> DEFINE t == Append(s, x)  N == Len(s)
<1>1. t \in Seq(T) /\ Len(t) = N + 1 /\ N \in Nat /\ t[N + 1] = x /\ \A i \in 1..N : t[i] = s[i]
  BY Appended
<1> HIDE DEF t
<1>2. PICK up : Cutting(up, T, s, S)
  BY OnlyUpTo
<1>3. PICK to : Cutting(to, T, t, S)
  BY <1>1, OnlyUpTo
<1>4. /\ up[0] = <<>> /\ Only(s, S) = up[N]
      /\ \A n \in 1..N : up[n] = IF s[n] \in S THEN Append(up[n - 1], s[n]) ELSE up[n - 1]
  BY <1>2 DEF Cutting
<1>5. /\ to[0] = <<>> /\ Only(t, S) = to[N + 1]
      /\ \A n \in 1..(N + 1) : to[n] = IF t[n] \in S THEN Append(to[n - 1], t[n]) ELSE to[n - 1]
  BY <1>1, <1>3 DEF Cutting
<1> HIDE DEF N
<1> DEFINE U == {n \in Nat : n <= N => to[n] = up[n]}
<1>6. 0 \in U
  BY <1>4, <1>5
<1>7. ASSUME NEW n \in Nat, n \in U PROVE n + 1 \in U
  <2> SUFFICES ASSUME n + 1 <= N PROVE to[n + 1] = up[n + 1]
    OBVIOUS
  <2>1. /\ n + 1 \in 1..N /\ n + 1 \in 1..(N + 1) /\ n + 1 - 1 = n /\ n <= N
        /\ t[n + 1] = s[n + 1]
    BY <1>1
  <2>2. to[n] = up[n]
    BY <1>7, <2>1
  <2>3. up[n + 1] = IF s[n + 1] \in S THEN Append(up[n], s[n + 1]) ELSE up[n]
    BY <1>4, <2>1
  <2>4. to[n + 1] = IF t[n + 1] \in S THEN Append(to[n], t[n + 1]) ELSE to[n]
    BY <1>5, <2>1
  <2> QED BY <2>1, <2>2, <2>3, <2>4
<1>8. N \in U
  <2> HIDE DEF U
  <2> QED BY <1>1, <1>6, <1>7, CountingUp
<1>9. to[N] = Only(s, S)
  BY <1>1, <1>4, <1>8
<1>10. N + 1 \in 1..(N + 1) /\ N + 1 - 1 = N
  BY <1>1
<1>11. to[N + 1] = IF t[N + 1] \in S THEN Append(to[N], t[N + 1]) ELSE to[N]
  <2> DEFINE taken(n, m) == to[n] = IF t[n] \in S THEN Append(to[m], t[n]) ELSE to[m]
  <2>1. \A n \in 1..(N + 1) : taken(n, n - 1)
    BY <1>5
  <2> HIDE DEF taken
  <2>2. N \in Nat
    BY <1>1
  <2>3. taken(N + 1, N)
    BY <1>10, <2>1, <2>2
  <2> QED BY <2>3 DEF taken
<1> QED BY <1>1, <1>5, <1>9, <1>11 DEF t

LEMMA ImageFinite ==
  ASSUME NEW S, IsFiniteSet(S), NEW f
  PROVE  IsFiniteSet({f[x] : x \in S})
<1> DEFINE T == {f[x] : x \in S}  g == [x \in S |-> f[x]]
<1>1. g \in Surjection(S, T)
  BY DEF Surjection
<1> QED BY <1>1, FS_Surjection

(* The bridges are ranked in a list. *)
LEMMA BridgesAreListed ==
  ASSUME NEW g, g.entities \in Seq(ToSet(g.entities)), NEW picked
  PROVE  RankBridges(g, picked) \in Seq(ToSet(RankBridges(g, picked)))
<1> DEFINE B == Bridges(g, picked)  ids == Ids(g.entities)
           ranked == RankBridges(g, picked)
           groups == JoinGroups(g.relationships, picked)
           N == Cardinality(B)
<1>1. IsFiniteSet(ids)
  <2> DEFINE f == [i \in DOMAIN g.entities |-> g.entities[i].id]
  <2>1. DOMAIN g.entities = 1..Len(g.entities) /\ Len(g.entities) \in Nat
    OBVIOUS
  <2>2. IsFiniteSet(DOMAIN g.entities)
    BY <2>1, FS_Interval
  <2>3. ids = {f[i] : i \in DOMAIN g.entities}
    BY DEF Ids
  <2> HIDE DEF f, ids
  <2> QED BY <2>2, <2>3, ImageFinite
<1>2. IsFiniteSet(B)
  <2> DEFINE rest == ids \ ToSet(picked)
             f == [id \in rest |-> Bridge(g.relationships, groups, id)]
  <2>1. IsFiniteSet(rest)
    BY <1>1, FS_Difference
  <2>2. B \subseteq {f[id] : id \in rest}
    BY DEF Bridges
  <2> HIDE DEF rest, f, B
  <2>3. IsFiniteSet({f[id] : id \in rest})
    BY <2>1, ImageFinite
  <2> QED BY <2>2, <2>3, FS_Subset
<1>3. N \in Nat
  BY <1>2, FS_CardinalityType
<1>4. ranked = [n \in 1..N |-> ranked[n]]
  <2> DEFINE ranking(n) == CHOOSE x \in B : Cardinality({y \in B : ByMostUseful(y, x)}) = n - 1
  <2>1. ranked = [n \in 1..N |-> ranking(n)]
    BY DEF RankBridges, InOrder
  <2> HIDE DEF ranked, ranking, N
  <2> QED BY <2>1
<1> HIDE DEF ranked, N
<1>5. \A n \in 1..N : ranked[n] \in ToSet(ranked)
  BY <1>4 DEF ToSet
<1> QED BY <1>3, <1>4, <1>5, Listed DEF ranked

LEMMA OfferIs ==
  ASSUME NEW g, g.entities \in Seq(ToSet(g.entities)), NEW picked, Remedy(g, picked) # None
  PROVE  \E id \in Ids(g.entities) \ ToSet(picked) :
           /\ Remedy(g, picked) = Bridge(g.relationships, JoinGroups(g.relationships, picked), id)
           /\ 1 \in Remedy(g, picked).connects
<1> DEFINE S == {b \in Bridges(g, picked) : 1 \in b.connects}
           ranked == RankBridges(g, picked)
           offers == Only(ranked, S)
<1>1. offers \in Seq(ToSet(ranked)) /\ ToSet(offers) \subseteq S
  BY BridgesAreListed, OnlyHas
<1>2. Remedy(g, picked) = offers[1] /\ offers # <<>>
  BY DEF Remedy
<1> HIDE DEF offers, S
<1>3. 1 \in DOMAIN offers
  BY <1>1, <1>2
<1>4. offers[1] \in S
  BY <1>1, <1>3 DEF ToSet
<1> QED BY <1>2, <1>4 DEF S, Bridges

LEMMA RemedyIsOne ==
  ASSUME Relating(graph.relationships), graph.entities \in Seq(ToSet(graph.entities)),
         NEW T, selected \in Seq(T)
  PROVE  RemedyReconnects
<1> DEFINE rs == graph.relationships
           picked == Known(graph, selected)
           picks == ToSet(picked)
           query == BuildSelect(graph, selected)
           offer == query.remedy
           after == BuildSelect(graph, Append(selected, offer.entity))
           groups == JoinGroups(rs, picked)
<1> SUFFICES ASSUME offer # None
             PROVE  ToSet(query.included) \union {offer.entity}
                      \union UNION {ToSet(query.groups[g]) : g \in offer.connects}
                    \subseteq ToSet(after.included)
  BY DEF RemedyReconnects
<1>1. picked # <<>>
  BY DEF BuildSelect, Nothing
<1>2. /\ query.included = PlanJoins(rs, picked).included /\ query.groups = groups
      /\ offer = Remedy(graph, picked)
  BY <1>1, QueryIs
<1>3. PICK id \in Ids(graph.entities) \ picks :
        offer = Bridge(rs, groups, id) /\ 1 \in offer.connects
  BY <1>2, OfferIs
<1>4. offer.entity = id /\ offer.connects = {g \in DOMAIN groups : JoinsAny(rs, ToSet(groups[g]), id)}
  BY <1>3 DEF Bridge
<1> DEFINE X == T \union {id}
           more == Append(picked, id)
<1>5. Known(graph, Append(selected, id)) = more
  <2>1. selected \in Seq(X)
    OBVIOUS
  <2>2. id \in X \intersect Ids(graph.entities)
    OBVIOUS
  <2> QED BY <2>1, <2>2, OnlyOfMore DEF Known
<1>6. picked \in Seq(X)
  <2>1. picked \in Seq(T)
    BY KnownAre
  <2> HIDE DEF picked
  <2> QED BY <2>1
<1>7. more \in Seq(X) /\ more # <<>> /\ more[1] = picked[1] /\ ToSet(more) = picks \union {id}
  <2>1. /\ more \in Seq(X) /\ Len(more) = Len(picked) + 1 /\ ToSet(more) = picks \union {id}
        /\ \A i \in 1..Len(picked) : more[i] = picked[i]
    BY <1>6, Appended
  <2>2. Len(picked) \in Nat /\ Len(picked) >= 1
    BY <1>1, <1>6
  <2> HIDE DEF more, picked
  <2> QED BY <2>1, <2>2
<1>8. after.included = PlanJoins(rs, more).included
  <2>1. Known(graph, Append(selected, offer.entity)) = more
    BY <1>4, <1>5
  <2> HIDE DEF more, offer
  <2> QED BY <1>7, <2>1, QueryIs
<1>9. ToSet(query.included) = ReachedFrom(rs, picked[1], picks)
  <2> HIDE DEF picked
  <2> QED BY <1>1, <1>2, <1>6, PlanIs
<1> DEFINE reached(a) == ReachedFrom(rs, a, ToSet(more))
<1>10. ToSet(after.included) = reached(picked[1])
  <2> HIDE DEF more, after
  <2> QED BY <1>7, <1>8, PlanIs
<1> HIDE DEF query, after, offer, picked, more, rs
<1>11. Grouped(rs, picked, groups)
  BY <1>1, <1>6, GroupsAre DEF rs
<1>12. picked[1] \in picks /\ picks \subseteq ToSet(more) /\ picked[1] \in ToSet(more) /\ id \in ToSet(more)
  <2>1. 1 \in DOMAIN picked
    BY <1>1, <1>6
  <2> QED BY <1>7, <2>1 DEF ToSet
<1> HIDE DEF groups
<1>13. /\ reached(picked[1]) \subseteq ToSet(more) /\ picked[1] \in reached(picked[1])
       /\ Closed(rs, ToSet(more), reached(picked[1]))
  BY <1>12, ReachedIs
<1>14. ToSet(query.included) \subseteq reached(picked[1])
  BY <1>9, <1>12, ReachedFurther
<1> HIDE DEF picks, reached
<1>15. ASSUME NEW m \in picks, JoinColumns(rs, m, id) # None, m \in reached(picked[1])
       PROVE  id \in reached(picked[1])
  BY <1>12, <1>13, <1>15 DEF Closed
<1>16. \A g \in offer.connects : \E m \in ToSet(groups[g]) : JoinColumns(rs, m, id) # None
  BY <1>4 DEF JoinsAny
<1>17. \A g \in DOMAIN groups : ToSet(groups[g]) \subseteq picks
  <2>1. ASSUME NEW g \in DOMAIN groups PROVE ToSet(groups[g]) \subseteq picks
    <3>1. groups[g] \in Seq(picks)
      BY <1>11 DEF Grouped, picks
    <3> QED BY <3>1, OwnElements
  <2> QED BY <2>1
<1>18. id \in reached(picked[1])
  <2>1. PICK m \in ToSet(groups[1]) : JoinColumns(rs, m, id) # None
    BY <1>3, <1>16
  <2>2. ToSet(groups[1]) = ToSet(query.included) /\ 1 \in DOMAIN groups
    BY <1>9, <1>11 DEF Grouped, picks
  <2> QED BY <1>14, <1>15, <1>17, <2>1, <2>2
<1>19. ASSUME NEW g \in offer.connects PROVE ToSet(groups[g]) \subseteq reached(picked[1])
  <2>1. g \in DOMAIN groups
    BY <1>4
  <2>2. PICK m \in ToSet(groups[g]) : JoinColumns(rs, m, id) # None
    BY <1>16
  <2>3. m \in picks /\ m \in ToSet(more)
    BY <1>12, <1>17, <2>1
  <2>4. JoinColumns(rs, id, m) # None
    BY <2>2, JoinsBothWays DEF rs
  <2>5. m \in reached(picked[1])
    BY <1>12, <1>13, <1>18, <2>3, <2>4 DEF Closed
  <2>6. PICK x \in picks : ToSet(groups[g]) = ReachedFrom(rs, x, picks)
    BY <1>11, <2>1 DEF Grouped, picks
  <2> SUFFICES ASSUME NEW y \in ToSet(groups[g]) PROVE y \in reached(picked[1])
    OBVIOUS
  <2>7. x \in ReachedFrom(rs, m, picks)
    BY <2>2, <2>6, ReachedBack DEF rs
  <2>8. ReachedFrom(rs, x, picks) \subseteq ReachedFrom(rs, m, picks)
    BY <2>3, <2>7, ReachedOn
  <2>9. ReachedFrom(rs, m, picks) \subseteq ReachedFrom(rs, m, ToSet(more))
    BY <1>12, <2>3, ReachedFurther
  <2>10. ReachedFrom(rs, m, ToSet(more)) \subseteq reached(picked[1])
    BY <1>12, <2>5, ReachedOn DEF reached
  <2> QED BY <2>6, <2>8, <2>9, <2>10
<1> QED BY <1>2, <1>4, <1>10, <1>14, <1>18, <1>19

-----------------------------------------------------------------------------
(* The graph. *)

WellFormed(g) ==
  /\ g.entities \in Seq(ToSet(g.entities))
  /\ Relating(g.relationships)
  /\ \A r \in ToSet(g.relationships) : Pair(r) \subseteq Ids(g.entities)
  /\ \A r \in ToSet(g.relationships), o \in ToSet(g.overrides) :
       Resolves(o, g.entities) /\ Pair(o) = Pair(r) =>
         o.action = "join" /\ r = Relationship("admin_override", o.source, o.target)

(* What is in the catalog's constraints does not matter here, only that   *)
(* it is a finite list.                                                    *)
LEMMA DeclaredAreListed ==
  ASSUME NEW c \in Captures
  PROVE  DeclaredRelationships(c[1]) \in Seq(ToSet(DeclaredRelationships(c[1])))
<1> DEFINE cat == c[1]  keys == cat.foreignKeys
           row(k, o) ==
             [name |-> keys[k].name, ord |-> o, key |-> k,
              source |-> End(keys[k].source.entity, keys[k].source.columns[o]),
              target |-> End(keys[k].target.entity, keys[k].target.columns[o])]
           rowsOf(k) == {row(k, o) : o \in DOMAIN keys[k].source.columns}
           rowSet == UNION {rowsOf(k) : k \in DOMAIN keys}
           rows == ForeignKeyRows(cat)
           D == DeclaredRelationships(cat)
<1>1. /\ keys \in Seq(ToSet(keys))
      /\ \A k \in ToSet(keys) : k.source.columns \in Seq(ToSet(k.source.columns))
  BY CapturesAreCatalogs
<1> HIDE DEF keys
<1>2. DOMAIN keys = 1..Len(keys) /\ Len(keys) \in Nat /\ IsFiniteSet(DOMAIN keys)
  BY <1>1, FS_Interval
<1>3. ASSUME NEW k \in DOMAIN keys PROVE IsFiniteSet(rowsOf(k))
  <2> DEFINE cols == keys[k].source.columns
             f == [o \in DOMAIN cols |-> row(k, o)]
  <2>1. keys[k] \in ToSet(keys)
    BY DEF ToSet
  <2>2. cols \in Seq(ToSet(cols))
    BY <1>1, <2>1
  <2> HIDE DEF cols
  <2>3. IsFiniteSet(DOMAIN cols)
    BY <2>2, FS_Interval
  <2>4. {f[o] : o \in DOMAIN cols} = {row(k, o) : o \in DOMAIN cols}
    OBVIOUS
  <2> HIDE DEF f, row
  <2>5. IsFiniteSet({row(k, o) : o \in DOMAIN cols})
    BY <2>3, <2>4, ImageFinite
  <2> QED BY <2>5 DEF cols
<1> HIDE DEF row, rowsOf
<1>4. IsFiniteSet(rowSet)
  <2> DEFINE f == [k \in DOMAIN keys |-> rowsOf(k)]
             fs == {f[k] : k \in DOMAIN keys}
  <2>1. IsFiniteSet(fs)
    <3> HIDE DEF f
    <3> QED BY <1>2, ImageFinite
  <2>2. fs = {rowsOf(k) : k \in DOMAIN keys}
    OBVIOUS
  <2>3. \A S \in fs : IsFiniteSet(S)
    BY <1>3
  <2> HIDE DEF fs
  <2>4. IsFiniteSet(UNION fs)
    BY <2>1, <2>3, FS_UNION
  <2> QED BY <2>2, <2>4
<1> DEFINE N == Cardinality(rowSet)
<1>5. N \in Nat
  BY <1>4, FS_CardinalityType
<1>6. DOMAIN rows = 1..N
  BY DEF ForeignKeyRows, InOrder, rowsOf, row, keys
<1> HIDE DEF rows, N, rowSet
<1> DEFINE nameSet == {rows[i].name : i \in DOMAIN rows}
           M == Cardinality(nameSet)
<1>7. M \in Nat
  <2> DEFINE f == [i \in DOMAIN rows |-> rows[i].name]
  <2>1. IsFiniteSet(DOMAIN rows)
    BY <1>5, <1>6, FS_Interval
  <2>2. {f[i] : i \in DOMAIN rows} = nameSet
    OBVIOUS
  <2> HIDE DEF f, nameSet
  <2>3. IsFiniteSet(nameSet)
    BY <2>1, <2>2, ImageFinite
  <2> QED BY <2>3, FS_CardinalityType
<1>8. D = [n \in 1..M |-> D[n]]
  <2> DEFINE names == InOrder(nameSet, <)
             one(n) == OneRelationship(Only(rows, {x \in ToSet(rows) : x.name = names[n]}))
  <2>1. D = [n \in DOMAIN names |-> one(n)]
    BY DEF DeclaredRelationships, rows
  <2>2. DOMAIN names = 1..M
    BY DEF InOrder
  <2> HIDE DEF D, names, one, M
  <2> QED BY <2>1, <2>2
<1> HIDE DEF D, M
<1>9. \A n \in 1..M : D[n] \in ToSet(D)
  BY <1>8 DEF ToSet
<1> QED BY <1>7, <1>8, <1>9, Listed DEF D

LEMMA EntitiesAre ==
  ASSUME NEW c \in Captures
  PROVE  LET E == Entities(c[1])
         IN /\ E \in Seq(ToSet(E))
            /\ \A i \in DOMAIN E : E[i].columns \in Seq(ToSet(E[i].columns))
<1> DEFINE cat == c[1]  E == Entities(cat)  tables == cat.tables
           referencing == {row.source : row \in ToSet(ForeignKeyRows(cat))}
           column(t, x) == [name |-> x.name, keyOf |-> x.keyOf,
                            pk |-> x.name \in ToSet(t.primaryKey),
                            fk |-> End(t.id, x.name) \in referencing]
           columns(t) == [j \in DOMAIN t.columns |-> column(t, t.columns[j])]
           entity(t) == [id |-> t.id, of |-> t.of, primaryKey |-> t.primaryKey,
                         columns |-> columns(t)]
<1>1. E = [i \in DOMAIN tables |-> entity(tables[i])]
  BY DEF Entities
<1>2. /\ tables \in Seq(ToSet(tables))
      /\ \A t \in ToSet(tables) : t.columns \in Seq(ToSet(t.columns))
  BY CapturesAreCatalogs
<1> HIDE DEF E, tables, column
<1>3. DOMAIN tables = 1..Len(tables) /\ Len(tables) \in Nat
  BY <1>2
<1>4. \A i \in 1..Len(tables) : E[i] = entity(tables[i])
  BY <1>1, <1>3
<1>5. E \in Seq(ToSet(E)) /\ Len(E) = Len(tables)
  <2>1. E = [i \in 1..Len(tables) |-> E[i]]
    <3> HIDE DEF entity
    <3> QED BY <1>1, <1>3
  <2>2. \A i \in 1..Len(tables) : E[i] \in ToSet(E)
    BY <2>1 DEF ToSet
  <2> QED BY <1>3, <2>1, <2>2, Listed
<1>6. ASSUME NEW i \in DOMAIN E PROVE E[i].columns \in Seq(ToSet(E[i].columns))
  <2> DEFINE t == tables[i]  cs == columns(t)  N == Len(t.columns)
  <2>1. i \in 1..Len(tables) /\ t \in ToSet(tables)
    BY <1>3, <1>5, OwnElements DEF ToSet
  <2>2. t.columns \in Seq(ToSet(t.columns))
    BY <1>2, <2>1
  <2>3. E[i].columns = cs
    <3>1. E[i] = entity(t)
      <4> HIDE DEF entity
      <4> QED BY <1>4, <2>1
    <3>2. entity(t).columns = cs
      <4> HIDE DEF columns
      <4> QED OBVIOUS
    <3> HIDE DEF entity, cs
    <3> QED BY <3>1, <3>2
  <2> HIDE DEF t
  <2>4. N \in Nat /\ DOMAIN t.columns = 1..N
    BY <2>2
  <2>5. cs = [j \in 1..N |-> cs[j]]
    BY <2>4
  <2> HIDE DEF cs
  <2>6. \A j \in 1..N : cs[j] \in ToSet(cs)
    BY <2>5 DEF ToSet
  <2>7. cs \in Seq(ToSet(cs))
    BY <2>4, <2>5, <2>6, Listed
  <2> QED BY <2>3, <2>7
<1> QED BY <1>5, <1>6 DEF E

(* A guess is about two tables of the graph. *)
LEMMA GuessesAre ==
  ASSUME NEW E, E \in Seq(ToSet(E)),
         \A i \in DOMAIN E : E[i].columns \in Seq(ToSet(E[i].columns))
  PROVE  \E G : /\ SurrogateKeys(E) \o SameNamedKeys(E) \in Seq(G)
                /\ \A r \in G : Pair(r) \subseteq Ids(E)
<1> DEFINE candidate(i, j, k) == [from |-> E[i], column |-> E[i].columns[j], to |-> E[k]]
           to(i, j) == {candidate(i, j, k) : k \in DOMAIN E}
           from(i) == UNION {to(i, j) : j \in DOMAIN E[i].columns}
           All == UNION {from(i) : i \in DOMAIN E}
           G == {Guess(x) : x \in All}
           N == Len(E)
<1>1. N \in Nat /\ DOMAIN E = 1..N
  BY OwnElements
<1> HIDE DEF N
<1> DEFINE toAll(i, j) == [k \in DOMAIN E |-> candidate(i, j, k)]
           ofOne(i) == [j \in DOMAIN E[i].columns |-> toAll(i, j)]
<1>2. ASSUME NEW i \in 1..N, NEW j \in DOMAIN E[i].columns PROVE toAll(i, j) \in Seq(All)
  <2> DEFINE s == toAll(i, j)
  <2>1. s = [k \in 1..N |-> s[k]] /\ \A k \in 1..N : s[k] = candidate(i, j, k)
    BY <1>1
  <2>2. \A k \in 1..N : candidate(i, j, k) \in All
    <3>1. \A k \in 1..N : candidate(i, j, k) \in to(i, j)
      <4> HIDE DEF candidate
      <4> QED BY <1>1
    <3> HIDE DEF to, candidate
    <3>2. to(i, j) \subseteq from(i)
      OBVIOUS
    <3> HIDE DEF from
    <3>3. from(i) \subseteq All
      BY <1>1
    <3> HIDE DEF All
    <3> QED BY <3>1, <3>2, <3>3
  <2>3. \A k \in 1..N : s[k] \in All
    <3> HIDE DEF s, candidate, All
    <3> QED BY <2>1, <2>2
  <2> HIDE DEF s, All
  <2> QED BY <1>1, <2>1, <2>3, Listed DEF s
<1> HIDE DEF All, toAll
<1>3. ASSUME NEW i \in 1..N PROVE FlattenSeq(ofOne(i)) \in Seq(All)
  <2> DEFINE s == ofOne(i)  M == Len(E[i].columns)
  <2>1. M \in Nat /\ DOMAIN E[i].columns = 1..M
    BY <1>1, OwnElements
  <2> HIDE DEF M
  <2>2. s = [j \in 1..M |-> s[j]] /\ \A j \in 1..M : s[j] \in Seq(All)
    BY <1>2, <2>1
  <2> HIDE DEF s
  <2>3. s \in Seq(Seq(All))
    BY <2>1, <2>2, Listed
  <2>4. FlattenSeq(s) \in Seq(All)
    BY <2>3, Flattened
  <2> QED BY <2>4 DEF s
<1>4. Candidates(E) \in Seq(All)
  <2> DEFINE s == [i \in DOMAIN E |-> FlattenSeq(ofOne(i))]
  <2>1. Candidates(E) = FlattenSeq(s)
    BY DEF Candidates, toAll
  <2> HIDE DEF ofOne
  <2>2. s = [i \in 1..N |-> s[i]] /\ \A i \in 1..N : s[i] \in Seq(All)
    BY <1>1, <1>3
  <2> HIDE DEF s
  <2>3. s \in Seq(Seq(All))
    BY <1>1, <2>2, Listed
  <2> QED BY <2>1, <2>3, Flattened
<1>5. ASSUME NEW meant PROVE Matches(E, meant) \in Seq(G)
  <2> DEFINE cs == Only(Candidates(E), meant)  s == [n \in DOMAIN cs |-> Guess(cs[n])]  M == Len(cs)
  <2>1. cs \in Seq(All)
    BY <1>4, OnlyHas
  <2>2. Matches(E, meant) = s
    BY DEF Matches
  <2> HIDE DEF cs
  <2>3. M \in Nat /\ DOMAIN cs = 1..M /\ \A n \in 1..M : cs[n] \in All
    BY <2>1
  <2> HIDE DEF M
  <2>4. s = [n \in 1..M |-> s[n]] /\ \A n \in 1..M : s[n] \in G
    BY <2>3
  <2> HIDE DEF s, G
  <2> QED BY <2>2, <2>3, <2>4, Listed
<1> HIDE DEF G
<1>6. SurrogateKeys(E) \o SameNamedKeys(E) \in Seq(G)
  <2>1. SurrogateKeys(E) \in Seq(G) /\ SameNamedKeys(E) \in Seq(G)
    BY <1>5 DEF SurrogateKeys, SameNamedKeys
  <2> QED BY <2>1
<1>7. ASSUME NEW r \in G PROVE Pair(r) \subseteq Ids(E)
  <2>1. PICK x \in All : r = Guess(x)
    BY DEF G
  <2>2. PICK i \in DOMAIN E : x \in from(i)
    <3> HIDE DEF from
    <3> QED BY <2>1 DEF All
  <2>3. PICK j \in DOMAIN E[i].columns : x \in to(i, j)
    <3> HIDE DEF to
    <3> QED BY <2>2
  <2>4. PICK k \in DOMAIN E : x.from = E[i] /\ x.to = E[k]
    BY <2>3
  <2>5. Pair(r) = {E[i].id, E[k].id}
    BY <2>1, <2>4 DEF Guess, Pair, Relationship, End
  <2> QED BY <2>5 DEF Ids
<1> QED BY <1>6, <1>7

LEMMA OverridesAre ==
  ASSUME NEW E, NEW ov, ov \in Seq(ToSet(ov))
  PROVE  /\ Joining(E, ov) \in Seq(ToSet(ov))
         /\ \A o \in ToSet(Joining(E, ov)) : o \in ToSet(ov) /\ Resolves(o, E) /\ o.action = "join"
         /\ \A o \in ToSet(ov) : Resolves(o, E) => Pair(o) \in Pairs(Resolved(E, ov))
<1> DEFINE resolved == Resolved(E, ov)  S == {o \in ToSet(ov) : o.action = "join"}
<1>1. resolved \in Seq(ToSet(ov)) /\ ToSet(resolved) = {o \in ToSet(ov) : Resolves(o, E)}
  <2> DEFINE R == {o \in ToSet(ov) : Resolves(o, E)}
  <2>1. resolved = Only(ov, R)
    BY DEF Resolved
  <2>2. ToSet(ov) \intersect R = R
    OBVIOUS
  <2> HIDE DEF R, resolved
  <2>3. resolved \in Seq(ToSet(ov)) /\ ToSet(resolved) = R
    BY <2>1, <2>2, OnlyHas
  <2> QED BY <2>3 DEF R
<1>2. Joining(E, ov) = Only(resolved, S)
  BY DEF Joining
<1> HIDE DEF resolved
<1>3. Joining(E, ov) \in Seq(ToSet(ov)) /\ ToSet(Joining(E, ov)) = ToSet(resolved) \intersect S
  <2> HIDE DEF S
  <2> QED BY <1>1, <1>2, OnlyHas
<1>4. ASSUME NEW o \in ToSet(ov), Resolves(o, E) PROVE Pair(o) \in Pairs(resolved)
  <2>1. o \in ToSet(resolved)
    BY <1>1, <1>4
  <2> QED BY <2>1 DEF ToSet, Pairs
<1> QED BY <1>1, <1>3, <1>4 DEF resolved

LEMMA GraphsAreWellFormed ==
  ASSUME NEW g \in Graphs
  PROVE  WellFormed(g)
<1>1. PICK c \in Captures : g = Graph(c[1], c[2])
  BY DEF Graphs
<1> DEFINE ov == c[2]  E == Entities(c[1])  D == DeclaredRelationships(c[1])
           J == Joining(E, ov)
           claimed == Pairs(Resolved(E, ov))
           K == Kept(E, D, claimed)
           M == Emit(claimed \union Pairs(K), SurrogateKeys(E) \o SameNamedKeys(E))
           rs == Asserted(J) \o K \o M
<1>2. g.entities = E /\ g.overrides = ov /\ g.relationships = rs
  BY <1>1 DEF Graph, InferRelationships
<1>3. ov \in Seq(ToSet(ov)) /\ \A o, p \in ToSet(ov) : Pair(o) = Pair(p) => o = p
  BY CapturesAreCatalogs
<1>4. E \in Seq(ToSet(E)) /\ \A i \in DOMAIN E : E[i].columns \in Seq(ToSet(E[i].columns))
  BY EntitiesAre
<1>5. D \in Seq(ToSet(D))
  BY DeclaredAreListed
<1> HIDE DEF ov, E, D
<1>6. /\ J \in Seq(ToSet(ov))
      /\ \A o \in ToSet(J) : o \in ToSet(ov) /\ Resolves(o, E) /\ o.action = "join"
      /\ \A o \in ToSet(ov) : Resolves(o, E) => Pair(o) \in claimed
  BY <1>3, OverridesAre
<1> HIDE DEF J, claimed
<1> DEFINE A == {Relationship("admin_override", o.source, o.target) : o \in ToSet(J)}
<1>7. Asserted(J) \in Seq(A)
  <2> DEFINE s == Asserted(J)  N == Len(J)
  <2>1. N \in Nat /\ DOMAIN J = 1..N /\ \A i \in 1..N : J[i] \in ToSet(J)
    BY <1>6, OwnElements DEF ToSet
  <2> HIDE DEF N
  <2>2. s = [i \in 1..N |-> s[i]]
    BY <2>1 DEF Asserted
  <2>3. \A i \in 1..N : s[i] = Relationship("admin_override", J[i].source, J[i].target)
    BY <2>1 DEF Asserted
  <2> HIDE DEF s
  <2>4. \A i \in 1..N : s[i] \in A
    BY <2>1, <2>3
  <2> HIDE DEF A
  <2> QED BY <2>1, <2>2, <2>4, Listed DEF s
<1>8. K \in Seq(ToSet(D)) /\ ToSet(K) \subseteq {r \in ToSet(D) : Pair(r) \subseteq Ids(E) /\ Pair(r) \notin claimed}
  <2> DEFINE S == {r \in ToSet(D) : Pair(r) \subseteq Ids(E) /\ Pair(r) \notin claimed}
  <2>1. K = Only(D, S)
    BY DEF Kept
  <2> HIDE DEF K, S
  <2>2. K \in Seq(ToSet(D)) /\ ToSet(K) \subseteq S
    BY <1>5, <2>1, OnlyHas
  <2> QED BY <2>2 DEF S
<1> HIDE DEF K
<1>9. PICK G : SurrogateKeys(E) \o SameNamedKeys(E) \in Seq(G) /\ \A r \in G : Pair(r) \subseteq Ids(E)
  BY <1>4, GuessesAre
<1>10. M \in Seq(G) /\ ToSet(M) \subseteq G /\ \A r \in ToSet(M) : Pair(r) \notin claimed
  <2>1. M \in Seq(G) /\ \A r \in ToSet(M) : Pair(r) \notin claimed \union Pairs(K)
    BY <1>9, EmitIs
  <2> HIDE DEF M
  <2> QED BY <2>1, OwnElements
<1> HIDE DEF M
<1> DEFINE T == A \union ToSet(D) \union G
<1>11. rs \in Seq(T) /\ ToSet(rs) = ToSet(Asserted(J)) \union ToSet(K) \union ToSet(M)
  <2>1. Asserted(J) \in Seq(T) /\ K \in Seq(T) /\ M \in Seq(T)
    <3> HIDE DEF A
    <3> QED BY <1>7, <1>8, <1>10
  <2> HIDE DEF T
  <2>2. Asserted(J) \o K \in Seq(T) /\ ToSet(Asserted(J) \o K) = ToSet(Asserted(J)) \union ToSet(K)
    BY <2>1, Joined
  <2> DEFINE two == Asserted(J) \o K
  <2> HIDE DEF two
  <2>3. two \in Seq(T) /\ ToSet(two) = ToSet(Asserted(J)) \union ToSet(K)
    BY <2>2 DEF two
  <2>4. two \o M \in Seq(T) /\ ToSet(two \o M) = ToSet(two) \union ToSet(M)
    BY <2>1, <2>3, Joined
  <2>5. rs = two \o M
    BY DEF two
  <2> HIDE DEF rs
  <2> QED BY <2>3, <2>4, <2>5
<1>12. ToSet(Asserted(J)) \subseteq A
  <2> HIDE DEF A
  <2> QED BY <1>7, OwnElements
<1>13. ASSUME NEW r \in A
       PROVE  \E o \in ToSet(J) : r = Relationship("admin_override", o.source, o.target) /\ Pair(r) = Pair(o)
  BY DEF Relationship, Pair
<1> HIDE DEF rs, T, A
<1>14. rs \in Seq(ToSet(rs))
  BY <1>11, OwnElements
<1>15. ASSUME NEW r \in ToSet(rs) PROVE Pair(r) \subseteq Ids(E)
  <2>1. CASE r \in A
    BY <1>6, <1>13, <2>1 DEF Resolves
  <2>2. CASE r \in ToSet(K)
    BY <1>8, <2>2
  <2>3. CASE r \in ToSet(M)
    BY <1>9, <1>10, <2>3
  <2> QED BY <1>11, <1>12, <2>1, <2>2, <2>3
<1>16. ASSUME NEW r \in ToSet(rs), NEW o \in ToSet(ov), Resolves(o, E), Pair(o) = Pair(r)
       PROVE  o.action = "join" /\ r = Relationship("admin_override", o.source, o.target)
  <2>1. Pair(r) \in claimed
    BY <1>6, <1>16
  <2>2. r \in A
    BY <1>8, <1>10, <1>11, <1>12, <2>1
  <2>3. PICK p \in ToSet(J) : r = Relationship("admin_override", p.source, p.target) /\ Pair(r) = Pair(p)
    BY <1>13, <2>2
  <2>4. p = o
    BY <1>3, <1>6, <1>16, <2>3
  <2> QED BY <1>6, <2>3, <2>4
<1>17. Relating(rs)
  BY <1>2, <1>14, NoneIsNothing DEF Relating
<1> QED BY <1>2, <1>4, <1>15, <1>16, <1>17 DEF WellFormed

LEMMA OverridesAreFollowed ==
  ASSUME WellFormed(graph), NEW T, selected \in Seq(T)
  PROVE  JoinsFollowOverrides
<1> DEFINE rs == graph.relationships
           picked == Known(graph, selected)
           query == BuildSelect(graph, selected)
           plan == PlanJoins(rs, picked)
           anchor(i) == query.included[query.steps[i].anchor]
           joined(i) == query.included[i + 1]
<1> SUFFICES ASSUME NEW i \in DOMAIN query.steps,
                    NEW o \in ToSet(graph.overrides),
                    Resolves(o, graph.entities), Pair(o) = {anchor(i), joined(i)}
             PROVE  /\ o.action = "join"
                    /\ query.steps[i].on = IF o.source.entity = anchor(i)
                                           THEN [anchor |-> o.source.columns, joined |-> o.target.columns]
                                           ELSE [anchor |-> o.target.columns, joined |-> o.source.columns]
  BY DEF JoinsFollowOverrides
<1>1. picked # <<>>
  BY DEF BuildSelect, Nothing
<1>2. picked \in Seq(T) /\ Relating(rs)
  BY KnownAre DEF WellFormed
<1>3. query.included = plan.included /\ query.steps = plan.steps
  BY <1>1, QueryIs
<1> HIDE DEF query, picked
<1>4. PICK k \in Usable(rs, anchor(i), joined(i)) : query.steps[i].on = Told(rs[k], anchor(i))
  <2>1. \A n \in DOMAIN plan.steps :
          \E k \in Usable(rs, plan.included[plan.steps[n].anchor], plan.included[n + 1]) :
            plan.steps[n].on = Told(rs[k], plan.included[plan.steps[n].anchor])
    BY <1>1, <1>2, PlanIs
  <2> HIDE DEF plan
  <2> QED BY <1>3, <2>1
<1> DEFINE r == rs[k]
<1>5. r \in ToSet(rs) /\ Pair(r) = {anchor(i), joined(i)}
  BY DEF Usable, ToSet
<1>6. o.action = "join" /\ r = Relationship("admin_override", o.source, o.target)
  BY <1>5 DEF WellFormed
<1>7. r.source = o.source /\ r.target = o.target
  BY <1>6 DEF Relationship
<1> HIDE DEF r, anchor
<1> QED BY <1>4, <1>6, <1>7 DEF Told, r

-----------------------------------------------------------------------------
(* Key tags. *)

KeyTags == [role : {"pk", "fk"}, guess : BOOLEAN]

Assign(old, role, guess) ==
  IF old = None THEN [role |-> role, guess |-> guess]
  ELSE IF Rank(role, guess) > Rank(old.role, old.guess)
       THEN [role |-> role, guess |-> guess] ELSE old

Certain(v) == v \in KeyTags /\ v.guess = FALSE

LEMMA AssignIs ==
  ASSUME NEW old \in KeyTags \union {None}, NEW role \in {"pk", "fk"}, NEW guess \in BOOLEAN
  PROVE  /\ Assign(old, role, guess) \in KeyTags
         /\ Certain(old) \/ guess = FALSE => Certain(Assign(old, role, guess))
<1>1. None \notin KeyTags
  BY NoneIsNothing DEF KeyTags
<1>2. [role |-> role, guess |-> guess] \in KeyTags
  BY DEF KeyTags
<1>3. CASE old = None
  BY <1>1, <1>2, <1>3 DEF Assign, Certain
<1>4. CASE old \in KeyTags
  <2>1. old # None /\ old.role \in {"pk", "fk"} /\ old.guess \in BOOLEAN
    BY <1>1, <1>4 DEF KeyTags
  <2>2. Assign(old, role, guess) = IF Rank(role, guess) > Rank(old.role, old.guess)
                                   THEN [role |-> role, guess |-> guess] ELSE old
    BY <2>1 DEF Assign
  <2>3. ASSUME Certain(old) \/ guess = FALSE PROVE Certain(Assign(old, role, guess))
    <3>1. CASE Rank(role, guess) > Rank(old.role, old.guess)
      <4>1. guess = FALSE
        <5> SUFFICES ASSUME guess = TRUE PROVE FALSE
          OBVIOUS
        <5>1. old.guess = FALSE
          BY <2>3 DEF Certain
        <5>2. Rank(role, TRUE) <= 1 /\ Rank(old.role, FALSE) >= 2
          BY DEF Rank
        <5>3. Rank(role, TRUE) \in Nat /\ Rank(old.role, FALSE) \in Nat
          BY DEF Rank
        <5>4. Rank(role, guess) = Rank(role, TRUE) /\ Rank(old.role, old.guess) = Rank(old.role, FALSE)
          BY <5>1, Zenon
        <5>5. Rank(role, TRUE) > Rank(old.role, FALSE)
          BY <3>1, <5>4, Zenon
        <5> DEFINE a == Rank(role, TRUE)  b == Rank(old.role, FALSE)
        <5>6. a <= 1 /\ b >= 2 /\ a \in Nat /\ b \in Nat /\ a > b
          BY <5>2, <5>3, <5>5
        <5> HIDE DEF a, b
        <5> QED BY <5>6
      <4> QED BY <1>2, <2>2, <3>1, <4>1 DEF Certain
    <3>2. CASE ~(Rank(role, guess) > Rank(old.role, old.guess))
      <4>1. old.guess = FALSE
        <5> SUFFICES ASSUME old.guess = TRUE, guess = FALSE PROVE FALSE
          BY <2>1, <2>3 DEF Certain
        <5>1. Rank(role, FALSE) >= 2 /\ Rank(old.role, TRUE) <= 1
          BY DEF Rank
        <5>2. Rank(role, FALSE) \in Nat /\ Rank(old.role, TRUE) \in Nat
          BY DEF Rank
        <5>3. Rank(role, guess) = Rank(role, FALSE) /\ Rank(old.role, old.guess) = Rank(old.role, TRUE)
          BY Zenon
        <5>4. ~(Rank(role, FALSE) > Rank(old.role, TRUE))
          BY <3>2, <5>3, Zenon
        <5> DEFINE a == Rank(role, FALSE)  b == Rank(old.role, TRUE)
        <5>5. a >= 2 /\ b <= 1 /\ a \in Nat /\ b \in Nat /\ ~(a > b)
          BY <5>1, <5>2, <5>4
        <5> HIDE DEF a, b
        <5> QED BY <5>5
      <4> QED BY <1>4, <2>2, <3>2, <4>1 DEF Certain
    <3> QED BY <3>1, <3>2
  <2> QED BY <1>2, <1>4, <2>2, <2>3
<1> QED BY <1>3, <1>4

(* A tag where an admin's relationship ends is certain. *)
LEMMA KeyRoleIs ==
  ASSUME NEW g, Relating(g.relationships), NEW r \in ToSet(g.relationships),
         r.origin = "admin_override", NEW end \in {r.source, r.target},
         NEW x \in ToSet(end.columns)
  PROVE  Certain(KeyRole(g, end.entity, x))
<1> DEFINE id == end.entity
           flags == CHOOSE c \in ToSet(EntityOf(g.entities, id).columns) : c.name = x
           start == IF ~flags.pk /\ ~flags.fk THEN None
                    ELSE [role |-> IF flags.pk THEN "pk" ELSE "fk", guess |-> FALSE]
           hangs(e) == e.entity = id /\ x \in ToSet(e.columns)
           edge(old, q) ==
             LET one == IF hangs(q.target) THEN Assign(old, "pk", Guessed(q)) ELSE old
             IN IF hangs(q.source) THEN Assign(one, "fk", Guessed(q)) ELSE one
           rs == Only(g.relationships, {q \in ToSet(g.relationships) : q.origin # "declared"})
           N == Len(rs)
           V == KeyTags \union {None}
           P(f) == f = [n \in 0..N |-> IF n = 0 THEN start ELSE edge(f[n - 1], rs[n])]
           upTo == CHOOSE f : P(f)
           F == [n \in 1..N |-> [v \in V |-> edge(v, rs[n])]]
<1>1. KeyRole(g, id, x) = upTo[N]
  BY DEF KeyRole, Assign
<1>2. rs \in Seq(ToSet(g.relationships)) /\ r \in ToSet(rs)
  <2> DEFINE S == {q \in ToSet(g.relationships) : q.origin # "declared"}
  <2>1. r \in S
    OBVIOUS
  <2> HIDE DEF S
  <2> QED BY <2>1, OnlyHas DEF Relating
<1> HIDE DEF rs
<1>3. N \in Nat /\ DOMAIN rs = 1..N
  BY <1>2
<1>4. PICK m \in 1..N : rs[m] = r
  BY <1>2, <1>3 DEF ToSet
<1>5. start \in V
  <2>1. [role |-> IF flags.pk THEN "pk" ELSE "fk", guess |-> FALSE] \in KeyTags
    BY DEF KeyTags
  <2> QED BY <2>1
<1> HIDE DEF N, start
<1>6. ASSUME NEW v \in V, NEW q
      PROVE  /\ edge(v, q) \in V
             /\ Certain(v) => Certain(edge(v, q))
             /\ (hangs(q.source) \/ hangs(q.target)) /\ ~Guessed(q) => Certain(edge(v, q))
  <2> DEFINE one == IF hangs(q.target) THEN Assign(v, "pk", Guessed(q)) ELSE v
             two == IF hangs(q.source) THEN Assign(one, "fk", Guessed(q)) ELSE one
  <2>1. Guessed(q) \in BOOLEAN
    BY DEF Guessed
  <2>2. /\ one \in V /\ (Certain(v) => Certain(one))
        /\ hangs(q.target) /\ ~Guessed(q) => Certain(one)
    <3>1. CASE hangs(q.target)
      <4>1. /\ Assign(v, "pk", Guessed(q)) \in KeyTags
            /\ Certain(v) \/ Guessed(q) = FALSE => Certain(Assign(v, "pk", Guessed(q)))
        BY <2>1, AssignIs
      <4>2. one = Assign(v, "pk", Guessed(q))
        BY <3>1
      <4> HIDE DEF one, hangs
      <4> QED BY <2>1, <4>1, <4>2
    <3>2. CASE ~hangs(q.target)
      <4>1. one = v
        BY <3>2
      <4> HIDE DEF one, hangs
      <4> QED BY <3>2, <4>1
    <3> QED BY <3>1, <3>2
  <2> HIDE DEF one
  <2>3. /\ two \in V /\ (Certain(one) => Certain(two))
        /\ hangs(q.source) /\ ~Guessed(q) => Certain(two)
    <3>1. CASE hangs(q.source)
      <4>1. /\ Assign(one, "fk", Guessed(q)) \in KeyTags
            /\ Certain(one) \/ Guessed(q) = FALSE => Certain(Assign(one, "fk", Guessed(q)))
        BY <2>1, <2>2, AssignIs
      <4>2. two = Assign(one, "fk", Guessed(q))
        BY <3>1
      <4> HIDE DEF two, hangs
      <4> QED BY <2>1, <4>1, <4>2
    <3>2. CASE ~hangs(q.source)
      <4>1. two = one
        BY <3>2
      <4> HIDE DEF two, hangs
      <4> QED BY <2>2, <3>2, <4>1
    <3> QED BY <3>1, <3>2
  <2>4. edge(v, q) = two
    BY DEF one
  <2> HIDE DEF two, hangs, edge
  <2> QED BY <2>2, <2>3, <2>4
<1>7. (hangs(r.source) \/ hangs(r.target)) /\ ~Guessed(r)
  BY DEF Guessed
<1> HIDE DEF edge, hangs, V
<1>8. F \in [1..N -> [V -> V]] /\ \A n \in 1..N, v \in V : F[n][v] = edge(v, rs[n])
  BY <1>6
<1>9. PICK f : Taken(f, F, N, V, start)
  <2> HIDE DEF F
  <2> QED BY <1>3, <1>5, <1>8, Iterated
<1> HIDE DEF F
<1>10. f \in [0..N -> V] /\ f[0] = start /\ \A n \in 1..N : f[n] = edge(f[n - 1], rs[n])
  <2>1. f \in [0..N -> V] /\ f[0] = start /\ \A n \in 1..N : f[n] = F[n][f[n - 1]]
    BY <1>9 DEF Taken
  <2>2. ASSUME NEW n \in 1..N PROVE f[n] = edge(f[n - 1], rs[n])
    <3>1. n - 1 \in 0..N
      BY <1>3
    <3>2. f[n - 1] \in V
      BY <2>1, <3>1
    <3> QED BY <1>8, <2>1, <3>2
  <2> QED BY <2>1, <2>2
<1>11. P(f)
  <2>1. ASSUME NEW n \in 0..N PROVE f[n] = IF n = 0 THEN start ELSE edge(f[n - 1], rs[n])
    <3>1. n # 0 => n \in 1..N
      BY <1>3
    <3> QED BY <1>10, <3>1
  <2> QED BY <1>10, <2>1
<1>12. P(upTo)
  <2> HIDE DEF P
  <2> QED BY <1>11
<1> HIDE DEF upTo
<1>13. upTo[0] = start /\ \A n \in 1..N : upTo[n] = edge(upTo[n - 1], rs[n])
  <2>1. ASSUME NEW n \in 0..N PROVE upTo[n] = IF n = 0 THEN start ELSE edge(upTo[n - 1], rs[n])
    BY <1>12
  <2>2. 0 \in 0..N /\ \A n \in 1..N : n \in 0..N /\ n # 0
    BY <1>3
  <2>3. upTo[0] = start
    BY <2>1, <2>2, Zenon
  <2>4. \A n \in 1..N : upTo[n] = edge(upTo[n - 1], rs[n])
    BY <2>1, <2>2, Zenon
  <2> QED BY <2>3, <2>4
<1> HIDE DEF P
<1> DEFINE U == {n \in Nat : n <= N => upTo[n] \in V /\ (m <= n => Certain(upTo[n]))}
<1>14. 0 \in U
  BY <1>5, <1>13
<1>15. ASSUME NEW n \in Nat, n \in U PROVE n + 1 \in U
  <2> SUFFICES ASSUME n + 1 <= N
               PROVE  upTo[n + 1] \in V /\ (m <= n + 1 => Certain(upTo[n + 1]))
    OBVIOUS
  <2>1. n + 1 \in 1..N /\ n + 1 - 1 = n /\ n <= N
    BY <1>3
  <2>2. upTo[n] \in V /\ (m <= n => Certain(upTo[n]))
    BY <1>15, <2>1
  <2>3. upTo[n + 1] = edge(upTo[n], rs[n + 1])
    BY <1>13, <2>1
  <2>4. CASE m <= n
    BY <1>6, <2>2, <2>3, <2>4
  <2>5. CASE m = n + 1
    BY <1>4, <1>6, <1>7, <2>2, <2>3, <2>5
  <2>6. CASE m > n + 1
    BY <1>6, <2>2, <2>3, <2>6
  <2> QED BY <2>4, <2>5, <2>6
<1>16. N \in U
  <2> HIDE DEF U
  <2> QED BY <1>3, <1>14, <1>15, CountingUp
<1>17. Certain(upTo[N])
  BY <1>3, <1>16
<1> QED BY <1>1, <1>17

-----------------------------------------------------------------------------
(* The invariant: what is drawn is what the graph and the view state say,  *)
(* but for what Backspace has taken away.                                  *)

Placed ==
  /\ DOMAIN cards \subseteq Ids(graph.entities)
  /\ cards = [id \in DOMAIN cards |-> EffectiveMode(viewState, id)]
  /\ edges \subseteq ToEdges(graph, viewState)

DrawnInv ==
  /\ graph \in Graphs
  /\ Placed
  /\ selected \in Seq(ToSet(selected))

LEMMA EndsAreDrawn ==
  ASSUME DrawnInv, NEW e \in edges
  PROVE  /\ e.of \in Relations
         /\ e.from = Handle(graph, viewState, e.of.source)
         /\ e.to = Handle(graph, viewState, e.of.target)
         /\ \A end \in {e.of.source, e.of.target} :
              end.entity \in DOMAIN cards =>
                cards[end.entity] = EffectiveMode(viewState, end.entity)
<1> DEFINE rs == graph.relationships
<1>1. PICK i \in DOMAIN rs :
        e = [of |-> rs[i], from |-> Handle(graph, viewState, rs[i].source),
             to |-> Handle(graph, viewState, rs[i].target)]
  BY DEF DrawnInv, Placed, ToEdges
<1>2. e.of = rs[i] /\ rs[i] \in Relations
  BY <1>1 DEF Relations, ToSet
<1>3. ASSUME NEW end \in {e.of.source, e.of.target}, end.entity \in DOMAIN cards
      PROVE  cards[end.entity] = EffectiveMode(viewState, end.entity)
  BY <1>3 DEF DrawnInv, Placed
<1> QED BY <1>1, <1>2, <1>3

LEMMA DrawnMatches ==
  ASSUME DrawnInv
  PROVE  CardsMatchEdges
<1> DEFINE Hangs(end, place) ==
             place = IF Head(end.columns) \in VisibleColumns(graph, end.entity, cards[end.entity])
                     THEN Head(end.columns) ELSE "card"
<1>1. ASSUME NEW e \in DrawnEdges
      PROVE  /\ e \in edges /\ e.of \in Relations
             /\ Hangs(e.of.source, e.from) /\ Hangs(e.of.target, e.to)
  <2>1. e \in edges /\ e.of.source.entity \in DOMAIN cards /\ e.of.target.entity \in DOMAIN cards
    BY DEF DrawnEdges, Pair
  <2> QED BY <2>1, EndsAreDrawn DEF Handle
<1>2. ASSUME NEW e \in DrawnEdges, NEW x \in {<<e.of.source, e.from>>, <<e.of.target, e.to>>}
      PROVE  Hangs(x[1], x[2])
  <2> HIDE DEF Hangs
  <2>1. CASE x = <<e.of.source, e.from>>
    <3>1. x[1] = e.of.source /\ x[2] = e.from
      BY <2>1
    <3> QED BY <1>1, <3>1
  <2>2. CASE x = <<e.of.target, e.to>>
    <3>1. x[1] = e.of.target /\ x[2] = e.to
      BY <2>2
    <3> QED BY <1>1, <3>1
  <2> QED BY <1>2, <2>1, <2>2
<1>3. ASSUME NEW e \in DrawnEdges, e.of.origin = "admin_override",
             NEW end \in {e.of.source, e.of.target}, NEW x \in ToSet(end.columns)
      PROVE  ~KeyRole(graph, end.entity, x).guess
  <2>1. e.of \in ToSet(graph.relationships) /\ Relating(graph.relationships)
    BY <1>1, GraphsAreWellFormed DEF DrawnInv, WellFormed, Relations
  <2>2. Certain(KeyRole(graph, end.entity, x))
    BY <1>3, <2>1, KeyRoleIs
  <2>3. KeyRole(graph, end.entity, x).guess = FALSE
    BY <2>2 DEF Certain
  <2> QED BY <2>3, Zenon
<1> QED BY <1>1, <1>2, <1>3 DEF CardsMatchEdges

(* All cards and all edges, as the graph and the view state have them.     *)
LEMMA AllPlaced ==
  ASSUME cards = ToNodes(graph, viewState), edges = ToEdges(graph, viewState)
  PROVE  Placed
BY DEF Placed, ToNodes

LEMMA DrawnAtFirst == DiagramInit => DrawnInv
<1>1. <<>> \in Seq(ToSet(<<>>))
  OBVIOUS
<1> QED BY <1>1, AllPlaced DEF DiagramInit, DrawnInv

(* A new view state reaches the cards and the edges at once. *)
LEMMA ViewIsApplied ==
  ASSUME DrawnInv, NEW v, NEW nodes, applyView(v, nodes), graph' = graph
  PROVE  Placed'
<1>1. cards' = [id \in DOMAIN cards |-> EffectiveMode(v, id)]
  BY DEF applyView
<1>2. viewState' = v /\ edges' = ToEdges(graph, v)
  BY DEF applyView
<1>3. DOMAIN cards \subseteq Ids(graph.entities)
  BY DEF DrawnInv, Placed
<1> HIDE DEF applyView
<1> QED BY <1>1, <1>2, <1>3 DEF Placed

LEMMA PicksAreListed ==
  ASSUME DrawnInv, NEW id, ToggleMulti(id)
  PROVE  selected' \in Seq(ToSet(selected'))
<1>1. CASE Contains(selected, id)
  <2>1. selected' = Only(selected, ToSet(selected) \ {id})
    BY <1>1 DEF ToggleMulti
  <2>2. selected' \in Seq(ToSet(selected))
    BY <2>1, OnlyHas DEF DrawnInv
  <2> QED BY <2>2, OwnElements
<1>2. CASE ~Contains(selected, id)
  <2> DEFINE T == ToSet(selected) \union {id}
  <2>1. selected' = Append(selected, id)
    BY <1>2 DEF ToggleMulti
  <2>2. selected \in Seq(T) /\ id \in T
    BY DEF DrawnInv
  <2> HIDE DEF T
  <2>3. selected' \in Seq(T)
    BY <2>1, <2>2
  <2> QED BY <2>3, OwnElements
<1> QED BY <1>1, <1>2

(* What changes neither graph, view nor picks leaves the invariant. *)
LEMMA LeavesDrawn ==
  ASSUME DrawnInv, UNCHANGED <<graph, viewState, drawn, selected>>
  PROVE  DrawnInv'
<1>1. graph' = graph /\ viewState' = viewState /\ cards' = cards /\ edges' = edges /\ selected' = selected
  BY DEF drawn
<1> QED BY <1>1 DEF DrawnInv, Placed

LEMMA PicksNothing ==
  ASSUME DrawnInv, UNCHANGED <<graph, viewState, drawn>>, selected' = <<>>
  PROVE  DrawnInv'
<1>1. graph' = graph /\ viewState' = viewState /\ cards' = cards /\ edges' = edges
  BY DEF drawn
<1>2. <<>> \in Seq(ToSet(<<>>))
  OBVIOUS
<1>3. selected' \in Seq(ToSet(selected'))
  BY <1>2
<1> QED BY <1>1, <1>3 DEF DrawnInv, Placed

LEMMA TogglesKeepDrawn ==
  ASSUME DrawnInv, NEW id, ToggleMulti(id)
  PROVE  DrawnInv'
<1>1. graph' = graph /\ viewState' = viewState /\ cards' = cards /\ edges' = edges
  BY DEF ToggleMulti, drawn
<1>2. selected' \in Seq(ToSet(selected'))
  BY PicksAreListed
<1> QED BY <1>1, <1>2 DEF DrawnInv, Placed

LEMMA DrawnStep == DrawnInv /\ [DiagramNext]_dvars => DrawnInv'
<1> SUFFICES ASSUME DrawnInv, [DiagramNext]_dvars PROVE DrawnInv'
  OBVIOUS
<1>1. ASSUME NEW g \in Graphs, Refetch(g) PROVE DrawnInv'
  <2>1. graph' = g /\ viewState' = viewState /\ selected' = selected
        /\ cards' = ToNodes(g, viewState) /\ edges' = ToEdges(g, viewState)
    BY <1>1 DEF Refetch, flyouts
  <2>2. Placed'
    BY <2>1 DEF Placed, ToNodes
  <2> QED BY <2>1, <2>2 DEF DrawnInv
<1>2. ASSUME NEW id, CycleMode(id) PROVE DrawnInv'
  <2> DEFINE v == SetNodeMode(viewState, id, NextMode(EffectiveMode(viewState, id)))
  <2>1. applyView(v, away.nodes) /\ graph' = graph /\ selected' = selected
    BY <1>2 DEF CycleMode, flyouts
  <2> HIDE DEF v
  <2>2. Placed'
    BY <2>1, ViewIsApplied
  <2> QED BY <2>1, <2>2 DEF DrawnInv
<1>3. ASSUME NEW mode, SetDefaultMode(mode) PROVE DrawnInv'
  <2> DEFINE v == [default |-> mode, overrides |-> <<>>]
  <2>1. applyView(v, away.nodes) /\ graph' = graph /\ selected' = selected
    BY <1>3 DEF SetDefaultMode, flyouts
  <2> HIDE DEF v
  <2>2. Placed'
    BY <2>1, ViewIsApplied
  <2> QED BY <2>1, <2>2 DEF DrawnInv
<1>4. ASSUME NEW id, ToggleMulti(id) PROVE DrawnInv'
  BY <1>4, TogglesKeepDrawn
<1>5. ASSUME NEW id, SelectSingle(id) PROVE DrawnInv'
  BY <1>5, PicksNothing DEF SelectSingle
<1>6. ASSUME NEW id, Inspect(id) PROVE DrawnInv'
  BY <1>6, LeavesDrawn DEF Inspect
<1>7. CASE AddBridge
  BY <1>4, <1>7 DEF AddBridge
<1>8. CASE ClearSelection
  BY <1>8, PicksNothing DEF ClearSelection
<1>9. CASE CloseDetail
  BY <1>9, LeavesDrawn DEF CloseDetail
<1>10. CASE PickResult
  <2>1. PICK entry \in SearchEntries : JumpTo(entry)
    BY <1>10 DEF PickResult
  <2> DEFINE v == SetNodeMode(viewState, entry.entity, "all")
             nodes == IF focused # None THEN {} ELSE away.nodes
  <2>2. graph' = graph /\ selected' = <<>>
    BY <2>1 DEF JumpTo
  <2>3. applyView(v, nodes) \/ UNCHANGED <<viewState, drawn>>
    BY <2>1 DEF JumpTo
  <2> HIDE DEF v, nodes
  <2>4. CASE applyView(v, nodes)
    <3>1. Placed'
      BY <2>2, <2>4, ViewIsApplied
    <3>2. selected' \in Seq(ToSet(selected'))
      <4>1. <<>> \in Seq(ToSet(<<>>))
        OBVIOUS
      <4> QED BY <2>2, <4>1
    <3> QED BY <2>2, <3>1, <3>2 DEF DrawnInv
  <2>5. CASE UNCHANGED <<viewState, drawn>>
    BY <2>2, <2>5, PicksNothing
  <2> QED BY <2>3, <2>4, <2>5
<1>11. CASE FocusOn
  BY <1>11, LeavesDrawn DEF FocusOn, flyouts
<1>12. CASE FadeEnds
  BY <1>12, LeavesDrawn DEF FadeEnds, flyouts
<1>13. CASE ClearFocus
  BY <1>13, LeavesDrawn DEF ClearFocus, flyouts
<1>14. ASSUME NEW ids, NEW cut, Backspace(ids, cut) PROVE DrawnInv'
  <2>1. graph' = graph /\ viewState' = viewState /\ selected' = selected
    BY <1>14 DEF Backspace, flyouts
  <2>2. cards' = [id \in DOMAIN cards \ ids |-> cards[id]] /\ edges' \subseteq edges
    BY <1>14 DEF Backspace
  <2>3. DOMAIN cards' \subseteq DOMAIN cards /\ \A id \in DOMAIN cards' : cards'[id] = cards[id]
    BY <2>2
  <2>4. \A id \in DOMAIN cards : cards[id] = EffectiveMode(viewState, id)
    BY DEF DrawnInv, Placed
  <2>5. cards' = [id \in DOMAIN cards' |-> EffectiveMode(viewState, id)]
    BY <2>2, <2>3, <2>4
  <2> QED BY <2>1, <2>2, <2>3, <2>5 DEF DrawnInv, Placed
<1>15. CASE UNCHANGED dvars
  BY <1>15, LeavesDrawn DEF dvars, flyouts
<1> QED BY <1>1, <1>2, <1>3, <1>4, <1>5, <1>6, <1>7, <1>8, <1>9, <1>10, <1>11, <1>12, <1>13, <1>14, <1>15
           DEF DiagramNext

LEMMA AlwaysDrawn == DiagramSpec => []DrawnInv
BY DrawnAtFirst, DrawnStep, PTL DEF DiagramSpec

(* Every edge that is drawn hangs where its card says, whatever refetches, *)
(* mode changes, deletions and jumps came before, and no tag is dimmed     *)
(* where an admin's relationship ends.                                     *)
THEOREM EdgesHangOnCards == DiagramSpec => []CardsMatchEdges
<1>1. DrawnInv => CardsMatchEdges
  BY DrawnMatches
<1> QED BY <1>1, AlwaysDrawn, PTL

(* The flyout's labels agree with the statement, for any relationships and *)
(* any picks: the group search and the join planner end in the same set.   *)
THEOREM FlyoutTellsTheTruth == DiagramSpec => []StatementTellsTheTruth
<1>1. DrawnInv => StatementTellsTheTruth
  BY GraphsAreWellFormed, StatementIsTrue DEF DrawnInv, WellFormed
<1> QED BY <1>1, AlwaysDrawn, PTL

(* An override decides how its two tables are joined, or that they are     *)
(* not: no constraint and no guess is drawn or used instead.               *)
THEOREM AdminsDecideJoins == DiagramSpec => []JoinsFollowOverrides
<1>1. DrawnInv => JoinsFollowOverrides
  BY GraphsAreWellFormed, OverridesAreFollowed DEF DrawnInv
<1> QED BY <1>1, AlwaysDrawn, PTL

(* A bridge that is offered joins what it was said to join, once added.    *)
THEOREM BridgesReconnect == DiagramSpec => []RemedyReconnects
<1>1. DrawnInv => RemedyReconnects
  BY GraphsAreWellFormed, RemedyIsOne DEF DrawnInv, WellFormed
<1> QED BY <1>1, AlwaysDrawn, PTL
=============================================================================
