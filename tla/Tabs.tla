-------------------------------- MODULE Tabs --------------------------------
(* The open apps, TabsProvider, on top of the session: which apps may be   *)
(* open depends on who is signed in, and which is focused on the URL.  The *)
(* list lives in React state, is restored from localStorage after the      *)
(* first commit and written back, filtered, whenever it changes.  All      *)
(* windows of the origin write the same key of localStorage.               *)
EXTENDS Session, SequencesExt

CONSTANTS
  Apps,       \* APPS
  AdminOnly,  \* those with adminOnly
  Grants,     \* app_ids of each user
  AppOf,      \* appIdFromPath of each page of the shell
  NoApp,      \* null: the launcher
  BasePath,   \* where launching an app lands
  SavedLists, \* what an earlier visit may have left in localStorage
  OtherLists  \* what another window may write there

VARIABLES
  stored,    \* the list in React state
  storage,   \* localStorage, omniview:tabs
  restored,  \* have the effects of the first commit run
  record,    \* is the effect that follows the URL due
  due,       \* is the effect that writes the list due
  kept,      \* history: apps opened by the URL and not closed since
  shut,      \* history: the focused app was closed, and its URL is still there
  blind      \* history: a list was read from a localStorage that did not hold it

tvars == <<stored, storage, restored, record, due, kept, shut, blind>>
vars == <<svars, tvars>>

Tab == [app : Apps, href : Pages]

ASSUME TabsConstants ==
  /\ AdminOnly \subseteq Apps /\ NoApp \notin Apps
  /\ Grants \in [Users -> SUBSET Apps]
  /\ AppOf \in [Pages -> Apps \union {NoApp}]
  /\ BasePath \in [Apps -> Pages] /\ \A a \in Apps : AppOf[BasePath[a]] = a
  /\ \A list \in SavedLists \union OtherLists :
       list \in Seq(Tab) /\ \A i, j \in DOMAIN list : list[i].app = list[j].app => i = j

(* visibleApps: nothing until the config has arrived. *)
Allowed ==
  IF config /\ ~deploy.required THEN Apps
  ELSE IF user = Nobody THEN {}
  ELSE IF user \in Staff THEN Apps
  ELSE Grants[user] \ AdminOnly

(* Access is applied on read, not pruned into the state. *)
Visible(list) ==
  LET upTo[n \in 0..Len(list)] ==
        IF n = 0 THEN <<>>
        ELSE IF list[n].app \in Allowed THEN Append(upTo[n - 1], list[n])
        ELSE upTo[n - 1]
  IN upTo[Len(list)]
Shown == Visible(stored)
AppsIn(list) == {list[i].app : i \in DOMAIN list}
IndexOf(list, a) == CHOOSE i \in DOMAIN list : list[i].app = a

Active == IF path \in Pages THEN AppOf[path] ELSE NoApp

(* Where clicking an app in the rail goes. *)
HrefFor(a) == IF a \in AppsIn(Shown) THEN Shown[IndexOf(Shown, a)].href ELSE BasePath[a]

(* The URL opens tabs: a tab is added for the active app, or told where    *)
(* the app is now.                                                         *)
Recorded(list) ==
  IF Active \in AppsIn(list)
  THEN [list EXCEPT ![IndexOf(list, Active)].href = path]
  ELSE Append(list, [app |-> Active, href |-> path])

-----------------------------------------------------------------------------
(* Variant: the list is read after the empty one was written. *)
RestoreLate ==
  /\ path # Sso /\ ~restored
  /\ storage' = <<>>
  /\ stored' = storage'
  /\ restored' = TRUE /\ due' = TRUE
  /\ UNCHANGED <<svars, record, kept, shut, blind>>

(* The first commit of a document: the list is read, and the list rendered *)
(* before, empty, is written.                                              *)
Restore ==
  /\ path # Sso /\ ~restored
  /\ stored' = storage
  /\ storage' = <<>>
  /\ restored' = TRUE /\ due' = TRUE
  /\ UNCHANGED <<svars, record, kept, shut, blind>>

(* The effect on the active app, the pathname and the allowed apps. *)
RecordTab ==
  /\ record /\ restored
  /\ record' = FALSE
  /\ IF Active \in Allowed
     THEN /\ stored' = Recorded(stored) /\ kept' = kept \union {Active}
          /\ due' = (due \/ stored' # stored)
     ELSE UNCHANGED <<stored, kept, due>>
  /\ UNCHANGED <<svars, storage, restored, shut, blind>>

(* The effect on the tabs shown: whatever localStorage holds by now, it is *)
(* overwritten.                                                            *)
Persist ==
  /\ restored /\ due
  /\ storage' = Shown /\ due' = FALSE
  /\ UNCHANGED <<svars, stored, restored, record, kept, shut, blind>>

(* The TabsProvider of another window of this browser writes its own list: *)
(* the empty one when it mounts or its user signs out.  Nobody here hears  *)
(* of it, but a list that has still to be read is gone.                    *)
OtherWrites(list) ==
  /\ Move
  /\ storage' = list
  /\ blind' = (blind \/ (~restored /\ list # storage))
  /\ UNCHANGED <<deploy, session, csrf, skip, clientVars, path, next, going, wire, parting,
                 stale, stored, restored, record, due, kept, shut>>

(* The x of a tab: the list shown becomes the list; closing the focused    *)
(* tab goes to the one that takes its place, else the one before it.       *)
Close(a) ==
  /\ Painted /\ restored /\ a \in AppsIn(Shown) /\ Move
  /\ LET i == IndexOf(Shown, a)
         left == RemoveAt(Shown, i)
     IN /\ stored' = left
        /\ kept' = kept \intersect AppsIn(left)
        /\ going' = IF a # Active THEN going
                    ELSE To(IF i \in DOMAIN left THEN left[i].href
                            ELSE IF i - 1 \in DOMAIN left THEN left[i - 1].href
                            ELSE Home)
  /\ shut' = (shut \/ a = Active) /\ due' = TRUE
  /\ UNCHANGED <<deploy, session, csrf, skip, clientVars, path, next, wire, parting, stale,
                 storage, restored, record, blind>>

(* An app clicked in the rail, or its tab. *)
ClickApp(a) == a \in Allowed /\ Navigate(HrefFor(a))

(* Dragging a tab, or Ctrl+Shift+arrow. *)
MoveTab(from, to) ==
  /\ Painted /\ restored /\ Move
  /\ from # to /\ {from, to} \subseteq DOMAIN Shown
  /\ stored' = InsertAt(RemoveAt(Shown, from), to, Shown[from])
  /\ kept' = kept \intersect AppsIn(Shown)
  /\ due' = TRUE
  /\ UNCHANGED <<deploy, session, csrf, skip, clientVars, path, next, going, wire, parting,
                 stale, storage, restored, record, shut, blind>>

(* A session that is read brings a new user and config, also where they    *)
(* are equal to those before; null is null.                                *)
Learns ==
  \/ user' # user \/ config' # config
  \/ \E k \in Reads : wire[k].at = "ok" /\ wire'[k].at = "idle"

(* Variant: the effect follows the URL alone. *)
FollowUrl ==
  /\ record' = (record \/ path' # path)
  /\ due' = (due \/ Learns)
  /\ shut' = (shut /\ path' = path)
  /\ UNCHANGED <<stored, storage, restored, kept, blind>>

(* A step of the session that keeps the document: a new URL, user or       *)
(* config makes the effect on the URL due, the latter two the list anew.   *)
Follow ==
  /\ record' = (record \/ path' # path \/ Learns)
  /\ due' = (due \/ Learns)
  /\ shut' = (shut /\ path' = path)
  /\ UNCHANGED <<stored, storage, restored, kept, blind>>

(* A new document starts with an empty list; what the user of the one      *)
(* before may not see is given up.  It will read what localStorage holds:  *)
(* not the list of the document before if nobody was known in it, if it    *)
(* was not written, or if another window has written since.                *)
Remount ==
  /\ stored' = <<>> /\ restored' = FALSE /\ record' = TRUE /\ due' = FALSE /\ shut' = FALSE
  /\ kept' = IF Allowed = {} THEN kept ELSE kept \intersect Allowed
  /\ blind' = (blind \/ Allowed = {} \/ storage # Shown)
  /\ UNCHANGED storage

-----------------------------------------------------------------------------
TabsInit ==
  /\ SessionInit
  /\ storage \in SavedLists /\ kept = AppsIn(storage)
  /\ stored = <<>> /\ restored = FALSE /\ record = TRUE /\ due = FALSE
  /\ shut = FALSE /\ blind = FALSE

NextDocument ==
  \/ AutoLogin \/ ClickMicrosoft
  \/ \E p \in Pages \union {Login} : Load(p)
  \/ \E u \in Who : SsoReturns(u)

SameDocument ==
  \/ Serve \/ Take \/ BounceToLogin \/ LeaveLogin \/ Arrive
  \/ ClickLogout \/ CallApi \/ ShipLog
  \/ \E p \in Pages : Navigate(p)
  \/ \E a \in Apps : ClickApp(a)
  \/ \E u \in Who : SubmitLogin(u) \/ Elsewhere(u)

TabsNext ==
  \/ SameDocument /\ Follow
  \/ NextDocument /\ Remount
  \/ Restore \/ RecordTab \/ Persist
  \/ \E a \in Apps : Close(a)
  \/ \E from, to \in 1..Cardinality(Apps) : MoveTab(from, to)
  \/ \E list \in OtherLists : OtherWrites(list)

TabsSpec == TabsInit /\ [][TabsNext]_vars

(* Requests are answered or lost and their answers taken, effects run and  *)
(* the router arrives.  Nobody has to click, call or log in.               *)
TabsFairness ==
  /\ WF_vars(ServeLogin /\ Follow) /\ WF_vars(ServeLogout /\ Follow)
  /\ \A k \in Kinds : WF_vars(ServeSession(k) /\ Follow)
  /\ WF_vars(ServeApi /\ Follow) /\ WF_vars(ServeLog /\ Follow)
  /\ WF_vars(TakeProbe /\ Follow) /\ WF_vars(TakeLogin /\ Follow)
  /\ WF_vars(TakeAfterLogin /\ Follow) /\ WF_vars(TakeLogout /\ Follow)
  /\ WF_vars(TakeAfterLogout /\ Follow) /\ WF_vars(TakeApi /\ Follow) /\ WF_vars(TakeLog /\ Follow)
  /\ WF_vars(BounceToLogin /\ Follow) /\ WF_vars(LeaveLogin /\ Follow) /\ WF_vars(Arrive /\ Follow)
  /\ WF_vars(AutoLogin /\ Remount)
  /\ WF_vars(Restore) /\ WF_vars(RecordTab) /\ WF_vars(Persist)

TabsFairSpec == TabsSpec /\ TabsFairness

-----------------------------------------------------------------------------
(* Properties. *)

TypeOK ==
  /\ deploy \in Deployments /\ session \in Who /\ csrf \in BOOLEAN /\ skip \in BOOLEAN
  /\ user \in Who /\ config \in BOOLEAN /\ loading \in BOOLEAN
  /\ path \in Anywhere /\ next \in Pages \union {Login} /\ going \in Target \union {Nowhere}
  /\ wire \in [Kinds -> Request]
  /\ shipped \in 0..MaxShipments /\ moves \in 0..MaxMoves
  /\ parting \in BOOLEAN /\ stale \in BOOLEAN
  /\ stored \in Seq(Tab) /\ storage \in Seq(Tab)
  /\ restored \in BOOLEAN /\ record \in BOOLEAN /\ due \in BOOLEAN
  /\ kept \subseteq Apps /\ shut \in BOOLEAN /\ blind \in BOOLEAN

Settled == restored /\ ~record /\ ~due /\ going = Nowhere

(* Navigating anywhere inside an app ensures its tab exists and records    *)
(* where you are - unless the app was closed while the navigation away     *)
(* from it was under way.                                                  *)
FocusedHasTab ==
  Settled /\ Active \in Allowed /\ ~shut => [app |-> Active, href |-> path] \in ToSet(Shown)

(* Apps opened stay open, over navigations, reloads, logouts and logins,   *)
(* until they are closed, whatever other windows write - unless a document *)
(* has read a localStorage that did not hold the list of the one before:   *)
(* nobody was known there, the list was not written yet, or another window *)
(* had written over it.                                                    *)
TabsAreKept == Settled /\ ~blind => kept \intersect Allowed \subseteq AppsIn(Shown)

(* Once no session request is under way, the user shown is the one the     *)
(* server knows, unless the session was changed behind the document or a   *)
(* read of it was lost or overtaken.                                       *)
ShownUserIsSession ==
  (\A k \in Kinds \ {"page", "log"} : wire[k] = Idle) /\ ~loading /\ ~stale => user = Caller

(* After a logout the browser is not bounced back into the identity        *)
(* provider, until somebody deliberately signs in.                         *)
NoBounceAfterLogout == [][parting /\ path # Sso => path' # Sso \/ ~parting']_vars

(* Who is found to be signed out where a session is required gets to the   *)
(* login page.                                                             *)
SignedOutMeetsLogin == path \in Pages /\ NeedsLogin ~> path \notin Pages \/ ~NeedsLogin

-----------------------------------------------------------------------------
(* What the documentation says, and the code does not do. *)

(* "Rail collapse + open tabs persist to localStorage."  The run has no     *)
(* other window.                                                           *)
TabsPersist == Settled => kept \intersect Allowed \subseteq AppsIn(Shown)
=============================================================================
