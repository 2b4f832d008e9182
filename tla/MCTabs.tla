------------------------------- MODULE MCTabs -------------------------------
(* Values for checking Tabs: two apps, one of them for admins only, a      *)
(* staff user and one with a grant, and the kinds of deployment there are. *)
EXTENDS Tabs

CONSTANTS ann, bob, tracker, portal, book, map, users

AppOfPage == (Home :> NoApp) @@ (book :> tracker) @@ (map :> tracker) @@ (users :> portal)
FrontDoors == (tracker :> book) @@ (portal :> users)
BobMayTrack == (ann :> {}) @@ (bob :> {tracker})

Deploy(required, azure, auto, forwarded) ==
  [required |-> required, azure |-> azure, auto |-> auto, forwarded |-> forwarded]
AllKinds ==
  {Deploy(FALSE, FALSE, FALSE, Nobody), Deploy(TRUE, FALSE, FALSE, Nobody),
   Deploy(TRUE, TRUE, TRUE, Nobody), Deploy(TRUE, FALSE, FALSE, bob)}

EarlierVisits ==
  {<<[app |-> tracker, href |-> map], [app |-> portal, href |-> users]>>}

(* A window that has just been opened, and one with an app of its own.     *)
OtherWindows == {<<>>, <<[app |-> tracker, href |-> book]>>}
=============================================================================
