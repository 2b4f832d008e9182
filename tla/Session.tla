------------------------------ MODULE Session ------------------------------
(* Who is signed in, as one browser tab of OmniView sees it: AuthProvider, *)
(* the login page and the auth gate of the shell layout, over /api/auth    *)
(* and the API-wide auth classes.                                          *)
(*                                                                         *)
(* The browser's session cookie is shared with other tabs and may expire,  *)
(* requests are answered or lost in any order, router navigations are      *)
(* asynchronous, and leaving the document drops every request's handler.   *)
EXTENDS Naturals, FiniteSets

CONSTANTS
  Users, Staff, \* the accounts, and those with is_staff
  Pages,        \* the shell's URLs, Home among them
  StaffPages,   \* those under STAFF_ONLY_PAGE_PREFIXES
  Home,         \* "/"
  Login,        \* "/login"
  Sso,          \* the identity provider's pages, outside the application
  Nobody,       \* no user: null, AnonymousUser
  Nowhere,      \* no navigation pending
  Deployments,  \* the settings a deployment may have
  MaxShipments, \* MAX_SHIPMENTS_PER_PAGELOAD
  MaxMoves      \* bound on what users, other tabs and the clock do

ASSUME SessionConstants ==
  /\ Home \in Pages /\ Login \notin Pages /\ Sso \notin Pages /\ Login # Sso
  /\ Nobody \notin Users /\ Staff \subseteq Users
  /\ StaffPages \subseteq Pages \ {Home}
  /\ Nowhere \notin [to : Pages \union {Login}, next : Pages \union {Login}]
  /\ MaxShipments \in Nat /\ MaxMoves \in Nat
  /\ Deployments \subseteq
       [required : BOOLEAN, azure : BOOLEAN, auto : BOOLEAN,
        forwarded : Users \union {Nobody}]

VARIABLES
  deploy,   \* the settings of this deployment; forwarded is the identity header
  session,  \* the user of the browser's session cookie
  csrf,     \* is there a csrftoken cookie
  skip,     \* sessionStorage: SKIP_SSO_AUTO_LOGIN_KEY
  user, config, loading,  \* the state of AuthProvider; config: has it arrived
  path,     \* the pathname
  next,     \* the ?next= of the login page
  going,    \* the navigation under way
  wire,     \* the requests of this document, at most one of each kind
  shipped,  \* log entries shipped since the document was loaded
  moves,    \* how many moves were made, see MaxMoves
  parting,  \* history: signed out here, and not signed in since
  stale     \* history: nothing delivered so far reflects the session

clientVars == <<user, config, loading, shipped>>
svars == <<deploy, session, csrf, skip, user, config, loading, path, next,
           going, wire, shipped, moves, parting, stale>>

Reads == {"probe", "afterLogin", "afterLogout"}
Kinds == Reads \union {"login", "logout", "page", "log"}

Who == Users \union {Nobody}
Anywhere == Pages \union {Login, Sso}
Target == [to : Pages \union {Login}, next : Pages \union {Login}]

(* A request: where it is, whose credentials or which user its answer      *)
(* carries, and, for a login, where it is to lead.                         *)
Request == [at : {"idle", "sent", "bare", "ok", "refused", "failed"},
            who : Who, then : Pages \union {Login}]

Idle == [at |-> "idle", who |-> Nobody, then |-> Home]
Quiet == [k \in Kinds |-> Idle]
Waiting(k) == wire[k].at \in {"sent", "bare"}
Answered(k) == wire[k].at \in {"ok", "refused", "failed"}

(* apiFetch: an unsafe request carries the token of the cookie, if any.    *)
Unsafe(who, then) ==
  [at |-> IF csrf THEN "sent" ELSE "bare", who |-> who, then |-> then]
Get == [at |-> "sent", who |-> Nobody, then |-> Home]

To(p) == [to |-> p, next |-> Home]
ToLogin(p) == [to |-> Login, next |-> p]

(* A step of the user, of another tab or of the clock. *)
Move == moves < MaxMoves /\ moves' = moves + 1

-----------------------------------------------------------------------------
(* The server. *)

(* The identity header of the Databricks proxy signs its user in on every  *)
(* request; everywhere else the session cookie decides.                    *)
Caller == IF deploy.forwarded # Nobody THEN deploy.forwarded ELSE session

(* HTML pages require a session where auth is required, /login does not.   *)
NeedsRedirect(p, who) == deploy.required /\ who = Nobody /\ p # Login

(* Signed-in users who are not staff get a 404 for the pages of the staff. *)
StaffOnly(p, who) == deploy.required /\ p \in StaffPages /\ who \notin Staff

(* GET /api/auth/session: the user and the config, and a csrftoken cookie. *)
ServeSession(k) ==
  /\ k \in Reads /\ Waiting(k)
  /\ session' = Caller
  /\ csrf' = TRUE
  /\ wire' = [wire EXCEPT ![k] = [Get EXCEPT !.at = "ok", !.who = Caller, !.then = wire[k].then]]
  /\ UNCHANGED <<deploy, skip, clientVars, path, next, going, moves, parting, stale>>

(* POST /api/auth/login: without the token 403, with bad credentials 401.  *)
ServeLogin ==
  /\ Waiting("login")
  /\ LET valid == wire["login"].at = "sent" /\ wire["login"].who # Nobody IN
       /\ session' = IF valid THEN wire["login"].who ELSE Caller
       /\ csrf' = (csrf \/ valid)
       /\ wire' = [wire EXCEPT !["login"].at =
                     IF @ = "bare" THEN "failed" ELSE IF valid THEN "ok" ELSE "refused"]
  /\ UNCHANGED <<deploy, skip, clientVars, path, next, going, moves, parting, stale>>

(* POST /api/auth/logout. *)
ServeLogout ==
  /\ Waiting("logout")
  /\ session' = IF wire["logout"].at = "sent" THEN Nobody ELSE Caller
  /\ wire' = [wire EXCEPT !["logout"].at = IF @ = "sent" THEN "ok" ELSE "failed"]
  /\ UNCHANGED <<deploy, csrf, skip, clientVars, path, next, going, moves, parting, stale>>

(* Any other endpoint: 401 where a session is required and there is none.  *)
Gated(k) ==
  /\ Waiting(k)
  /\ session' = Caller
  /\ wire' = [wire EXCEPT ![k].at =
                IF deploy.required /\ Caller = Nobody THEN "refused" ELSE "ok"]

ServeApi ==
  /\ Gated("page")
  /\ UNCHANGED <<deploy, csrf, skip, clientVars, path, next, going, moves, parting, stale>>

(* POST /api/logs/frontend does not opt out of the API-wide auth. *)
ServeLog ==
  /\ Gated("log")
  /\ UNCHANGED <<deploy, csrf, skip, clientVars, path, next, going, moves, parting, stale>>

(* The network fails before or after the server has done its part. *)
Lose(k) ==
  /\ wire[k].at \in {"sent", "bare", "ok", "refused"}
  /\ Move
  /\ wire' = [wire EXCEPT ![k].at = "failed"]
  /\ stale' = TRUE
  /\ UNCHANGED <<deploy, session, csrf, skip, clientVars, path, next, going, parting>>

(* Another window signs somebody in or out, or the session expires.  What  *)
(* the other window writes to localStorage is a step of its own: Tabs.     *)
Elsewhere(u) ==
  /\ Move
  /\ session' = u
  /\ stale' = TRUE
  /\ UNCHANGED <<deploy, csrf, skip, clientVars, path, next, going, wire, parting>>

-----------------------------------------------------------------------------
(* AuthProvider. *)

(* What refreshSession does with the answer of the read k. *)
Refresh(k) ==
  LET ok == wire[k].at = "ok" IN
    /\ user' = IF ok THEN wire[k].who ELSE Nobody
    /\ config' = (config \/ ok)
    /\ stale' = (wire[k].who # Caller \/ ~ok)
    /\ parting' = (parting /\ user' = Nobody)

(* The listener of UNAUTHORIZED_EVENT. *)
OnUnauthorized ==
  /\ user' = Nobody
  /\ going' = IF config /\ deploy.required /\ path # Login THEN ToLogin(path) ELSE going
  /\ stale' = (stale \/ Caller # Nobody)

TakeProbe ==
  /\ Answered("probe")
  /\ Refresh("probe")
  /\ loading' = FALSE
  /\ wire' = [wire EXCEPT !["probe"] = Idle]
  /\ UNCHANGED <<deploy, session, csrf, skip, path, next, going, shipped, moves>>

(* Variant: the session is not read again after a login. *)
TakeLoginNoRefresh ==
  /\ Answered("login")
  /\ wire' = [wire EXCEPT !["login"] = Idle]
  /\ IF wire["login"].at = "refused" THEN OnUnauthorized ELSE UNCHANGED <<user, going, stale>>
  /\ UNCHANGED <<deploy, session, csrf, skip, config, loading, path, next, shipped,
                 moves, parting>>

(* login: a 401 is an unauthorized event like any other. *)
TakeLogin ==
  /\ Answered("login")
  /\ wire' = [wire EXCEPT !["login"] = Idle,
                !["afterLogin"] = IF wire["login"].at = "ok"
                                  THEN [Get EXCEPT !.then = wire["login"].then] ELSE @]
  /\ IF wire["login"].at = "refused" THEN OnUnauthorized ELSE UNCHANGED <<user, going, stale>>
  /\ UNCHANGED <<deploy, session, csrf, skip, config, loading, path, next, shipped,
                 moves, parting>>

(* login resolves, whatever became of the refresh, and the page leaves.    *)
TakeAfterLogin ==
  /\ Answered("afterLogin")
  /\ Refresh("afterLogin")
  /\ going' = To(wire["afterLogin"].then)
  /\ wire' = [wire EXCEPT !["afterLogin"] = Idle]
  /\ UNCHANGED <<deploy, session, csrf, skip, loading, path, next, shipped, moves>>

(* Variant: the flag is forgotten. *)
ClickLogoutNoFlag ==
  /\ user # Nobody /\ deploy.forwarded = Nobody
  /\ path \in Pages
  /\ wire["logout"] = Idle /\ wire["afterLogout"] = Idle
  /\ Move
  /\ parting' = TRUE
  /\ wire' = [wire EXCEPT !["logout"] = Unsafe(Nobody, Home)]
  /\ UNCHANGED <<deploy, session, csrf, skip, clientVars, path, next, going, stale>>

(* logout: the flag first, then the request, whatever comes of it. *)
ClickLogout ==
  /\ user # Nobody /\ deploy.forwarded = Nobody
  /\ path \in Pages
  /\ wire["logout"] = Idle /\ wire["afterLogout"] = Idle
  /\ Move
  /\ skip' = TRUE
  /\ parting' = TRUE
  /\ wire' = [wire EXCEPT !["logout"] = Unsafe(Nobody, Home)]
  /\ UNCHANGED <<deploy, session, csrf, clientVars, path, next, going, stale>>

TakeLogout ==
  /\ Answered("logout")
  /\ user' = Nobody
  /\ wire' = [wire EXCEPT !["logout"] = Idle, !["afterLogout"] = Get]
  /\ UNCHANGED <<deploy, session, csrf, skip, config, loading, path, next, going,
                 shipped, moves, parting, stale>>

TakeAfterLogout ==
  /\ Answered("afterLogout")
  /\ Refresh("afterLogout")
  /\ going' = ToLogin(Home)
  /\ wire' = [wire EXCEPT !["afterLogout"] = Idle]
  /\ UNCHANGED <<deploy, session, csrf, skip, loading, path, next, shipped, moves>>

-----------------------------------------------------------------------------
(* The shell. *)

NeedsLogin == ~loading /\ config /\ deploy.required /\ user = Nobody
Painted == ~loading /\ ~NeedsLogin /\ path \in Pages

(* Variant: the gate waits for a loading that is over. *)
BounceWhileLoading ==
  /\ path \in Pages /\ NeedsLogin /\ loading
  /\ going' = ToLogin(path)
  /\ UNCHANGED <<deploy, session, csrf, skip, clientVars, path, next, wire, moves,
                 parting, stale>>

(* The gate of the layout. *)
BounceToLogin ==
  /\ path \in Pages /\ NeedsLogin
  /\ going # ToLogin(path)
  /\ going' = ToLogin(path)
  /\ UNCHANGED <<deploy, session, csrf, skip, clientVars, path, next, wire, moves,
                 parting, stale>>

(* A link of the rail, of a tab or of a page. *)
Navigate(p) ==
  /\ Painted /\ Move
  /\ going' = To(p)
  /\ UNCHANGED <<deploy, session, csrf, skip, clientVars, path, next, wire, parting, stale>>

(* The router commits the navigation it was asked for last. *)
Arrive ==
  /\ going # Nowhere
  /\ path' = going.to
  /\ next' = IF going.to = Login THEN going.next ELSE next
  /\ going' = Nowhere
  /\ UNCHANGED <<deploy, session, csrf, skip, clientVars, wire, moves, parting, stale>>

(* A page asks its API, and looks at the answer also when it has been left.*)
CallApi ==
  /\ Painted /\ Move
  /\ wire["page"] = Idle
  /\ wire' = [wire EXCEPT !["page"] = Get]
  /\ UNCHANGED <<deploy, session, csrf, skip, clientVars, path, next, going, parting, stale>>

TakeApi ==
  /\ Answered("page")
  /\ IF wire["page"].at = "refused" THEN OnUnauthorized ELSE UNCHANGED <<user, going, stale>>
  /\ wire' = [wire EXCEPT !["page"] = Idle]
  /\ UNCHANGED <<deploy, session, csrf, skip, config, loading, path, next, shipped,
                 moves, parting>>

(* reportClientError: one entry at a time, a budget per document. *)
ShipLog ==
  /\ path # Sso /\ Move
  /\ wire["log"] = Idle /\ shipped < MaxShipments
  /\ shipped' = shipped + 1
  /\ wire' = [wire EXCEPT !["log"] = Unsafe(Nobody, Home)]
  /\ UNCHANGED <<deploy, session, csrf, skip, user, config, loading, path, next, going,
                 parting, stale>>

(* Whatever the answer, also a 401, nothing but the slot changes. *)
TakeLog ==
  /\ Answered("log")
  /\ wire' = [wire EXCEPT !["log"] = Idle]
  /\ UNCHANGED <<deploy, session, csrf, skip, clientVars, path, next, going, moves,
                 parting, stale>>

-----------------------------------------------------------------------------
(* The login page. *)

(* Already signed in: straight through. *)
LeaveLogin ==
  /\ path = Login /\ ~loading /\ user # Nobody
  /\ going # To(next)
  /\ going' = To(next)
  /\ UNCHANGED <<deploy, session, csrf, skip, clientVars, path, next, wire, moves,
                 parting, stale>>

(* The form, with good credentials of u or, for Nobody, bad ones. *)
SubmitLogin(u) ==
  /\ path = Login /\ Move
  /\ wire["login"] = Idle /\ wire["afterLogin"] = Idle
  /\ wire' = [wire EXCEPT !["login"] = Unsafe(u, next)]
  /\ UNCHANGED <<deploy, session, csrf, skip, clientVars, path, next, going, parting, stale>>

(* The document goes away, and the handlers of its requests with it. *)
Unload ==
  /\ user' = Nobody /\ config' = FALSE /\ loading' = TRUE /\ shipped' = 0
  /\ going' = Nowhere

(* hardNavigate to the identity provider. *)
LeaveForSso ==
  /\ Unload
  /\ path' = Sso
  /\ wire' = Quiet

(* Entra ID auto-login. *)
AutoLogin ==
  /\ path = Login /\ ~loading /\ user = Nobody
  /\ config /\ deploy.azure /\ deploy.auto
  /\ ~skip
  /\ LeaveForSso
  /\ UNCHANGED <<deploy, session, csrf, skip, next, moves, parting, stale>>

ClickMicrosoft ==
  /\ path = Login /\ config /\ deploy.azure /\ Move
  /\ skip' = FALSE
  /\ parting' = FALSE
  /\ LeaveForSso
  /\ UNCHANGED <<deploy, session, csrf, next, stale>>

(* A document is served to who for p, or the login page instead of it, and *)
(* AuthProvider mounts: the probe is sent.                                 *)
Open(p, who) ==
  /\ NeedsRedirect(p, who) \/ ~StaffOnly(p, who)
  /\ Unload
  /\ session' = who
  /\ path' = IF NeedsRedirect(p, who) THEN Login ELSE p
  /\ next' = IF NeedsRedirect(p, who) THEN p ELSE IF p = Login THEN Home ELSE next
  /\ wire' = [Quiet EXCEPT !["probe"] = Get]
  /\ stale' = TRUE
  /\ Move
  /\ UNCHANGED <<deploy, csrf, skip, parting>>

(* A reload, a bookmark, an address typed. *)
Load(p) == Open(p, Caller)

(* Back from the identity provider: signed in, and to ?next=; or not, and  *)
(* back to the login page.                                                 *)
SsoReturns(u) ==
  /\ path = Sso
  /\ Open(IF u = Nobody THEN Login ELSE next, IF u = Nobody THEN Caller ELSE u)

-----------------------------------------------------------------------------
(* A first document has just been served. *)
SessionInit ==
  /\ deploy \in Deployments
  /\ session \in {Nobody, deploy.forwarded}
  /\ csrf = FALSE /\ skip = FALSE
  /\ user = Nobody /\ config = FALSE /\ loading = TRUE
  /\ path = (IF NeedsRedirect(Home, Caller) THEN Login ELSE Home)
  /\ next = Home
  /\ going = Nowhere
  /\ wire = [Quiet EXCEPT !["probe"] = Get]
  /\ shipped = 0 /\ moves = 0
  /\ parting = FALSE /\ stale = TRUE

Serve ==
  \/ ServeLogin \/ ServeLogout \/ ServeApi \/ ServeLog
  \/ \E k \in Kinds : ServeSession(k) \/ Lose(k)
Take == TakeProbe \/ TakeLogin \/ TakeAfterLogin \/ TakeLogout \/ TakeAfterLogout \/ TakeApi \/ TakeLog
=============================================================================
