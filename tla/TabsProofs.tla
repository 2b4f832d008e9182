----------------------------- MODULE TabsProofs -----------------------------
(* Proofs about Session and Tabs: who is shown as signed in, that a logout *)
(* lasts, that the focused app has its tab and that open tabs are kept.    *)
EXTENDS Tabs, WellFoundedInduction, TLAPS

(* A slot of the wire holds a record. *)
WireInv == DOMAIN wire = Kinds /\ \A k \in Kinds : DOMAIN wire[k] = {"at", "who", "then"}

(* The user shown is the server's, but for what is on its way: a login or   *)
(* logout the server has done, and the reads that follow them.             *)
UserInv ==
  /\ ~loading /\ ~stale
  /\ wire["login"].at # "ok" /\ wire["logout"].at # "ok"
  /\ wire["afterLogin"].at = "idle" /\ wire["afterLogout"].at = "idle"
  => user = Caller

(* The flag outlives the page load that follows a logout. *)
SkipInv == parting => skip

IInv == WireInv /\ UserInv /\ SkipInv

-----------------------------------------------------------------------------
LEMMA InitHolds == ASSUME TabsInit PROVE IInv
  BY DEF TabsInit, SessionInit, IInv, WireInv, UserInv, SkipInv, Quiet, Idle, Get

(* Requests that are put in a slot, or change in it. *)
LEMMA SlotFilled ==
  ASSUME WireInv, NEW k \in Kinds, NEW r, DOMAIN r = {"at", "who", "then"},
         wire' = [wire EXCEPT ![k] = r]
  PROVE  WireInv' /\ wire'[k] = r /\ \A l \in Kinds \ {k} : wire'[l] = wire[l]
  BY DEF WireInv

LEMMA SlotChanged ==
  ASSUME WireInv, NEW k \in Kinds, NEW at, wire' = [wire EXCEPT ![k].at = at]
  PROVE  WireInv' /\ wire'[k].at = at /\ \A l \in Kinds \ {k} : wire'[l] = wire[l]
<1> DEFINE r == [wire[k] EXCEPT !.at = at]
<1>1. DOMAIN r = {"at", "who", "then"} /\ r.at = at
  BY DEF WireInv
<1>2. wire' = [wire EXCEPT ![k] = r]
  OBVIOUS
<1> HIDE DEF r
<1> QED BY <1>1, <1>2, SlotFilled

LEMMA Shapes ==
  /\ DOMAIN Idle = {"at", "who", "then"} /\ Idle.at = "idle"
  /\ DOMAIN Get = {"at", "who", "then"} /\ Get.at = "sent"
  /\ \A who, then : /\ DOMAIN Unsafe(who, then) = {"at", "who", "then"}
                    /\ Unsafe(who, then).at \in {"sent", "bare"}
  BY DEF Idle, Get, Unsafe

LEMMA KindsAre ==
  Kinds = {"probe", "afterLogin", "afterLogout", "login", "logout", "page", "log"}
  BY DEF Kinds, Reads

-----------------------------------------------------------------------------
(* The server. *)

(* A request of whoever the caller is leaves the caller. *)
LEMMA SameCaller == ASSUME session' = Caller, UNCHANGED deploy PROVE Caller' = Caller
  BY DEF Caller

LEMMA ServeStep == ASSUME IInv, Serve PROVE IInv'
<1>1. CASE ServeLogin
  <2>1. WireInv' /\ \A l \in Kinds \ {"login"} : wire'[l] = wire[l]
    BY <1>1, SlotChanged, KindsAre DEF ServeLogin, IInv
  <2>2. wire'["login"].at = "ok" \/ session' = Caller
    BY <1>1, SlotChanged, KindsAre DEF ServeLogin, IInv, Waiting
  <2>3. wire["login"].at # "ok"
    BY <1>1 DEF ServeLogin, Waiting
  <2> QED BY <1>1, <2>1, <2>2, <2>3, SameCaller, KindsAre
          DEF ServeLogin, IInv, UserInv, SkipInv, clientVars
<1>2. CASE ServeLogout
  <2>1. WireInv' /\ \A l \in Kinds \ {"logout"} : wire'[l] = wire[l]
    BY <1>2, SlotChanged, KindsAre DEF ServeLogout, IInv
  <2>2. wire'["logout"].at = "ok" \/ session' = Caller
    BY <1>2, SlotChanged, KindsAre DEF ServeLogout, IInv, Waiting
  <2>3. wire["logout"].at # "ok"
    BY <1>2 DEF ServeLogout, Waiting
  <2> QED BY <1>2, <2>1, <2>2, <2>3, SameCaller, KindsAre
          DEF ServeLogout, IInv, UserInv, SkipInv, clientVars
<1>3. CASE ServeApi \/ ServeLog
  <2>1. PICK k \in {"page", "log"} : Gated(k)
    BY <1>3 DEF ServeApi, ServeLog
  <2>2. WireInv' /\ \A l \in Kinds \ {k} : wire'[l] = wire[l]
    BY <2>1, SlotChanged, KindsAre DEF Gated, IInv
  <2> QED BY <1>3, <2>1, <2>2, SameCaller, KindsAre
          DEF ServeApi, ServeLog, Gated, IInv, UserInv, SkipInv, clientVars
<1>4. ASSUME NEW k \in Kinds, ServeSession(k) PROVE IInv'
  <2> DEFINE r == [Get EXCEPT !.at = "ok", !.who = Caller, !.then = wire[k].then]
  <2>1. DOMAIN r = {"at", "who", "then"} /\ r.at = "ok"
    BY DEF Get
  <2>2. wire' = [wire EXCEPT ![k] = r] /\ k \in Reads /\ wire[k].at # "idle"
    BY <1>4 DEF ServeSession, Waiting
  <2> HIDE DEF r
  <2>3. WireInv' /\ wire'[k] = r /\ \A l \in Kinds \ {k} : wire'[l] = wire[l]
    BY <2>1, <2>2, SlotFilled DEF IInv
  <2> QED BY <1>4, <2>1, <2>2, <2>3, SameCaller, KindsAre
          DEF ServeSession, IInv, UserInv, SkipInv, clientVars, Reads
<1>5. ASSUME NEW k \in Kinds, Lose(k) PROVE IInv'
  <2>1. WireInv'
    BY <1>5, SlotChanged DEF Lose, IInv
  <2> QED BY <1>5, <2>1 DEF Lose, IInv, UserInv, SkipInv, clientVars
<1> QED BY <1>1, <1>2, <1>3, <1>4, <1>5 DEF Serve

-----------------------------------------------------------------------------
(* The browser takes answers. *)

(* A read that is taken shows the caller, or is stale. *)
LEMMA RefreshStep ==
  ASSUME NEW k, Refresh(k), UNCHANGED <<deploy, session>>
  PROVE  (~stale' => user' = Caller') /\ (parting' => parting)
  BY DEF Refresh, Caller

LEMMA UnauthorizedStep ==
  ASSUME OnUnauthorized, UNCHANGED <<deploy, session>>
  PROVE  ~stale' => user' = Caller'
  BY DEF OnUnauthorized, Caller

LEMMA TakeStep == ASSUME IInv, Take PROVE IInv'
<1> USE KindsAre, Shapes
<1>1. CASE TakeProbe
  <2>1. WireInv'
    BY <1>1, SlotFilled DEF TakeProbe, IInv
  <2> QED BY <1>1, <2>1, RefreshStep DEF TakeProbe, IInv, UserInv, SkipInv
<1>2. CASE TakeLogin
  <2> DEFINE r == IF wire["login"].at = "ok"
                  THEN [Get EXCEPT !.then = wire["login"].then] ELSE wire["afterLogin"]
  <2>1. /\ DOMAIN r = {"at", "who", "then"}
        /\ wire["login"].at = "ok" => r.at = "sent"
        /\ wire["login"].at # "ok" => r = wire["afterLogin"]
    BY DEF Get, IInv, WireInv
  <2>2. wire' = [wire EXCEPT !["login"] = Idle, !["afterLogin"] = r]
    BY <1>2 DEF TakeLogin
  <2> HIDE DEF r
  <2>3. /\ WireInv' /\ wire'["afterLogin"] = r
        /\ wire'["logout"] = wire["logout"] /\ wire'["afterLogout"] = wire["afterLogout"]
    BY <2>1, <2>2 DEF IInv, WireInv
  <2>4. CASE wire["login"].at = "ok"
    BY <1>2, <2>1, <2>3, <2>4 DEF TakeLogin, IInv, UserInv, SkipInv
  <2>5. CASE wire["login"].at = "refused"
    BY <1>2, <2>1, <2>3, <2>5, UnauthorizedStep DEF TakeLogin, IInv, UserInv, SkipInv
  <2>6. CASE wire["login"].at = "failed"
    BY <1>2, <2>1, <2>3, <2>6 DEF TakeLogin, IInv, UserInv, SkipInv, Caller
  <2> QED BY <1>2, <2>4, <2>5, <2>6 DEF TakeLogin, Answered
<1>3. CASE TakeAfterLogin
  <2>1. WireInv'
    BY <1>3, SlotFilled DEF TakeAfterLogin, IInv
  <2> QED BY <1>3, <2>1, RefreshStep DEF TakeAfterLogin, IInv, UserInv, SkipInv
<1>4. CASE TakeLogout
  <2>1. WireInv' /\ wire'["afterLogout"].at = "sent"
    BY <1>4 DEF TakeLogout, IInv, WireInv
  <2> QED BY <1>4, <2>1 DEF TakeLogout, IInv, UserInv, SkipInv
<1>5. CASE TakeAfterLogout
  <2>1. WireInv'
    BY <1>5, SlotFilled DEF TakeAfterLogout, IInv
  <2> QED BY <1>5, <2>1, RefreshStep DEF TakeAfterLogout, IInv, UserInv, SkipInv
<1>6. CASE TakeApi
  <2>1. WireInv' /\ \A l \in Kinds \ {"page"} : wire'[l] = wire[l]
    BY <1>6, SlotFilled DEF TakeApi, IInv
  <2>2. CASE wire["page"].at = "refused"
    BY <1>6, <2>1, <2>2, UnauthorizedStep DEF TakeApi, IInv, UserInv, SkipInv
  <2>3. CASE wire["page"].at # "refused"
    BY <1>6, <2>1, <2>3 DEF TakeApi, IInv, UserInv, SkipInv, Caller
  <2> QED BY <2>2, <2>3
<1>7. CASE TakeLog
  <2>1. WireInv' /\ \A l \in Kinds \ {"log"} : wire'[l] = wire[l]
    BY <1>7, SlotFilled DEF TakeLog, IInv
  <2> QED BY <1>7, <2>1 DEF TakeLog, IInv, UserInv, SkipInv, Caller, clientVars
<1> QED BY <1>1, <1>2, <1>3, <1>4, <1>5, <1>6, <1>7 DEF Take

-----------------------------------------------------------------------------
(* What the user, the router, other tabs and the effects do. *)

(* A step that leaves the user, the session and its requests alone. *)
LEMMA OtherSlots ==
  ASSUME IInv, UNCHANGED <<deploy, session, user, loading, skip, parting, stale>>,
         NEW k \in {"page", "log"}, NEW r, DOMAIN r = {"at", "who", "then"},
         wire' = [wire EXCEPT ![k] = r]
  PROVE  IInv'
<1>1. WireInv' /\ \A l \in Kinds \ {k} : wire'[l] = wire[l]
  BY SlotFilled, KindsAre DEF IInv
<1> QED BY <1>1, KindsAre DEF IInv, UserInv, SkipInv, Caller

(* A login or logout that sets out. *)
LEMMA SetsOut ==
  ASSUME IInv, UNCHANGED <<deploy, session, user, loading, stale>>, parting' => skip',
         NEW k \in {"login", "logout"}, wire[k] = Idle, NEW who, NEW then,
         wire' = [wire EXCEPT ![k] = Unsafe(who, then)]
  PROVE  IInv'
<1> DEFINE r == Unsafe(who, then)
<1>1. DOMAIN r = {"at", "who", "then"} /\ r.at \in {"sent", "bare"} /\ Idle.at = "idle"
  BY Shapes
<1> HIDE DEF r
<1>2. k \in Kinds
  BY KindsAre
<1>3. WireInv' /\ wire'[k] = r /\ \A l \in Kinds \ {k} : wire'[l] = wire[l]
  BY <1>1, <1>2, SlotFilled DEF IInv, r
<1> QED BY <1>1, <1>3, KindsAre DEF IInv, UserInv, SkipInv, Caller

LEMMA MoveStep ==
  ASSUME IInv,
         \/ BounceToLogin \/ LeaveLogin \/ Arrive \/ ClickLogout \/ CallApi \/ ShipLog
         \/ \E p \in Pages : Navigate(p)
         \/ \E a \in Apps : ClickApp(a)
         \/ \E u \in Who : SubmitLogin(u) \/ Elsewhere(u)
  PROVE  IInv'
<1>1. CASE BounceToLogin \/ LeaveLogin \/ Arrive
  BY <1>1 DEF BounceToLogin, LeaveLogin, Arrive, clientVars,
              IInv, WireInv, UserInv, SkipInv, Caller
<1>2. CASE ClickLogout
  BY <1>2, SetsOut DEF ClickLogout, clientVars
<1>3. CASE CallApi
  BY <1>3, OtherSlots, Shapes DEF CallApi, clientVars
<1>4. CASE ShipLog
  BY <1>4, OtherSlots, Shapes DEF ShipLog
<1>5. ASSUME NEW p, Navigate(p) PROVE IInv'
  BY <1>5 DEF Navigate, clientVars, IInv, WireInv, UserInv, SkipInv, Caller
<1>6. CASE \E a \in Apps : ClickApp(a)
  BY <1>5, <1>6 DEF ClickApp
<1>7. ASSUME NEW u \in Who, SubmitLogin(u) PROVE IInv'
  BY <1>7, SetsOut DEF SubmitLogin, clientVars, IInv, SkipInv
<1>8. ASSUME NEW u \in Who, Elsewhere(u) PROVE IInv'
  BY <1>8 DEF Elsewhere, clientVars, IInv, WireInv, UserInv, SkipInv
<1> QED BY <1>1, <1>2, <1>3, <1>4, <1>5, <1>6, <1>7, <1>8

(* A new document knows nobody yet. *)
LEMMA DocumentStep == ASSUME IInv, NextDocument PROVE IInv'
<1>1. CASE AutoLogin \/ ClickMicrosoft
  BY <1>1, Shapes DEF AutoLogin, ClickMicrosoft, LeaveForSso, Unload, Quiet,
                      IInv, WireInv, UserInv, SkipInv
<1>2. ASSUME NEW p, NEW who, Open(p, who) PROVE IInv'
  <2>1. WireInv'
    BY <1>2, Shapes DEF Open, Quiet, WireInv
  <2> QED BY <1>2, <2>1 DEF Open, Unload, IInv, UserInv, SkipInv
<1>3. CASE \E p \in Pages \union {Login} : Load(p)
  BY <1>2, <1>3 DEF Load
<1>4. CASE \E u \in Who : SsoReturns(u)
  BY <1>2, <1>4 DEF SsoReturns
<1> QED BY <1>1, <1>3, <1>4 DEF NextDocument

LEMMA TabsStep ==
  ASSUME IInv,
         \/ Restore \/ RecordTab \/ Persist
         \/ \E a \in Apps : Close(a)
         \/ \E from, to \in 1..Cardinality(Apps) : MoveTab(from, to)
         \/ \E list \in OtherLists : OtherWrites(list)
         \/ UNCHANGED vars
  PROVE  IInv'
<1>1. CASE Restore \/ RecordTab \/ Persist \/ UNCHANGED vars
  BY <1>1 DEF Restore, RecordTab, Persist, vars, svars, IInv, WireInv, UserInv, SkipInv, Caller
<1>2. ASSUME NEW a, Close(a) PROVE IInv'
  BY <1>2 DEF Close, clientVars, IInv, WireInv, UserInv, SkipInv, Caller
<1>3. ASSUME NEW from, NEW to, MoveTab(from, to) PROVE IInv'
  BY <1>3 DEF MoveTab, clientVars, IInv, WireInv, UserInv, SkipInv, Caller
<1>4. ASSUME NEW list, OtherWrites(list) PROVE IInv'
  BY <1>4 DEF OtherWrites, clientVars, IInv, WireInv, UserInv, SkipInv, Caller
<1> QED BY <1>1, <1>2, <1>3, <1>4

LEMMA StepHolds == ASSUME IInv, [TabsNext]_vars PROVE IInv'
  BY ServeStep, TakeStep, MoveStep, DocumentStep, TabsStep DEF TabsNext, SameDocument

-----------------------------------------------------------------------------
LEMMA Invariant == TabsSpec => []IInv
  BY InitHolds, StepHolds, PTL DEF TabsSpec

(* Once no session request is under way, the user shown is the one the     *)
(* server knows: whatever order logins, logouts, reads and 401 events come *)
(* in, for any accounts and any deployment.                                *)
THEOREM ShownIsServed == TabsSpec => []ShownUserIsSession
<1>1. IInv => ShownUserIsSession
  BY KindsAre, Shapes DEF IInv, UserInv, ShownUserIsSession
<1> QED BY <1>1, Invariant, PTL

-----------------------------------------------------------------------------
(* Lists of tabs. *)
Distinct(list) == \A i, j \in DOMAIN list : list[i].app = list[j].app => i = j

(* Induction over the naturals, for a set: the library's is for an operator.*)
LEMMA CountingUp ==
  ASSUME NEW T, 0 \in T, \A n \in Nat : n \in T => n + 1 \in T
  PROVE  \A n \in Nat : n \in T
<1> DEFINE Bad == {n \in Nat : n \notin T}
           R == OpToRel(<, Nat)
<1> SUFFICES ASSUME Bad # {} PROVE FALSE
  OBVIOUS
<1>1. IsWellFoundedOn(R, Nat)
  BY NatLessThanWellFounded
<1>2. \A m, n \in Nat : m < n <=> <<m, n>> \in R
  BY DEF OpToRel
<1> HIDE DEF R
<1>3. Bad \subseteq Nat
  OBVIOUS
<1>4. PICK n \in Bad : \A m \in Bad : ~(<<m, n>> \in R)
  <2> HIDE DEF Bad
  <2> QED BY <1>1, <1>3, WFMin
<1>5. n - 1 \in Nat /\ n - 1 < n
  BY <1>4
<1>6. n - 1 \in T
  BY <1>2, <1>4, <1>5
<1> QED BY <1>4, <1>5, <1>6

LEMMA Appended ==
  ASSUME NEW s \in Seq(Tab), NEW t \in Tab
  PROVE  /\ Append(s, t) \in Seq(Tab)
         /\ ToSet(Append(s, t)) = ToSet(s) \union {t}
         /\ Distinct(s) /\ (\A x \in ToSet(s) : x.app # t.app) => Distinct(Append(s, t))
<1>1. /\ DOMAIN s = 1..Len(s) /\ DOMAIN Append(s, t) = 1..(Len(s) + 1) /\ Len(s) \in Nat
      /\ \A i \in 1..Len(s) : Append(s, t)[i] = s[i]
      /\ Append(s, t)[Len(s) + 1] = t
  OBVIOUS
<1>2. ToSet(Append(s, t)) = ToSet(s) \union {t}
  BY <1>1 DEF ToSet
<1>3. ASSUME Distinct(s), \A x \in ToSet(s) : x.app # t.app PROVE Distinct(Append(s, t))
  BY <1>1, <1>3 DEF Distinct, ToSet
<1> QED BY <1>2, <1>3

AsJoined(all, l, r) ==
  /\ all \in Seq(Tab) /\ DOMAIN all = 1..(Len(l) + Len(r))
  /\ \A k \in 1..(Len(l) + Len(r)) : all[k] = IF k <= Len(l) THEN l[k] ELSE r[k - Len(l)]

LEMMA Joined ==
  ASSUME NEW l \in Seq(Tab), NEW r \in Seq(Tab)
  PROVE  AsJoined(l \o r, l, r)
<1>1. Len(l) \in Nat /\ Len(r) \in Nat
  OBVIOUS
<1>2. l \o r \in Seq(Tab) /\ DOMAIN (l \o r) = 1..(Len(l) + Len(r))
  OBVIOUS
<1>3. \A k \in 1..(Len(l) + Len(r)) : (l \o r)[k] = IF k <= Len(l) THEN l[k] ELSE r[k - Len(l)]
  OBVIOUS
<1> QED BY <1>2, <1>3 DEF AsJoined

LEMMA Removed ==
  ASSUME NEW s \in Seq(Tab), NEW i \in DOMAIN s
  PROVE  /\ RemoveAt(s, i) \in Seq(Tab)
         /\ DOMAIN RemoveAt(s, i) = 1..(Len(s) - 1)
         /\ \A k \in 1..(Len(s) - 1) : RemoveAt(s, i)[k] = IF k < i THEN s[k] ELSE s[k + 1]
<1> DEFINE l == SubSeq(s, 1, i - 1)  r == SubSeq(s, i + 1, Len(s))
<1>1. Len(s) \in Nat /\ i \in 1..Len(s)
  OBVIOUS
<1>2. l \in Seq(Tab) /\ Len(l) = i - 1 /\ \A k \in 1..(i - 1) : l[k] = s[k]
  BY <1>1
<1>3. r \in Seq(Tab) /\ Len(r) = Len(s) - i /\ \A k \in 1..(Len(s) - i) : r[k] = s[i + k]
  BY <1>1
<1>4. RemoveAt(s, i) = l \o r
  BY DEF RemoveAt
<1> HIDE DEF l, r
<1>5. /\ l \o r \in Seq(Tab) /\ DOMAIN (l \o r) = 1..(Len(s) - 1)
      /\ \A k \in 1..(Len(s) - 1) : (l \o r)[k] = IF k < i THEN l[k] ELSE r[k - (i - 1)]
  <2> DEFINE all == l \o r
  <2>1. AsJoined(all, l, r)
    BY <1>2, <1>3, Joined
  <2> HIDE DEF all
  <2>2. Len(l) + Len(r) = Len(s) - 1 /\ \A k \in Int : k <= Len(l) <=> k < i
    BY <1>1, <1>2, <1>3
  <2>3. all \in Seq(Tab) /\ DOMAIN all = 1..(Len(s) - 1)
    BY <2>1, <2>2 DEF AsJoined
  <2>4. ASSUME NEW k \in 1..(Len(s) - 1) PROVE all[k] = IF k < i THEN l[k] ELSE r[k - (i - 1)]
    <3>1. all[k] = IF k <= Len(l) THEN l[k] ELSE r[k - Len(l)]
      BY <2>1, <2>2 DEF AsJoined
    <3> QED BY <1>2, <2>2, <3>1
  <2> QED BY <2>3, <2>4 DEF all
<1>6. ASSUME NEW k \in 1..(Len(s) - 1) PROVE (l \o r)[k] = IF k < i THEN s[k] ELSE s[k + 1]
  <2>1. CASE k < i
    BY <1>1, <1>2, <1>5, <2>1
  <2>2. CASE ~(k < i)
    <3>1. k - (i - 1) \in 1..(Len(s) - i) /\ i + (k - (i - 1)) = k + 1
      BY <1>1, <2>2
    <3>2. (l \o r)[k] = r[k - (i - 1)]
      BY <1>5, <2>2
    <3>3. r[k - (i - 1)] = s[i + (k - (i - 1))]
      BY <1>3, <3>1
    <3> QED BY <2>2, <3>1, <3>2, <3>3
  <2> QED BY <2>1, <2>2
<1> QED BY <1>4, <1>5, <1>6

AsInserted(new, s, i, t) ==
  /\ new \in Seq(Tab) /\ DOMAIN new = 1..(Len(s) + 1)
  /\ \A k \in 1..(Len(s) + 1) : new[k] = IF k < i THEN s[k] ELSE IF k = i THEN t ELSE s[k - 1]

LEMMA Inserted ==
  ASSUME NEW s \in Seq(Tab), NEW i \in 1..(Len(s) + 1), NEW t \in Tab
  PROVE  AsInserted(InsertAt(s, i, t), s, i, t)
<1> DEFINE l == SubSeq(s, 1, i - 1)  r == SubSeq(s, i, Len(s))
<1>1. Len(s) \in Nat
  OBVIOUS
<1>2. l \in Seq(Tab) /\ Len(l) = i - 1 /\ \A k \in 1..(i - 1) : l[k] = s[k]
  BY <1>1
<1>3. r \in Seq(Tab) /\ Len(r) = Len(s) - i + 1 /\ \A k \in 1..(Len(s) - i + 1) : r[k] = s[i + k - 1]
  BY <1>1
<1>4. InsertAt(s, i, t) = (l \o <<t>>) \o r
  BY DEF InsertAt
<1> DEFINE m == l \o <<t>>
<1> HIDE DEF l, r
<1>5. m \in Seq(Tab) /\ Len(m) = i /\ m[i] = t /\ \A k \in 1..(i - 1) : m[k] = l[k]
  <2>1. m = Append(l, t)
    BY <1>2
  <2> HIDE DEF m
  <2> QED BY <1>1, <1>2, <2>1
<1> HIDE DEF m
<1> DEFINE all == m \o r
<1>6. all \in Seq(Tab) /\ DOMAIN all = 1..(Len(m) + Len(r))
      /\ \A k \in 1..(Len(m) + Len(r)) : all[k] = IF k <= Len(m) THEN m[k] ELSE r[k - Len(m)]
  <2>1. AsJoined(all, m, r)
    BY <1>3, <1>5, Joined
  <2> HIDE DEF all
  <2> QED BY <2>1 DEF AsJoined
<1>7. InsertAt(s, i, t) = all
  BY <1>4 DEF m
<1> HIDE DEF all
<1>8. Len(m) + Len(r) = Len(s) + 1
  BY <1>1, <1>3, <1>5
<1>9. ASSUME NEW k \in 1..(Len(s) + 1)
      PROVE  all[k] = IF k < i THEN s[k] ELSE IF k = i THEN t ELSE s[k - 1]
  <2>1. all[k] = IF k <= i THEN m[k] ELSE r[k - i]
    BY <1>5, <1>6, <1>8
  <2>2. CASE k < i
    BY <1>1, <1>2, <1>5, <2>1, <2>2
  <2>3. CASE k = i
    BY <1>1, <1>5, <2>1, <2>3
  <2>4. CASE k > i
    <3>1. k - i \in 1..(Len(s) - i + 1) /\ i + (k - i) - 1 = k - 1
      BY <1>1, <2>4
    <3>2. all[k] = s[k - 1]
      BY <1>3, <2>1, <2>4, <3>1
    <3> QED BY <1>1, <2>4, <3>2
  <2> QED BY <1>1, <2>2, <2>3, <2>4
<1>10. /\ all \in Seq(Tab) /\ DOMAIN all = 1..(Len(s) + 1)
       /\ \A k \in 1..(Len(s) + 1) : all[k] = IF k < i THEN s[k] ELSE IF k = i THEN t ELSE s[k - 1]
  BY <1>6, <1>8, <1>9
<1> QED BY <1>7, <1>10 DEF AsInserted

(* What is shown of a list: the tabs the user may see, each once. *)
Filtered(s, list, n) ==
  /\ s \in Seq(Tab)
  /\ ToSet(s) = {list[i] : i \in {j \in 1..n : list[j].app \in Allowed}}
  /\ Distinct(s)

VisibleStep(g, list, n) ==
  IF n = 0 THEN <<>>
  ELSE IF list[n].app \in Allowed THEN Append(g[n - 1], list[n]) ELSE g[n - 1]

LEMMA FilterExists ==
  ASSUME NEW list \in Seq(Tab), Distinct(list)
  PROVE  \E g : g = [n \in 0..Len(list) |-> VisibleStep(g, list, n)]
<1> DEFINE N == Len(list)
           Upto(g, n) == DOMAIN g = 0..N /\ \A m \in 0..N : m <= n => g[m] = VisibleStep(g, list, m)
           T == {n \in Nat : \E g : Upto(g, n)}
<1>1. N \in Nat
  OBVIOUS
<1> HIDE DEF N
<1>2. 0 \in T
  <2> DEFINE g == [m \in 0..N |-> <<>>]
  <2>1. Upto(g, 0)
    BY DEF VisibleStep
  <2> QED BY <2>1
<1>3. ASSUME NEW n \in Nat, n \in T PROVE n + 1 \in T
  <2>1. PICK g : Upto(g, n)
    BY <1>3
  <2> DEFINE h == [m \in 0..N |-> IF m <= n THEN g[m] ELSE VisibleStep(g, list, m)]
  <2>2. ASSUME NEW m \in 0..N, m <= n + 1 PROVE h[m] = VisibleStep(h, list, m)
    <3>1. h[m] = VisibleStep(g, list, m)
      BY <2>1
    <3>2. m # 0 => h[m - 1] = g[m - 1]
      <4>1. m # 0 => m - 1 \in 0..N /\ m - 1 <= n
        BY <1>1, <2>2
      <4> QED BY <4>1
    <3> QED BY <3>1, <3>2 DEF VisibleStep
  <2>3. Upto(h, n + 1)
    BY <2>2
  <2> HIDE DEF h
  <2>4. \E f : Upto(f, n + 1)
    <3> HIDE DEF Upto
    <3> QED BY <2>3
  <2> HIDE DEF Upto
  <2> QED BY <2>4
<1>4. N \in T
  <2> HIDE DEF T
  <2> QED BY <1>1, <1>2, <1>3, CountingUp
<1>5. PICK g : Upto(g, N)
  BY <1>4
<1>6. g = [n \in 0..N |-> VisibleStep(g, list, n)] => \E f : f = [n \in 0..N |-> VisibleStep(f, list, n)]
  OBVIOUS
<1> QED BY <1>5, <1>6 DEF N

LEMMA VisibleIs ==
  ASSUME NEW list \in Seq(Tab), Distinct(list)
  PROVE  Filtered(Visible(list), list, Len(list))
<1> DEFINE N == Len(list)
           P(g) == g = [n \in 0..N |->
                          IF n = 0 THEN <<>>
                          ELSE IF list[n].app \in Allowed THEN Append(g[n - 1], list[n])
                          ELSE g[n - 1]]
           upTo == CHOOSE g : P(g)
<1>1. P(upTo)
  <2>1. \E g : P(g)
    BY FilterExists DEF VisibleStep
  <2> QED BY <2>1
<1>2. Visible(list) = upTo[N]
  BY DEF Visible
<1>3. N \in Nat /\ DOMAIN list = 1..N /\ \A n \in 1..N : list[n] \in Tab
  OBVIOUS
<1> HIDE DEF upTo, N
<1>4. upTo[0] = <<>>
  BY <1>1, <1>3
<1>5. ASSUME NEW n \in 1..N
      PROVE  upTo[n] = IF list[n].app \in Allowed THEN Append(upTo[n - 1], list[n]) ELSE upTo[n - 1]
  <2>1. n \in 0..N /\ n # 0
    BY <1>3
  <2>2. upTo[n] = IF n = 0 THEN <<>>
                  ELSE IF list[n].app \in Allowed THEN Append(upTo[n - 1], list[n])
                  ELSE upTo[n - 1]
    BY <1>1, <2>1, Zenon
  <2> QED BY <2>1, <2>2
<1> DEFINE T == {n \in Nat : n <= N => Filtered(upTo[n], list, n)}
<1>6. 0 \in T
  <2>1. <<>> \in Seq(Tab) /\ ToSet(<<>>) = {} /\ Distinct(<<>>)
    BY DEF ToSet, Distinct
  <2>2. {list[i] : i \in {j \in 1..0 : list[j].app \in Allowed}} = {}
    OBVIOUS
  <2> QED BY <1>4, <2>1, <2>2 DEF Filtered
<1>7. ASSUME NEW n \in Nat, n \in T PROVE n + 1 \in T
  <2> SUFFICES ASSUME n + 1 <= N PROVE Filtered(upTo[n + 1], list, n + 1)
    OBVIOUS
  <2> DEFINE s == upTo[n]  t == list[n + 1]
  <2>1. Filtered(s, list, n) /\ t \in Tab
    BY <1>3, <1>7
  <2>2. upTo[n + 1] = IF t.app \in Allowed THEN Append(s, t) ELSE s
    BY <1>3, <1>5
  <2>3. \A i \in 1..n : list[i].app # t.app
    BY <1>3 DEF Distinct
  <2>4. \A x \in ToSet(s) : x.app # t.app
    BY <2>1, <2>3 DEF Filtered
  <2>5. {j \in 1..(n + 1) : list[j].app \in Allowed}
        = {j \in 1..n : list[j].app \in Allowed} \union (IF t.app \in Allowed THEN {n + 1} ELSE {})
    OBVIOUS
  <2> HIDE DEF s
  <2>6. CASE t.app \in Allowed
    <3>1. Append(s, t) \in Seq(Tab) /\ ToSet(Append(s, t)) = ToSet(s) \union {t} /\ Distinct(Append(s, t))
      BY <2>1, <2>4, Appended DEF Filtered
    <3>2. {list[i] : i \in {j \in 1..(n + 1) : list[j].app \in Allowed}}
          = {list[i] : i \in {j \in 1..n : list[j].app \in Allowed}} \union {t}
      BY <2>5, <2>6
    <3> QED BY <2>1, <2>2, <2>6, <3>1, <3>2 DEF Filtered
  <2>7. CASE t.app \notin Allowed
    BY <2>1, <2>2, <2>5, <2>7 DEF Filtered
  <2> QED BY <2>6, <2>7
<1>8. N \in T
  <2> HIDE DEF T
  <2> QED BY <1>3, <1>6, <1>7, CountingUp
<1> QED BY <1>2, <1>3, <1>8 DEF N

LEMMA ShownIs ==
  ASSUME stored \in Seq(Tab), Distinct(stored)
  PROVE  /\ Shown \in Seq(Tab) /\ Distinct(Shown)
         /\ ToSet(Shown) = {t \in ToSet(stored) : t.app \in Allowed}
<1>1. Filtered(Shown, stored, Len(stored))
  BY VisibleIs DEF Shown
<1>2. DOMAIN stored = 1..Len(stored)
  OBVIOUS
<1> QED BY <1>1, <1>2 DEF Filtered, ToSet

-----------------------------------------------------------------------------
(* Types.  Outside the application nothing is asked, and nothing known.    *)
AwayInv == path = Sso => ~config /\ \A k \in Kinds : wire[k].at = "idle"

SessionOK ==
  /\ deploy \in Deployments /\ session \in Who /\ csrf \in BOOLEAN /\ skip \in BOOLEAN
  /\ user \in Who /\ config \in BOOLEAN /\ loading \in BOOLEAN
  /\ path \in Anywhere /\ next \in Pages \union {Login} /\ going \in Target \union {Nowhere}
  /\ wire \in [Kinds -> Request]
  /\ shipped \in 0..MaxShipments /\ moves \in 0..MaxMoves
  /\ parting \in BOOLEAN /\ stale \in BOOLEAN
  /\ AwayInv

TabsOK ==
  /\ stored \in Seq(Tab) /\ storage \in Seq(Tab)
  /\ restored \in BOOLEAN /\ record \in BOOLEAN /\ due \in BOOLEAN
  /\ kept \subseteq Apps /\ shut \in BOOLEAN /\ blind \in BOOLEAN

LEMMA Values ==
  ASSUME SessionOK
  PROVE  /\ Caller \in Who /\ Idle \in Request /\ Get \in Request /\ Quiet \in [Kinds -> Request]
         /\ \A who \in Who, then \in Pages \union {Login} : Unsafe(who, then) \in Request
         /\ \A p \in Pages \union {Login} : To(p) \in Target /\ ToLogin(p) \in Target
<1>1. Home \in Pages /\ Nobody \in Who
  BY SessionConstants DEF Who
<1>2. deploy.forwarded \in Who
  BY SessionConstants DEF SessionOK, Who
<1> QED BY <1>1, <1>2 DEF SessionOK, Caller, Idle, Get, Quiet, Unsafe, To, ToLogin, Request, Target

LEMMA Filled ==
  ASSUME wire \in [Kinds -> Request], NEW k \in Kinds, NEW r \in Request,
         wire' = [wire EXCEPT ![k] = r]
  PROVE  wire' \in [Kinds -> Request] /\ wire'[k] = r /\ \A l \in Kinds \ {k} : wire'[l] = wire[l]
  OBVIOUS

LEMMA Changed ==
  ASSUME wire \in [Kinds -> Request], NEW k \in Kinds,
         NEW at \in {"idle", "sent", "bare", "ok", "refused", "failed"},
         wire' = [wire EXCEPT ![k].at = at]
  PROVE  wire' \in [Kinds -> Request] /\ \A l \in Kinds \ {k} : wire'[l] = wire[l]
<1> DEFINE r == [wire[k] EXCEPT !.at = at]
<1>1. r \in Request
  BY DEF Request
<1>2. wire' = [wire EXCEPT ![k] = r]
  OBVIOUS
<1> HIDE DEF r
<1> QED BY <1>1, <1>2

(* Only the browser's own documents have requests. *)
LEMMA Away == ASSUME SessionOK, NEW k \in Kinds, wire[k].at # "idle" PROVE path # Sso
  BY DEF SessionOK, AwayInv

LEMMA ServeTypes == ASSUME SessionOK, Serve PROVE SessionOK'
<1> USE KindsAre
<1>1. CASE ServeLogin
  <2> DEFINE at == IF wire["login"].at = "bare" THEN "failed"
                   ELSE IF wire["login"].at = "sent" /\ wire["login"].who # Nobody THEN "ok" ELSE "refused"
  <2>1. wire' = [wire EXCEPT !["login"].at = at] /\ wire["login"].who \in Who
    BY <1>1 DEF ServeLogin, SessionOK, Request
  <2>2. at \in {"idle", "sent", "bare", "ok", "refused", "failed"}
    OBVIOUS
  <2> HIDE DEF at
  <2>3. wire' \in [Kinds -> Request]
    BY <2>1, <2>2, Changed DEF SessionOK
  <2>4. path # Sso
    BY <1>1, Away DEF ServeLogin, Waiting
  <2> QED BY <1>1, <2>1, <2>3, <2>4, Values DEF ServeLogin, SessionOK, AwayInv, clientVars
<1>2. CASE ServeLogout
  <2> DEFINE at == IF wire["logout"].at = "sent" THEN "ok" ELSE "failed"
  <2>1. wire' = [wire EXCEPT !["logout"].at = at]
    BY <1>2 DEF ServeLogout
  <2>2. at \in {"idle", "sent", "bare", "ok", "refused", "failed"}
    OBVIOUS
  <2> HIDE DEF at
  <2>3. wire' \in [Kinds -> Request]
    BY <2>1, <2>2, Changed DEF SessionOK
  <2>4. path # Sso
    BY <1>2, Away DEF ServeLogout, Waiting
  <2>5. Nobody \in Who
    BY DEF Who
  <2> QED BY <1>2, <2>3, <2>4, <2>5, Values DEF ServeLogout, SessionOK, AwayInv, clientVars
<1>3. ASSUME NEW k \in {"page", "log"}, Gated(k) PROVE wire' \in [Kinds -> Request] /\ path # Sso
  <2> DEFINE at == IF deploy.required /\ Caller = Nobody THEN "refused" ELSE "ok"
  <2>1. wire' = [wire EXCEPT ![k].at = at]
    BY <1>3 DEF Gated
  <2>2. at \in {"idle", "sent", "bare", "ok", "refused", "failed"}
    OBVIOUS
  <2> HIDE DEF at
  <2> QED BY <1>3, <2>1, <2>2, Changed, Away DEF SessionOK, Gated, Waiting
<1>4. CASE ServeApi \/ ServeLog
  BY <1>3, <1>4, Values DEF ServeApi, ServeLog, Gated, SessionOK, AwayInv, clientVars
<1>5. ASSUME NEW k \in Kinds, ServeSession(k) PROVE SessionOK'
  <2> DEFINE r == [Get EXCEPT !.at = "ok", !.who = Caller, !.then = wire[k].then]
  <2>1. r \in Request
    BY Values DEF Request, SessionOK
  <2>2. wire' = [wire EXCEPT ![k] = r]
    BY <1>5 DEF ServeSession
  <2> HIDE DEF r
  <2>3. wire' \in [Kinds -> Request]
    BY <2>1, <2>2, Filled DEF SessionOK
  <2>4. path # Sso
    BY <1>5, Away DEF ServeSession, Waiting
  <2> QED BY <1>5, <2>3, <2>4, Values DEF ServeSession, SessionOK, AwayInv, clientVars
<1>6. ASSUME NEW k \in Kinds, Lose(k) PROVE SessionOK'
  <2>1. wire' \in [Kinds -> Request]
    BY <1>6, Changed DEF Lose, SessionOK
  <2>2. path # Sso
    BY <1>6, Away DEF Lose
  <2> QED BY <1>6, <2>1, <2>2, SessionConstants DEF Lose, Move, SessionOK, AwayInv, clientVars
<1> QED BY <1>1, <1>2, <1>4, <1>5, <1>6 DEF Serve

LEMMA TakeTypes == ASSUME SessionOK, Take PROVE SessionOK'
<1> USE KindsAre
<1>1. ASSUME NEW k \in Kinds, Answered(k) PROVE path \in Pages \union {Login}
  BY <1>1, Away DEF Answered, SessionOK, Anywhere
<1>2. ASSUME NEW k \in Kinds, Refresh(k)
      PROVE  user' \in Who /\ config' \in BOOLEAN /\ stale' \in BOOLEAN /\ parting' \in BOOLEAN
  BY <1>2 DEF Refresh, SessionOK, Request, Who
<1>3. ASSUME OnUnauthorized \/ UNCHANGED <<user, going, stale>>, path \in Pages \union {Login}
      PROVE  user' \in Who /\ going' \in Target \union {Nowhere} /\ stale' \in BOOLEAN
  BY <1>3, Values DEF OnUnauthorized, SessionOK, Who
<1>4. CASE TakeProbe
  <2>1. wire' \in [Kinds -> Request]
    BY <1>4, Filled, Values DEF TakeProbe, SessionOK
  <2> QED BY <1>1, <1>2, <1>4, <2>1, SessionConstants DEF TakeProbe, SessionOK, AwayInv
<1>5. CASE TakeLogin
  <2> DEFINE r == IF wire["login"].at = "ok"
                  THEN [Get EXCEPT !.then = wire["login"].then] ELSE wire["afterLogin"]
             w == [wire EXCEPT !["login"] = Idle]
  <2>1. r \in Request /\ w \in [Kinds -> Request]
    BY Values DEF Request, SessionOK
  <2>2. wire' = [w EXCEPT !["afterLogin"] = r]
    BY <1>5 DEF TakeLogin
  <2> HIDE DEF r, w
  <2>3. wire' \in [Kinds -> Request]
    BY <2>1, <2>2
  <2> QED BY <1>1, <1>3, <1>5, <2>3, SessionConstants DEF TakeLogin, SessionOK, AwayInv
<1>6. CASE TakeAfterLogin
  <2>1. wire' \in [Kinds -> Request] /\ going' \in Target
    BY <1>6, Filled, Values DEF TakeAfterLogin, SessionOK, Request
  <2> QED BY <1>1, <1>2, <1>6, <2>1, SessionConstants DEF TakeAfterLogin, SessionOK, AwayInv
<1>7. CASE TakeLogout
  <2> DEFINE w == [wire EXCEPT !["logout"] = Idle]
  <2>1. w \in [Kinds -> Request] /\ wire' = [w EXCEPT !["afterLogout"] = Get]
    BY <1>7, Values DEF TakeLogout, SessionOK
  <2> HIDE DEF w
  <2>2. wire' \in [Kinds -> Request]
    BY <2>1, Values
  <2> QED BY <1>1, <1>7, <2>2, SessionConstants DEF TakeLogout, SessionOK, AwayInv, Who
<1>8. CASE TakeAfterLogout
  <2>1. wire' \in [Kinds -> Request] /\ going' \in Target
    BY <1>8, Filled, Values, SessionConstants DEF TakeAfterLogout, SessionOK
  <2> QED BY <1>1, <1>2, <1>8, <2>1, SessionConstants DEF TakeAfterLogout, SessionOK, AwayInv
<1>9. CASE TakeApi
  <2>1. wire' \in [Kinds -> Request]
    BY <1>9, Filled, Values DEF TakeApi, SessionOK
  <2> QED BY <1>1, <1>3, <1>9, <2>1, SessionConstants DEF TakeApi, SessionOK, AwayInv
<1>10. CASE TakeLog
  <2>1. wire' \in [Kinds -> Request]
    BY <1>10, Filled, Values DEF TakeLog, SessionOK
  <2> QED BY <1>1, <1>10, <2>1, SessionConstants DEF TakeLog, SessionOK, AwayInv, clientVars
<1> QED BY <1>4, <1>5, <1>6, <1>7, <1>8, <1>9, <1>10 DEF Take

(* What the user, the router and the effects of the shell do. *)
LEMMA MoveTypes ==
  ASSUME SessionOK,
         \/ BounceToLogin \/ LeaveLogin \/ Arrive \/ ClickLogout \/ CallApi \/ ShipLog
         \/ \E p \in Pages : Navigate(p)
         \/ \E u \in Who : SubmitLogin(u) \/ Elsewhere(u)
  PROVE  SessionOK'
<1> USE KindsAre
<1>1. moves' \in 0..MaxMoves \/ ~Move
  BY SessionConstants DEF Move, SessionOK
<1>2. CASE BounceToLogin \/ LeaveLogin
  BY <1>2, Values DEF BounceToLogin, LeaveLogin, SessionOK, AwayInv, clientVars
<1>3. CASE Arrive
  <2>1. going \in Target
    BY <1>3 DEF Arrive, SessionOK
  <2>2. path' \in Pages \union {Login} /\ next' \in Pages \union {Login} /\ going' = Nowhere
    BY <1>3, <2>1 DEF Arrive, SessionOK, Target
  <2> QED BY <1>3, <2>2, SessionConstants DEF Arrive, SessionOK, AwayInv, Anywhere, clientVars
<1>4. ASSUME NEW k \in Kinds, NEW who \in Who, NEW then \in Pages \union {Login},
             wire' = [wire EXCEPT ![k] = Unsafe(who, then)]
      PROVE  wire' \in [Kinds -> Request]
  BY <1>4, Values, Filled DEF SessionOK
<1>5. CASE ClickLogout
  <2>1. Nobody \in Who /\ Home \in Pages /\ path # Sso
    BY <1>5, SessionConstants DEF Who, ClickLogout
  <2>2. wire' \in [Kinds -> Request]
    BY <1>4, <1>5, <2>1 DEF ClickLogout
  <2> QED BY <1>1, <1>5, <2>1, <2>2 DEF ClickLogout, SessionOK, AwayInv, clientVars
<1>6. CASE CallApi
  <2>1. wire' \in [Kinds -> Request] /\ path # Sso
    BY <1>6, Values, Filled, SessionConstants DEF CallApi, Painted, SessionOK
  <2> QED BY <1>1, <1>6, <2>1 DEF CallApi, SessionOK, AwayInv, clientVars
<1>7. CASE ShipLog
  <2>1. Nobody \in Who /\ Home \in Pages
    BY SessionConstants DEF Who
  <2>2. shipped' \in 0..MaxShipments
    BY <1>7, SessionConstants DEF ShipLog, SessionOK
  <2>3. wire' \in [Kinds -> Request] /\ path # Sso
    BY <1>4, <1>7, <2>1 DEF ShipLog
  <2> QED BY <1>1, <1>7, <2>2, <2>3 DEF ShipLog, SessionOK, AwayInv
<1>8. ASSUME NEW p \in Pages, Navigate(p) PROVE SessionOK'
  BY <1>1, <1>8, Values DEF Navigate, SessionOK, AwayInv, clientVars
<1>9. ASSUME NEW u \in Who, SubmitLogin(u) PROVE SessionOK'
  <2>1. wire' \in [Kinds -> Request] /\ path # Sso
    BY <1>4, <1>9, SessionConstants DEF SubmitLogin, SessionOK
  <2> QED BY <1>1, <1>9, <2>1 DEF SubmitLogin, SessionOK, AwayInv, clientVars
<1>10. ASSUME NEW u \in Who, Elsewhere(u) PROVE SessionOK'
  BY <1>1, <1>10 DEF Elsewhere, SessionOK, AwayInv, clientVars
<1> QED BY <1>2, <1>3, <1>5, <1>6, <1>7, <1>8, <1>9, <1>10

LEMMA DocumentTypes == ASSUME SessionOK, NextDocument PROVE SessionOK'
<1>1. moves' \in 0..MaxMoves \/ ~Move
  BY SessionConstants DEF Move, SessionOK
<1>2. Nobody \in Who /\ Home \in Pages /\ 0 \in 0..MaxShipments /\ Sso \in Anywhere
  BY SessionConstants DEF Who, Anywhere
<1>3. ASSUME LeaveForSso, UNCHANGED <<deploy, session, csrf, next, stale>>,
             skip' \in BOOLEAN, parting' \in BOOLEAN, moves' \in 0..MaxMoves
      PROVE  SessionOK'
  <2>1. wire' \in [Kinds -> Request] /\ \A k \in Kinds : wire'[k].at = "idle"
    BY <1>3, Values DEF LeaveForSso, Quiet, Idle
  <2> QED BY <1>2, <1>3, <2>1 DEF LeaveForSso, Unload, SessionOK, AwayInv
<1>4. CASE AutoLogin
  BY <1>3, <1>4 DEF AutoLogin, SessionOK
<1>5. CASE ClickMicrosoft
  BY <1>1, <1>3, <1>5 DEF ClickMicrosoft
<1>6. ASSUME NEW p \in Pages \union {Login}, NEW who \in Who, Open(p, who) PROVE SessionOK'
  <2>1. wire' \in [Kinds -> Request]
    <3>1. wire' = [Quiet EXCEPT !["probe"] = Get]
      BY <1>6 DEF Open
    <3>2. Quiet \in [Kinds -> Request] /\ Get \in Request
      BY Values
    <3> QED BY <3>1, <3>2
  <2>2. path' \in Pages \union {Login} /\ next' \in Pages \union {Login}
    BY <1>2, <1>6 DEF Open, SessionOK
  <2> QED BY <1>1, <1>2, <1>6, <2>1, <2>2, SessionConstants
          DEF Open, Unload, SessionOK, AwayInv, Anywhere
<1>7. CASE \E p \in Pages \union {Login} : Load(p)
  BY <1>6, <1>7, Values DEF Load
<1>8. CASE \E u \in Who : SsoReturns(u)
  BY <1>6, <1>8, Values DEF SsoReturns, SessionOK
<1> QED BY <1>4, <1>5, <1>7, <1>8 DEF NextDocument

LEMMA InitTypes == ASSUME TabsInit PROVE SessionOK
<1>1. Nobody \in Who /\ Home \in Pages /\ Home # Sso /\ Login # Sso
  BY SessionConstants DEF Who
<1>2. deploy.forwarded \in Who
  BY SessionConstants DEF TabsInit, SessionInit, Who
<1>3. Idle \in Request /\ Get \in Request
  BY <1>1 DEF Idle, Get, Request
<1>4. wire \in [Kinds -> Request]
  BY <1>3, KindsAre DEF TabsInit, SessionInit, Quiet
<1>5. path \in Pages \union {Login}
  BY <1>1 DEF TabsInit, SessionInit
<1>6. 0 \in 0..MaxShipments /\ 0 \in 0..MaxMoves
  BY SessionConstants
<1> QED BY <1>1, <1>2, <1>4, <1>5, <1>6 DEF TabsInit, SessionInit, SessionOK, AwayInv, Anywhere

-----------------------------------------------------------------------------
(* The tabs.  A tab of the list tells where its app is, once the effect on  *)
(* the URL has run; an app that is kept is in the list, or in the storage   *)
(* that is about to be read.                                               *)
Here == [app |-> Active, href |-> path]

ListsInv ==
  /\ Distinct(stored) /\ Distinct(storage)
  /\ ~restored => record
  /\ ~record /\ ~shut /\ Active \in Allowed => Here \in ToSet(stored)
  /\ ~blind => kept \subseteq AppsIn(IF restored THEN stored ELSE storage)

TabsInv == SessionOK /\ TabsOK /\ ListsInv

LEMMA AllowedApps == ASSUME SessionOK PROVE Allowed \subseteq Apps
<1>1. user \in Users \/ user = Nobody
  BY DEF SessionOK, Who
<1>2. user \in Users => Grants[user] \subseteq Apps
  BY TabsConstants
<1> QED BY <1>1, <1>2 DEF Allowed

LEMMA HereIsATab == ASSUME SessionOK, Active \in Allowed PROVE Here \in Tab /\ Active \in Apps
<1>1. Active \in Apps /\ path \in Pages
  BY AllowedApps, TabsConstants DEF Active
<1> QED BY <1>1 DEF Here, Tab

LEMMA AppsAre ==
  ASSUME NEW list \in Seq(Tab)
  PROVE  /\ AppsIn(list) = {t.app : t \in ToSet(list)}
         /\ AppsIn(list) \subseteq Apps /\ ToSet(list) \subseteq Tab
<1>1. \A i \in DOMAIN list : list[i] \in Tab
  OBVIOUS
<1>2. ToSet(list) \subseteq Tab
  BY <1>1 DEF ToSet
<1>3. AppsIn(list) = {t.app : t \in ToSet(list)}
  BY DEF AppsIn, ToSet
<1>4. \A t \in Tab : t.app \in Apps
  BY DEF Tab
<1> QED BY <1>2, <1>3, <1>4

LEMMA ShownApps ==
  ASSUME TabsInv
  PROVE  /\ Shown \in Seq(Tab) /\ Distinct(Shown)
         /\ ToSet(Shown) = {t \in ToSet(stored) : t.app \in Allowed}
         /\ AppsIn(Shown) = AppsIn(stored) \intersect Allowed
<1>1. /\ Shown \in Seq(Tab) /\ Distinct(Shown)
      /\ ToSet(Shown) = {t \in ToSet(stored) : t.app \in Allowed}
  BY ShownIs DEF TabsInv, TabsOK, ListsInv
<1>2. AppsIn(stored) = {t.app : t \in ToSet(stored)} /\ AppsIn(Shown) = {t.app : t \in ToSet(Shown)}
  BY <1>1, AppsAre DEF TabsInv, TabsOK
<1> QED BY <1>1, <1>2

(* Where an app is in a list that has it. *)
LEMMA Indexed ==
  ASSUME NEW list \in Seq(Tab), NEW a \in AppsIn(list)
  PROVE  /\ IndexOf(list, a) \in DOMAIN list /\ list[IndexOf(list, a)].app = a
         /\ list[IndexOf(list, a)] \in Tab
  BY DEF AppsIn, IndexOf

LEMMA RecordedIs ==
  ASSUME SessionOK, Active \in Allowed, NEW list \in Seq(Tab), Distinct(list)
  PROVE  /\ Recorded(list) \in Seq(Tab) /\ Distinct(Recorded(list))
         /\ Here \in ToSet(Recorded(list))
         /\ AppsIn(list) \union {Active} \subseteq AppsIn(Recorded(list))
<1>1. Here \in Tab
  BY HereIsATab
<1>2. CASE Active \in AppsIn(list)
  <2> DEFINE i == IndexOf(list, Active)  new == [list EXCEPT ![i].href = path]
  <2>1. i \in DOMAIN list /\ list[i].app = Active /\ list[i] \in Tab
    BY <1>2, Indexed
  <2>2. new = [list EXCEPT ![i] = Here]
    <3>1. [list[i] EXCEPT !.href = path] = Here
      BY <2>1 DEF Tab, Here
    <3> HIDE DEF i
    <3> QED BY <2>1, <3>1
  <2> HIDE DEF i, new
  <2>3. /\ new \in Seq(Tab) /\ DOMAIN new = DOMAIN list /\ new[i] = Here
        /\ \A j \in DOMAIN list : j # i => new[j] = list[j]
    BY <1>1, <2>1, <2>2
  <2>4. \A j \in DOMAIN list : new[j].app = list[j].app
    BY <2>1, <2>3 DEF Here
  <2>5. Distinct(new) /\ AppsIn(new) = AppsIn(list) /\ Here \in ToSet(new)
    BY <2>1, <2>3, <2>4 DEF Distinct, AppsIn, ToSet
  <2>6. Recorded(list) = new
    BY <1>2 DEF Recorded, new, i
  <2> QED BY <1>2, <2>3, <2>5, <2>6
<1>3. CASE Active \notin AppsIn(list)
  <2>1. Recorded(list) = Append(list, Here)
    BY <1>3 DEF Recorded, Here
  <2>2. \A x \in ToSet(list) : x.app # Here.app
    BY <1>3, AppsAre DEF Here
  <2>3. /\ Append(list, Here) \in Seq(Tab) /\ Distinct(Append(list, Here))
        /\ ToSet(Append(list, Here)) = ToSet(list) \union {Here}
    BY <1>1, <2>2, Appended
  <2>4. AppsIn(Append(list, Here)) = AppsIn(list) \union {Here.app}
    <3> DEFINE new == Append(list, Here)
    <3> HIDE DEF new
    <3>1. AppsIn(new) = {t.app : t \in ToSet(list) \union {Here}}
      <4>1. new \in Seq(Tab) /\ ToSet(new) = ToSet(list) \union {Here}
        BY <2>3 DEF new
      <4> QED BY ONLY <4>1, AppsAre
    <3>2. AppsIn(list) = {t.app : t \in ToSet(list)}
      BY AppsAre
    <3>3. AppsIn(new) = AppsIn(list) \union {Here.app}
      BY ONLY <3>1, <3>2
    <3> QED BY <3>3 DEF new
  <2>5. Here.app = Active
    BY DEF Here
  <2>6. Here \in ToSet(Append(list, Here))
    BY <2>3
  <2>7. AppsIn(list) \union {Active} \subseteq AppsIn(Append(list, Here))
    BY <2>4, <2>5
  <2> HIDE DEF Recorded
  <2> QED BY <2>1, <2>3, <2>6, <2>7
<1> QED BY <1>2, <1>3

(* A list without one of its tabs. *)
LEMMA RemovedIs ==
  ASSUME NEW s \in Seq(Tab), Distinct(s), NEW i \in DOMAIN s
  PROVE  /\ RemoveAt(s, i) \in Seq(Tab) /\ Distinct(RemoveAt(s, i))
         /\ ToSet(RemoveAt(s, i)) = ToSet(s) \ {s[i]}
<1> DEFINE new == RemoveAt(s, i)
<1>1. Len(s) \in Nat /\ DOMAIN s = 1..Len(s)
  OBVIOUS
<1>2. /\ new \in Seq(Tab) /\ DOMAIN new = 1..(Len(s) - 1)
      /\ \A k \in 1..(Len(s) - 1) : new[k] = IF k < i THEN s[k] ELSE s[k + 1]
  BY Removed
<1> HIDE DEF new
<1> DEFINE from(k) == IF k < i THEN k ELSE k + 1
<1>3. \A k \in DOMAIN new : from(k) \in DOMAIN s /\ from(k) # i /\ new[k] = s[from(k)]
  BY <1>1, <1>2
<1>4. \A j, k \in DOMAIN new : from(j) = from(k) => j = k
  BY <1>1, <1>2
<1> HIDE DEF from
<1>5. Distinct(new) /\ ToSet(new) \subseteq ToSet(s) \ {s[i]}
  BY <1>3, <1>4 DEF ToSet, Distinct
<1>6. ASSUME NEW j \in DOMAIN s, s[j] # s[i] PROVE s[j] \in ToSet(new)
  <2>1. CASE j < i
    <3>1. j \in 1..(Len(s) - 1) /\ new[j] = s[j]
      BY <1>1, <1>2, <2>1
    <3> QED BY <1>2, <3>1 DEF ToSet
  <2>2. CASE j > i
    <3>1. j - 1 \in 1..(Len(s) - 1) /\ new[j - 1] = s[j]
      BY <1>1, <1>2, <2>2
    <3> QED BY <1>2, <3>1 DEF ToSet
  <2> QED BY <1>1, <1>6, <2>1, <2>2
<1>7. ToSet(s) \ {s[i]} \subseteq ToSet(new)
  BY <1>6 DEF ToSet
<1> QED BY <1>2, <1>5, <1>7 DEF new

(* A list with one more tab. *)
LEMMA InsertedIs ==
  ASSUME NEW s \in Seq(Tab), Distinct(s), NEW i \in 1..(Len(s) + 1), NEW t \in Tab,
         \A x \in ToSet(s) : x.app # t.app
  PROVE  /\ InsertAt(s, i, t) \in Seq(Tab) /\ Distinct(InsertAt(s, i, t))
         /\ ToSet(InsertAt(s, i, t)) = ToSet(s) \union {t}
<1> DEFINE new == InsertAt(s, i, t)
<1>1. Len(s) \in Nat /\ DOMAIN s = 1..Len(s) /\ \A k \in 1..Len(s) : s[k].app # t.app
  BY DEF ToSet
<1>2. /\ new \in Seq(Tab) /\ DOMAIN new = 1..(Len(s) + 1)
      /\ \A k \in 1..(Len(s) + 1) : new[k] =
           IF k < i THEN s[k] ELSE IF k = i THEN t ELSE s[k - 1]
  <2>1. AsInserted(new, s, i, t)
    BY Inserted
  <2> HIDE DEF new
  <2> QED BY <2>1 DEF AsInserted
<1> HIDE DEF new
<1> DEFINE from(k) == IF k < i THEN k ELSE k - 1
<1>3. /\ new[i] = t
      /\ \A k \in DOMAIN new \ {i} : from(k) \in DOMAIN s /\ new[k] = s[from(k)]
      /\ \A j, k \in DOMAIN new \ {i} : from(j) = from(k) => j = k
  <2>1. i \in DOMAIN new /\ new[i] = t
    BY <1>1, <1>2
  <2>2. ASSUME NEW k \in DOMAIN new \ {i} PROVE from(k) \in DOMAIN s /\ new[k] = s[from(k)]
    BY <1>1, <1>2, <2>2
  <2>3. ASSUME NEW j \in DOMAIN new \ {i}, NEW k \in DOMAIN new \ {i}, from(j) = from(k) PROVE j = k
    BY <1>1, <1>2, <2>3
  <2> QED BY <2>1, <2>2, <2>3
<1> HIDE DEF from
<1>4. Distinct(new) /\ ToSet(new) \subseteq ToSet(s) \union {t}
  BY <1>1, <1>3 DEF ToSet, Distinct
<1>5. ASSUME NEW j \in DOMAIN s PROVE s[j] \in ToSet(new)
  <2>1. CASE j < i
    <3>1. j \in 1..(Len(s) + 1) /\ new[j] = s[j]
      BY <1>1, <1>2, <2>1
    <3> QED BY <1>2, <3>1 DEF ToSet
  <2>2. CASE ~(j < i)
    <3>1. j + 1 \in 1..(Len(s) + 1) /\ new[j + 1] = s[j]
      BY <1>1, <1>2, <2>2
    <3> QED BY <1>2, <3>1 DEF ToSet
  <2> QED BY <2>1, <2>2
<1>6. t \in ToSet(new)
  <2>1. i \in DOMAIN new /\ new[i] = t
    BY <1>1, <1>2
  <2> QED BY <2>1 DEF ToSet
<1>7. ToSet(s) \union {t} \subseteq ToSet(new)
  BY <1>5, <1>6 DEF ToSet
<1> QED BY <1>2, <1>4, <1>7 DEF new

(* The parts of a step. *)
LEMMA ListsHold ==
  ASSUME Distinct(stored'), Distinct(storage'), ~restored' => record',
         ~record' /\ ~shut' /\ Active' \in Allowed' => Here' \in ToSet(stored'),
         ~blind' => kept' \subseteq AppsIn(IF restored' THEN stored' ELSE storage')
  PROVE  ListsInv'
  BY DEF ListsInv

LEMMA Deployed == ASSUME SameDocument PROVE deploy' = deploy
  BY DEF SameDocument, Serve, Take, ServeLogin, ServeLogout, ServeApi, ServeLog, ServeSession, Lose,
         TakeProbe, TakeLogin, TakeAfterLogin, TakeLogout, TakeAfterLogout, TakeApi, TakeLog,
         BounceToLogin, LeaveLogin, Arrive, ClickLogout, CallApi, ShipLog, Navigate, ClickApp,
         SubmitLogin, Elsewhere

LEMMA FollowStep == ASSUME TabsInv, SameDocument, Follow PROVE TabsInv'
<1>1. ASSUME NEW a \in Apps, ClickApp(a) PROVE \E p \in Pages : Navigate(p)
  <2>1. HrefFor(a) \in Pages
    <3>1. CASE a \in AppsIn(Shown)
      <4>1. Shown[IndexOf(Shown, a)] \in Tab
        BY <3>1, ShownApps, Indexed
      <4> QED BY <3>1, <4>1 DEF HrefFor, Tab
    <3>2. CASE a \notin AppsIn(Shown)
      BY <3>2, TabsConstants DEF HrefFor
    <3> QED BY <3>1, <3>2
  <2> QED BY <1>1, <2>1 DEF ClickApp
<1>2. SessionOK'
  BY <1>1, ServeTypes, TakeTypes, MoveTypes DEF TabsInv, SameDocument
<1>3. TabsOK'
  BY <1>2 DEF TabsInv, TabsOK, Follow, SessionOK
<1>4. ~record' => ~record /\ UNCHANGED <<path, user, config, deploy>>
  BY Deployed DEF Follow, Learns
<1>5. ~record' /\ ~shut' => ~shut /\ Here' = Here /\ Active' = Active /\ Allowed' = Allowed
  BY <1>4 DEF Follow, Here, Active, Allowed, TabsInv, TabsOK
<1>6. ListsInv'
  BY <1>4, <1>5, ListsHold DEF Follow, TabsInv, ListsInv, TabsOK
<1> QED BY <1>2, <1>3, <1>6 DEF TabsInv

LEMMA RemountStep == ASSUME TabsInv, NextDocument, Remount PROVE TabsInv'
<1>1. SessionOK'
  BY DocumentTypes DEF TabsInv
<1>2. TabsOK'
  <2>1. stored' \in Seq(Tab)
    BY DEF Remount
  <2> QED BY <2>1 DEF TabsInv, TabsOK, Remount
<1>3. ~blind' => kept' \subseteq AppsIn(storage)
  <2> SUFFICES ASSUME ~blind' PROVE kept' \subseteq AppsIn(storage)
    OBVIOUS
  <2>1. ~blind /\ storage = Shown /\ kept' = kept \intersect Allowed
    BY DEF Remount, TabsInv, TabsOK
  <2> QED BY <2>1, ShownApps DEF TabsInv, ListsInv
<1>4. Distinct(stored')
  BY DEF Remount, Distinct
<1>5. ListsInv'
  BY <1>3, <1>4, ListsHold DEF Remount, TabsInv, ListsInv
<1> QED BY <1>1, <1>2, <1>5 DEF TabsInv

(* What another window writes is not read here, but by the next document.  *)
LEMMA OtherStep == ASSUME TabsInv, NEW list \in OtherLists, OtherWrites(list) PROVE TabsInv'
<1>1. list \in Seq(Tab) /\ Distinct(list)
  BY TabsConstants DEF Distinct
<1>2. SessionOK' /\ UNCHANGED <<Here, Active, Allowed>>
  BY SessionConstants DEF OtherWrites, TabsInv, SessionOK, AwayInv, Move, clientVars, Here, Active, Allowed
<1>3. TabsOK'
  BY <1>1 DEF OtherWrites, TabsInv, TabsOK
<1>4. ListsInv'
  BY <1>1, <1>2, ListsHold DEF OtherWrites, TabsInv, ListsInv, TabsOK
<1> QED BY <1>2, <1>3, <1>4 DEF TabsInv

LEMMA EffectStep == ASSUME TabsInv, Restore \/ RecordTab \/ Persist PROVE TabsInv'
<1>1. UNCHANGED svars => UNCHANGED <<SessionOK, Here, Active, Allowed>>
  BY DEF svars, SessionOK, AwayInv, Here, Active, Allowed
<1>2. CASE Restore
  <2>1. TabsOK' /\ ListsInv'
    BY <1>1, <1>2 DEF Restore, TabsInv, TabsOK, ListsInv, Distinct, AppsIn
  <2> QED BY <1>1, <1>2, <2>1 DEF Restore, TabsInv
<1>3. CASE RecordTab
  <2>1. CASE Active \in Allowed
    <3>1. /\ stored' \in Seq(Tab) /\ Distinct(stored') /\ Here \in ToSet(stored')
          /\ AppsIn(stored) \union {Active} \subseteq AppsIn(stored') /\ Active \in Apps
      BY <1>3, <2>1, RecordedIs, HereIsATab DEF RecordTab, TabsInv, TabsOK, ListsInv
    <3>2. TabsOK'
      BY <1>3, <2>1, <3>1 DEF RecordTab, TabsInv, TabsOK
    <3>3. ListsInv'
      BY <1>1, <1>3, <2>1, <3>1, ListsHold DEF RecordTab, TabsInv, ListsInv
    <3> QED BY <1>1, <1>3, <3>2, <3>3 DEF RecordTab, TabsInv
  <2>2. CASE Active \notin Allowed
    <3>1. TabsOK'
      BY <1>3, <2>2 DEF RecordTab, TabsInv, TabsOK
    <3>2. ListsInv'
      BY <1>1, <1>3, <2>2, ListsHold DEF RecordTab, TabsInv, ListsInv
    <3> QED BY <1>1, <1>3, <3>1, <3>2 DEF RecordTab, TabsInv
  <2> QED BY <2>1, <2>2
<1>4. CASE Persist
  <2>1. TabsOK'
    BY <1>4, ShownApps DEF Persist, TabsInv, TabsOK
  <2>2. Distinct(storage')
    BY <1>4, ShownApps DEF Persist
  <2>3. ListsInv'
    BY <1>1, <1>4, <2>2, ListsHold DEF Persist, TabsInv, ListsInv
  <2> QED BY <1>1, <1>4, <2>1, <2>3 DEF Persist, TabsInv
<1> QED BY <1>2, <1>3, <1>4

(* The list shown becomes the list, without one tab or in another order.   *)
LEMMA ListReplaced ==
  ASSUME TabsInv, restored, UNCHANGED <<deploy, user, config, path, storage, restored, record, blind>>,
         stored' \in Seq(Tab), Distinct(stored'),
         kept' \subseteq AppsIn(stored'), shut' \in BOOLEAN, due' \in BOOLEAN,
         ~shut' => ~shut /\ (Here \in ToSet(Shown) => Here \in ToSet(stored'))
  PROVE  TabsOK' /\ ListsInv'
<1>1. UNCHANGED <<Here, Active, Allowed>>
  BY DEF Here, Active, Allowed
<1>2. Active \in Allowed /\ Here \in ToSet(stored) => Here \in ToSet(Shown)
  BY ShownApps DEF Here
<1>3. AppsIn(stored') \subseteq Apps
  BY AppsAre
<1>4. TabsOK'
  BY <1>3 DEF TabsInv, TabsOK
<1>5. ListsInv'
  BY <1>1, <1>2 DEF TabsInv, ListsInv, Distinct, AppsIn, ToSet
<1> QED BY <1>4, <1>5

LEMMA CloseStep == ASSUME TabsInv, NEW a \in Apps, Close(a) PROVE TabsInv'
<1> DEFINE i == IndexOf(Shown, a)  left == RemoveAt(Shown, i)
           to == IF i \in DOMAIN left THEN left[i].href
                 ELSE IF i - 1 \in DOMAIN left THEN left[i - 1].href ELSE Home
<1>1. i \in DOMAIN Shown /\ Shown[i].app = a /\ Shown \in Seq(Tab) /\ Distinct(Shown)
  BY ShownApps, Indexed DEF Close
<1>2. left \in Seq(Tab) /\ Distinct(left) /\ ToSet(left) = ToSet(Shown) \ {Shown[i]}
  BY <1>1, RemovedIs
<1>3. /\ stored' = left /\ kept' = kept \intersect AppsIn(left) /\ shut' = (shut \/ a = Active)
      /\ due' = TRUE
      /\ going' = (IF a # Active THEN going ELSE To(to)) /\ restored /\ Move
      /\ UNCHANGED <<deploy, session, csrf, skip, clientVars, path, next, wire, parting, stale,
                     storage, restored, record, blind>>
  BY DEF Close
<1> HIDE DEF left, i
<1>4. to \in Pages
  <2>1. \A k \in DOMAIN left : left[k] \in Tab
    BY <1>2
  <2> QED BY <2>1, SessionConstants DEF Tab
<1> HIDE DEF to
<1>5. SessionOK'
  <2>1. going' \in Target \union {Nowhere}
    BY <1>3, <1>4, Values DEF TabsInv, SessionOK
  <2> QED BY <1>3, <2>1, SessionConstants DEF TabsInv, SessionOK, AwayInv, Move, clientVars
<1>6. ~shut' => Here # Shown[i]
  <2>1. Shown[i].app = a /\ (~shut' => a # Active)
    BY <1>1, <1>3 DEF TabsInv, TabsOK
  <2> QED BY <2>1 DEF Here
<1>7. TabsOK' /\ ListsInv'
  BY <1>2, <1>3, <1>6, ListReplaced DEF clientVars, TabsInv, TabsOK
<1> QED BY <1>5, <1>7 DEF TabsInv

LEMMA MoveTabStep ==
  ASSUME TabsInv, NEW from, NEW to, MoveTab(from, to) PROVE TabsInv'
<1> DEFINE t == Shown[from]  left == RemoveAt(Shown, from)  new == InsertAt(left, to, t)
<1>1. from \in DOMAIN Shown /\ to \in DOMAIN Shown /\ Shown \in Seq(Tab) /\ Distinct(Shown)
  BY ShownApps DEF MoveTab
<1>2. t \in Tab /\ t \in ToSet(Shown) /\ \A x \in ToSet(Shown) \ {t} : x.app # t.app
  BY <1>1 DEF ToSet, Distinct
<1>3. /\ left \in Seq(Tab) /\ Distinct(left) /\ ToSet(left) = ToSet(Shown) \ {t}
      /\ Len(left) = Len(Shown) - 1
  <2>1. left \in Seq(Tab) /\ Distinct(left) /\ ToSet(left) = ToSet(Shown) \ {t}
    BY <1>1, RemovedIs
  <2>2. DOMAIN left = 1..(Len(Shown) - 1)
    BY <1>1, Removed
  <2> HIDE DEF left
  <2>3. Len(Shown) \in Nat /\ Len(Shown) # 0 /\ DOMAIN left = 1..Len(left) /\ Len(left) \in Nat
    BY <1>1, <2>1
  <2>4. Len(left) = Len(Shown) - 1
    BY <2>2, <2>3
  <2> QED BY <2>1, <2>4
<1>4. to \in 1..(Len(left) + 1)
  <2>1. to \in 1..Len(Shown) /\ Len(Shown) \in Nat
    BY <1>1
  <2> HIDE DEF left
  <2> QED BY <1>3, <2>1
<1>5. /\ stored' = new /\ kept' = kept \intersect AppsIn(Shown) /\ due' = TRUE /\ restored /\ Move
      /\ UNCHANGED <<deploy, session, csrf, skip, clientVars, path, next, going, wire, parting,
                     stale, storage, restored, record, shut, blind>>
  BY DEF MoveTab
<1> HIDE DEF t, left
<1>6. new \in Seq(Tab) /\ Distinct(new) /\ ToSet(new) = ToSet(Shown)
  <2>1. \A x \in ToSet(left) : x.app # t.app
    BY <1>2, <1>3
  <2>2. new \in Seq(Tab) /\ Distinct(new) /\ ToSet(new) = ToSet(left) \union {t}
    BY <1>2, <1>3, <1>4, <2>1, InsertedIs
  <2> QED BY <1>2, <1>3, <2>2
<1> HIDE DEF new
<1>7. AppsIn(new) = AppsIn(Shown)
  BY <1>1, <1>6, AppsAre
<1>8. SessionOK'
  BY <1>5, SessionConstants DEF TabsInv, SessionOK, AwayInv, Move, clientVars
<1>9. TabsOK' /\ ListsInv'
  BY <1>5, <1>6, <1>7, ListReplaced DEF clientVars, TabsInv, TabsOK
<1> QED BY <1>8, <1>9 DEF TabsInv

LEMMA TabsInvHolds == TabsSpec => []TabsInv
<1>1. ASSUME TabsInit PROVE TabsInv
  <2>1. storage \in Seq(Tab) /\ Distinct(storage)
    BY <1>1, TabsConstants DEF TabsInit, Distinct
  <2>2. kept \subseteq Apps
    BY <1>1, <2>1, AppsAre DEF TabsInit
  <2>3. Distinct(stored) /\ stored \in Seq(Tab)
    BY <1>1 DEF TabsInit, Distinct
  <2> QED BY <1>1, <2>1, <2>2, <2>3, InitTypes DEF TabsInit, TabsInv, TabsOK, ListsInv
<1>2. ASSUME TabsInv, UNCHANGED vars PROVE TabsInv'
  BY <1>2 DEF vars, svars, tvars, TabsInv, SessionOK, AwayInv, TabsOK, ListsInv, Distinct, AppsIn, ToSet,
              Here, Active, Allowed
<1>3. TabsInv /\ [TabsNext]_vars => TabsInv'
  BY <1>2, FollowStep, RemountStep, EffectStep, CloseStep, MoveTabStep, OtherStep DEF TabsNext
<1> QED BY <1>1, <1>3, PTL DEF TabsSpec

(* Types, for any accounts, pages, grants and lists left in the storage.    *)
THEOREM TypesHold == TabsSpec => []TypeOK
<1>1. TabsInv => TypeOK
  BY DEF TabsInv, SessionOK, TabsOK, TypeOK
<1> QED BY <1>1, TabsInvHolds, PTL

(* The focused app has its tab, and the tab tells where in the app one is,  *)
(* over every sequence of navigations, drags, closings, logins and reloads, *)
(* whatever the grants of the user and however often they change.          *)
THEOREM FocusedIsListed == TabsSpec => []FocusedHasTab
<1>1. TabsInv => FocusedHasTab
  BY ShownApps DEF TabsInv, TabsOK, ListsInv, FocusedHasTab, Settled, Here
<1> QED BY <1>1, TabsInvHolds, PTL

(* Apps opened stay open until they are closed, over reloads, logouts and   *)
(* logins and whatever other windows write, for any number of apps and      *)
(* users: a list is only given up by a document that reads a localStorage   *)
(* without it, as nobody was known, it was not written or it was written    *)
(* over.                                                                    *)
THEOREM OpenTabsAreKept == TabsSpec => []TabsAreKept
<1>1. TabsInv => TabsAreKept
  BY ShownApps DEF TabsInv, TabsOK, ListsInv, TabsAreKept, Settled
<1> QED BY <1>1, TabsInvHolds, PTL

(* Who leaves for the identity provider: a click, or the automatic login,   *)
(* which the flag of a logout holds back.  The router never does.          *)
LEMMA NotBounced ==
  ASSUME IInv, TabsInv, [TabsNext]_vars, parting, path # Sso
  PROVE  path' # Sso \/ ~parting'
<1>1. CASE UNCHANGED path
  BY <1>1
<1>2. CASE Arrive
  <2>1. path' \in Pages \union {Login}
    BY <1>2 DEF Arrive, TabsInv, SessionOK, Target
  <2> QED BY <2>1, SessionConstants
<1>3. CASE AutoLogin
  BY <1>3 DEF AutoLogin, IInv, SkipInv
<1>4. CASE ClickMicrosoft
  BY <1>4 DEF ClickMicrosoft
<1>5. ASSUME NEW p \in Pages \union {Login}, NEW who, Open(p, who) PROVE path' # Sso
  BY <1>5, SessionConstants DEF Open
<1>6. SameDocument => Arrive \/ UNCHANGED path
  BY DEF SameDocument, Serve, Take, ServeLogin, ServeLogout, ServeApi, ServeLog, ServeSession, Lose,
         TakeProbe, TakeLogin, TakeAfterLogin, TakeLogout, TakeAfterLogout, TakeApi, TakeLog,
         BounceToLogin, LeaveLogin, ClickLogout, CallApi, ShipLog, Navigate, ClickApp,
         SubmitLogin, Elsewhere
<1>7. NextDocument => \/ AutoLogin \/ ClickMicrosoft
                      \/ \E p \in Pages \union {Login}, who \in Who : Open(p, who)
  BY Values DEF NextDocument, Load, SsoReturns, TabsInv, SessionOK
<1>8. Restore \/ RecordTab \/ Persist \/ UNCHANGED vars => UNCHANGED path
  BY DEF Restore, RecordTab, Persist, vars, svars
<1>9. \A a, b : Close(a) \/ MoveTab(a, b) \/ OtherWrites(a) => UNCHANGED path
  BY DEF Close, MoveTab, OtherWrites
<1> QED BY <1>1, <1>2, <1>3, <1>4, <1>5, <1>6, <1>7, <1>8, <1>9 DEF TabsNext

(* After a logout the browser does not leave for the identity provider, by  *)
(* itself or over the page a login would lead to, until somebody signs in. *)
THEOREM LogoutLasts == TabsSpec => NoBounceAfterLogout
<1>1. IInv /\ TabsInv /\ [TabsNext]_vars => [parting /\ path # Sso => path' # Sso \/ ~parting']_vars
  BY NotBounced
<1> QED BY <1>1, Invariant, TabsInvHolds, PTL DEF TabsSpec, NoBounceAfterLogout
=============================================================================
