---------------------------- MODULE ReadThrough ----------------------------
(***************************************************************************)
(* What the browser's read cache promises, with the mechanism left out.    *)
(* The server holds a version of every key; the cache holds a copy, or     *)
(* none.  A copy is never ahead of the server and never goes back to an    *)
(* older version than the copy it replaces.                                *)
(*                                                                         *)
(* ResourceCache implements this specification.                            *)
(***************************************************************************)
EXTENDS Naturals

CONSTANTS Keys,     \* the cache keys
          NoData    \* "the cache holds no copy"

VARIABLES version,  \* version[k]: how often the server's k was written
          data      \* data[k]: the version the cache holds, or NoData

vars == <<version, data>>

Init ==
  /\ version = [k \in Keys |-> 0]
  /\ data = [k \in Keys |-> NoData]

(* Anyone writes k at the server. *)
Write(k) ==
  /\ version' = [version EXCEPT ![k] = @ + 1]
  /\ UNCHANGED data

(* The cache learns a version at least as new as the one it has. *)
Learn(k) ==
  /\ \E v \in 0 .. version[k] :
       /\ data[k] = NoData \/ data[k] <= v
       /\ data' = [data EXCEPT ![k] = v]
  /\ UNCHANGED version

(* The cache forgets its copy. *)
Forget(k) ==
  /\ data' = [data EXCEPT ![k] = NoData]
  /\ UNCHANGED version

Next == \E k \in Keys : Write(k) \/ Learn(k) \/ Forget(k)

Spec == Init /\ [][Next]_vars
=============================================================================
