----------------------------- MODULE MCRebuild -----------------------------
(* Rebuild with interchangeable accounts and interchangeable POSTs. *)
EXTENDS Rebuild, TLC

Interchangeable == Permutations(Accounts) \union Permutations(Posts)
=============================================================================
