-------------------------- MODULE MCGithubDispatch --------------------------
(* One dispatch, its correlation, and the quota of its credential. *)
EXTENDS GithubDispatch
=============================================================================
