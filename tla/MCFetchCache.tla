----------------------------- MODULE MCFetchCache -----------------------------
(***************************************************************************)
(* An instance of FetchCache for TLC: see MCFetchCache.cfg.                *)
(***************************************************************************)
EXTENDS FetchCache
==============================================================================
