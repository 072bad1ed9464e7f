-------------------------- MODULE MCKeepAliveSession --------------------------
(***************************************************************************)
(* KeepAliveSession with few sessions and a dispatcher that lags by two    *)
(* callbacks at most.                                                      *)
(***************************************************************************)
EXTENDS KeepAliveSession
=============================================================================
