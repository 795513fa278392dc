----------------------------- MODULE MCWatchMode -----------------------------
(* Bounded instances of WatchMode for TLC. *)
EXTENDS WatchMode
=============================================================================
