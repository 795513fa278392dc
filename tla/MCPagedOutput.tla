----------------------------- MODULE MCPagedOutput -----------------------------
(* Bounded instances of PagedOutput for TLC. *)
EXTENDS PagedOutput
=============================================================================
