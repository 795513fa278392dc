------------------------------ MODULE MCLineTable ------------------------------
(* Bounded instances of LineTable for TLC. *)
EXTENDS LineTable
=============================================================================
