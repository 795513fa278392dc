---------------------------- MODULE MCArm64Pairing ----------------------------
(* Bounded instances of Arm64Pairing for TLC. *)
EXTENDS Arm64Pairing
=============================================================================
