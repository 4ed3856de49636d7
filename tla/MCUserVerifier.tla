--------------------------- MODULE MCUserVerifier ---------------------------
(* Instances of UserVerifier for TLC. *)
EXTENDS UserVerifier

\* An administrator may order anything.
AnyOrder == ServerStates
=============================================================================
