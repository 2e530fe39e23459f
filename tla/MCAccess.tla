------------------------------- MODULE MCAccess -------------------------------
(* A small instance of Access. *)
EXTENDS AccessProperties

CONSTANT g1

MCGroup == {g1, AllUser, Excluded}
=============================================================================
