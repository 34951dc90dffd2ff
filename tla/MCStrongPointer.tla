-------------------------- MODULE MCStrongPointer --------------------------
(***************************************************************************)
(* Two threads, two sp each and two objects: the first is shared from the  *)
(* start, the second made by a thread.                                     *)
(***************************************************************************)
EXTENDS StrongPointer

=============================================================================
