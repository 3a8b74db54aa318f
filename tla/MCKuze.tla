------------------------------- MODULE MCKuze -------------------------------
(* The instance of Kuze that TLC explores: see Kuze.cfg. *)
EXTENDS Kuze
=============================================================================
