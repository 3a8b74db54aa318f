------------------------ MODULE MCSecretDistribution ------------------------
(* The instance of SecretDistribution that TLC explores: see SecretDistribution.cfg. *)
EXTENDS SecretDistribution
=============================================================================
