-------------------------- MODULE MCSecretManager --------------------------
(* The instance of SecretManager that TLC explores: see SecretManager.cfg. *)
EXTENDS SecretManager
============================================================================
