----------------------------- MODULE SecretEnv -----------------------------
(***************************************************************************)
(* The environment an agent gives the processes it starts: the secrets of  *)
(* its store that the configuration maps to environment variables          *)
(* (internal/gitai/secrets/store.go, Env; internal/gitai/app/app.go,       *)
(* buildSecretEnvMapping).  A secret's value is named by the push that     *)
(* brought it.                                                             *)
(***************************************************************************)
CONSTANTS SecretNames,     \* names of secrets
          EnvVars,         \* environment variables
          SecretRequests   \* pushes of secrets from Ruriko

NoSecrets == <<>>
NoEnv == <<>>

Stores == UNION {[names -> SecretRequests] : names \in SUBSET SecretNames}
Mappings == UNION {[envVars -> SecretNames] : envVars \in SUBSET EnvVars}
Environments == UNION {[envVars -> SecretRequests] : envVars \in SUBSET EnvVars}

(* A variable whose secret is not in the store is left out.                *)
Env(mapping, store) ==
    [v \in {v \in DOMAIN mapping : mapping[v] \in DOMAIN store} |-> store[mapping[v]]]
=============================================================================
