----------------------------- MODULE MCConfigStore -----------------------------
(* A small instance of ConfigStore: one key of each sort, two licences. *)
EXTENDS ConfigStore, TLC

CONSTANTS purge_hour, license_key, base_url, last_run, user_token, v1, v2, short, long

MCEnv == (purge_hour :> v1) @@ (license_key :> long) @@ [k \in {base_url, last_run, user_token} |-> None]

MCExpiry == (short :> 1) @@ (long :> 2)

MCBodies == {
  purge_hour :> v1,
  (purge_hour :> v2) @@ (user_token :> v1),
  base_url :> v1 @@ user_token :> Empty,
  base_url :> Empty @@ user_token :> Empty,
  license_key :> short,
  license_key :> long,
  license_key :> Cleared,
  last_run :> v1 }

Symmetry == Permutations(Savers)
================================================================================
