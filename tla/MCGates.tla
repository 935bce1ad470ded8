------------------------------- MODULE MCGates --------------------------------
(***************************************************************************)
(* Instances of the gates of the gateway for TLC.  A behaviour follows the *)
(* admission of requests, the pool of background jobs, or the proofs that  *)
(* the installation root asks for before a purchase goes outbound.         *)
(***************************************************************************)
EXTENDS Admission, JobPool, GatewayAuthority, TLC

CONSTANTS k1, k2, z

VARIABLE part

TwoKeys == [r \in Requests |-> IF r = z THEN k2 ELSE k1]

PartsInit ==
  /\ part \in {"gate", "pool", "install"} /\ AdmissionInit /\ PoolInit /\ AuthorityInit
  /\ part # "install" => root.status = "provisioning"

PartsNext ==
  \/ part = "gate" /\ AdmissionNext /\ UNCHANGED <<part, poolVars, gaVars>>
  \/ part = "pool" /\ PoolNext /\ UNCHANGED <<part, vars, gaVars>>
  \/ part = "install" /\ AuthorityNext /\ UNCHANGED <<part, vars, poolVars>>

PartsSpec == PartsInit /\ [][PartsNext]_<<part, vars, poolVars, gaVars>>

Symmetry == Permutations(Videos)
=============================================================================
