------------------------------ MODULE MCMaster ------------------------------
(***************************************************************************)
(* The tables meet the token and the secrets only in the life of the       *)
(* process.  To keep the product small, a behaviour that has begun to fill *)
(* the tables neither rotates the token, sets a secret nor draws a second  *)
(* key, and the other way round.                                           *)
(***************************************************************************)
EXTENDS Master, Naturals, FiniteSets, TLC

\* The bound: the areas used in one behaviour.
OneArea ==
    \/ made = [d \in Deployments |-> None] /\ projects = [p \in Projects |-> None]
    \/ Cardinality(generated) <= 1 /\ Cardinality(drawn) <= 1 /\ lastSet = [n \in SecretNames |-> None]

\* Ids and tokens are told apart by equality only.
Symmetry == Permutations(Projects) \cup Permutations(Deployments) \cup Permutations(Pods)
            \cup Permutations(Tokens)

=============================================================================
