--------------------------- MODULE MCCniNetworks ---------------------------
(***************************************************************************)
(* Three networks and a pool of three octets: the pool runs out,           *)
(* next_octet wraps, and networks are re-created after it has.             *)
(***************************************************************************)
EXTENDS CniNetworks, TLC

Symmetry == Permutations(Networks)

=============================================================================
