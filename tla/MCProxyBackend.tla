--------------------------- MODULE MCProxyBackend ---------------------------
(***************************************************************************)
(* Three domains, two routes, one of them without upstreams, and every     *)
(* backend.  Two of the domains share a key, as a.b and a-b do.            *)
(***************************************************************************)
EXTENDS ProxyBackend

CONSTANT Alone  \* the domain that shares its key with no other

MCSanitized == [d \in Domains |-> IF d = Alone THEN <<"nexa", d>> ELSE <<"nexa">>]

=============================================================================
