---------------------------- MODULE RoutingTable ----------------------------
(***************************************************************************)
(* What a proxy backend promises of its configuration: a table from        *)
(* domains to routes, and for each call, by its answer, what the call may  *)
(* have done to the table.                                                 *)
(*   - apply_routes installs every route it is given, or in its place that *)
(*     of a rival, a domain that the configuration cannot tell from it; a  *)
(*     domain it is not given keeps its route or loses it;                 *)
(*   - remove_route drops its own domain and its rivals, and no other;     *)
(*   - a call that fails may damage entries, so that what they hold is     *)
(*     Unknown, or have taken effect for some domains; it never gives a    *)
(*     domain a route that was not meant for it.                           *)
(***************************************************************************)
CONSTANTS Domains, Routes, None, Unknown

VARIABLES
    table,   \* table[d]: the route of domain d, None or Unknown
    call,    \* the last call and its answer
    rivals,  \* rivals[d]: the domains with the key of d, itself included
    lenient  \* whether remove_route may answer "ok" without having done anything

tvars == <<table, call, rivals, lenient>>

\* The route lists a caller may pass: one route for each of some domains.
RouteLists == UNION {[ds -> Routes] : ds \in SUBSET Domains}

Called(op, arg, answer) == [op |-> op, arg |-> arg, answer |-> answer]

Init ==
    /\ table \in [Domains -> {None}]
    /\ call = Called("none", None, "ok")
    /\ rivals \in [Domains -> SUBSET Domains] /\ \A d \in Domains : d \in rivals[d]
    /\ lenient \in BOOLEAN

\* d has lost its route to a rival that has got its own.
Displaced(d, rs) ==
    table'[d] = None /\ \E e \in (rivals[d] \cap DOMAIN rs) \ {d} : table'[e] = rs[e]

Apply(rs) ==
    /\ call' = Called("apply", rs, "ok")
    /\ table' \in [Domains -> Routes \cup {None, Unknown}]
    /\ \A d \in Domains : IF d \in DOMAIN rs THEN table'[d] = rs[d] \/ Displaced(d, rs)
                                             ELSE table'[d] \in {table[d], None}

ApplyFails(rs) ==
    /\ call' = Called("apply", rs, "error")
    /\ table' \in [Domains -> Routes \cup {None, Unknown}]
    /\ \A d \in Domains : \/ table'[d] \in {table[d], Unknown}
                          \/ d \in DOMAIN rs /\ table'[d] = rs[d]

\* A damaged entry may stay damaged.
Remove(d) ==
    /\ call' = Called("remove", d, "ok")
    /\ \/ table' = [e \in Domains |-> IF e \in rivals[d] THEN None ELSE table[e]]
       \/ (lenient \/ table[d] = Unknown) /\ table' = table

RemoveFails(d) ==
    /\ call' = Called("remove", d, "error")
    /\ table' \in [Domains -> Routes \cup {None, Unknown}]
    /\ \A e \in Domains : table'[e] \in {table[e], Unknown}

Next ==
    /\ \/ \E rs \in RouteLists : Apply(rs) \/ ApplyFails(rs)
       \/ \E d \in Domains : Remove(d) \/ RemoveFails(d)
    /\ UNCHANGED <<rivals, lenient>>

Spec == Init /\ [][Next]_tvars

=============================================================================
