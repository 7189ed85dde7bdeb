----------------------------- MODULE Membership -----------------------------
(***************************************************************************)
(* What the cluster promises about its members, whatever its tasks do with *)
(* copies of rows: every id is a member at most once in its life; from the *)
(* time it joins to the time it leaves it has one name and one role, no    *)
(* other member has the name, and a worker leaves only after a drain.      *)
(***************************************************************************)
CONSTANTS
    Ids,
    Names,
    Roles,  \* "Master" may leave without a drain
    None

VARIABLES
    member,  \* member[i]: what member i is, or None
    gone     \* ids that are members no more

mvars == <<member, gone>>

Init == member = [i \in Ids |-> None] /\ gone = {}

Join(i, n, r) ==
    /\ member[i] = None /\ i \notin gone
    /\ \A j \in Ids : member[j] # None => member[j].name # n
    /\ member' = [member EXCEPT ![i] = [name |-> n, role |-> r, drained |-> FALSE]]
    /\ UNCHANGED gone

Drain(i) ==
    /\ member[i] # None
    /\ member' = [member EXCEPT ![i].drained = TRUE]
    /\ UNCHANGED gone

Leave(i) ==
    /\ member[i] # None
    /\ member[i].drained \/ member[i].role = "Master"
    /\ member' = [member EXCEPT ![i] = None]
    /\ gone'   = gone \cup {i}

Next == \E i \in Ids : \/ \E n \in Names, r \in Roles : Join(i, n, r)
                       \/ Drain(i)
                       \/ Leave(i)

Spec == Init /\ [][Next]_mvars

=============================================================================
