--------------------------------- MODULE Dns --------------------------------
(***************************************************************************)
(* The embedded DNS server (adapters/dns/hickory.rs) over its record store *)
(* (adapters/dns/record_store.rs).  One task reads the UDP socket and      *)
(* handles one query after the other, also while it waits for the upstream *)
(* server; every TCP connection has a task of its own.  The orchestrator   *)
(* registers and deregisters addresses beside them.  resolve takes the     *)
(* store's lock twice, once for the replica and once for the deployment.   *)
(*                                                                         *)
(* A name under .internal is a project and a host.  Split[h] says how the  *)
(* host reads as "<prefix>-<number>", if it does: lookup_replica takes it  *)
(* for an index into the prefix's addresses, counted from 0.               *)
(***************************************************************************)
EXTENDS Naturals, Sequences, SequencesExt

CONSTANTS
    Projects,
    Hosts,      \* host labels that clients ask for
    Names,      \* names that deployments are registered under
    Lower,      \* Lower[x]: the label or project x in lower case
    Split,      \* Split[h] = [prefix |-> a name, index |-> a number], or None
    Addresses,
    V6,         \* the addresses that are IPv6
    Clients,    \* each asks once
    Queries,    \* what clients ask: see Query
    QueueLimit, \* datagrams the UDP socket holds
    None

QTypes == {"A", "AAAA", "ANY", "other"}

\* An internal name; an internal name that is not <host>.<project>.internal; a
\* name for the upstream server; a packet that is not a query.
Query == [kind : {"internal"}, project : Projects, host : Hosts, qtype : QTypes]
         \cup [kind : {"malformed", "external", "garbage"}]

Record == Projects \X Names \X Addresses

ASSUME NameAssumption ==
    /\ \A h \in Hosts : /\ Lower[h] \in Hosts
                        /\ Split[h] = None \/ Split[h] \in [prefix : Names, index : Nat]
    /\ \A p \in Projects : Lower[p] \in Projects

ASSUME QueryAssumption == Queries \subseteq Query /\ QueueLimit \in Nat \ {0}

VARIABLES
    entries,    \* project -> deployment -> sequence of addresses, for those that have any
    udpQueue,   \* clients whose datagrams wait in the socket
    udpTask,    \* the client the UDP task works for, or None
    client,     \* client[c] : where its query stands
    query,      \* query[c]: what it asks, or None
    response,   \* response[c]: what was sent to it, or None
    \* history
    registered  \* records registered and not deregistered since

vars == <<entries, udpQueue, udpTask, client, query, response, registered>>

Stages == {"idle", "queued", "accepted", "resolve", "lookup", "upstream", "done"}

----------------------------------------------------------------------------
(* DnsRecordStore *)

\* lookup: no project and no deployment give no addresses.
lookup(p, d) == IF p \in DOMAIN entries /\ d \in DOMAIN entries[p] THEN entries[p][d] ELSE <<>>

\* lookup_replica
lookup_replica(p, d, i) ==
    IF i < Len(lookup(p, d)) THEN <<lookup(p, d)[i + 1]>> ELSE <<>>

\* The store with as the addresses of d in p.
With(p, d, as) ==
    LET hosts   == IF p \in DOMAIN entries THEN entries[p] ELSE <<>>
        changed == [h \in DOMAIN hosts \cup {d} |-> IF h = d THEN as ELSE hosts[h]]
    IN  [r \in DOMAIN entries \cup {p} |-> IF r = p THEN changed ELSE entries[r]]

\* The store without d in p, and without p if nothing is left of it.
Without(p, d) ==
    LET hosts == [h \in DOMAIN entries[p] \ {d} |-> entries[p][h]]
        kept  == IF DOMAIN hosts = {} THEN DOMAIN entries \ {p} ELSE DOMAIN entries
    IN  [r \in kept |-> IF r = p THEN hosts ELSE entries[r]]

\* Slip: an address is listed as often as it is registered.
Pushed(as, a) == Append(as, a)

\* register adds an address at the end, once.
Added(as, a) == IF Contains(as, a) THEN as ELSE Append(as, a)

register(p, d, a) ==
    /\ entries'    = With(p, d, Added(lookup(p, d), a))
    /\ registered' = registered \cup {<<p, d, a>>}
    /\ UNCHANGED <<udpQueue, udpTask, client, query, response>>

\* Vec::retain and Iterator::filter: the elements of s that are in K, in their order.
Filter(s, K) ==
    LET f[n \in 0 .. Len(s)] ==
            IF n = 0 THEN <<>>
            ELSE IF s[n] \in K THEN Append(f[n - 1], s[n]) ELSE f[n - 1]
    IN  f[Len(s)]

\* deregister leaves no empty list and no empty project behind.
Kept(p, d, as) == IF as = <<>> THEN Without(p, d) ELSE With(p, d, as)

deregister(p, d, a) ==
    /\ entries'    = IF lookup(p, d) = <<>> THEN entries
                     ELSE Kept(p, d, Filter(lookup(p, d), Addresses \ {a}))
    /\ registered' = registered \ {<<p, d, a>>}
    /\ UNCHANGED <<udpQueue, udpTask, client, query, response>>

----------------------------------------------------------------------------
(* Asking *)

\* A datagram reaches the socket, or finds it full and is dropped.
AskUdp(c, q) ==
    /\ client[c] = "idle"
    /\ query' = [query EXCEPT ![c] = q]
    /\ \/ /\ Len(udpQueue) < QueueLimit
          /\ udpQueue' = Append(udpQueue, c)
          /\ client'   = [client EXCEPT ![c] = "queued"]
       \/ /\ Len(udpQueue) = QueueLimit
          /\ client' = [client EXCEPT ![c] = "done"]
          /\ UNCHANGED udpQueue
    /\ UNCHANGED <<entries, udpTask, response, registered>>

\* recv_from, when the UDP task is free.
Receive ==
    /\ udpTask = None /\ udpQueue # <<>>
    /\ udpTask'  = Head(udpQueue)
    /\ udpQueue' = Tail(udpQueue)
    /\ client'   = [client EXCEPT ![Head(udpQueue)] = "resolve"]
    /\ UNCHANGED <<entries, query, response, registered>>

\* A connection is accepted; the query has still to come, and may never come.
Connect(c, q) ==
    /\ client[c] = "idle"
    /\ query'  = [query EXCEPT ![c] = q]
    /\ client' = [client EXCEPT ![c] = "accepted"]
    /\ UNCHANGED <<entries, udpQueue, udpTask, response, registered>>

\* Length and message have been read, or the connection broke before that.
ReadTcp(c) ==
    /\ client[c] = "accepted"
    /\ client' \in {[client EXCEPT ![c] = s] : s \in {"resolve", "done"}}
    /\ UNCHANGED <<entries, udpQueue, udpTask, query, response, registered>>

----------------------------------------------------------------------------
(* handle_dns_query *)

\* The addresses whose family the question asks for.
Family(qtype) == {a \in Addresses : \/ qtype = "A" /\ a \notin V6
                                    \/ qtype = "AAAA" /\ a \in V6
                                    \/ qtype = "ANY"}

Matching(as, qtype) == Filter(as, Family(qtype))

\* Slip: a name without an address of the family is said not to exist.
build_nxdomain(as, qtype) ==
    [rcode |-> IF Matching(as, qtype) = <<>> THEN 3 ELSE 0, answers |-> Matching(as, qtype)]

\* build_dns_response: NXDOMAIN only if the name has no address of any family.
build_dns_response(as, qtype) ==
    [rcode |-> IF Matching(as, qtype) = <<>> /\ as = <<>> THEN 3 ELSE 0,
     answers |-> Matching(as, qtype)]

\* The handler of c is done: a response is sent, or none (None), and the UDP task is
\* free if it was working for c.
Finish(c, r) ==
    /\ response' = [response EXCEPT ![c] = r]
    /\ client'   = [client EXCEPT ![c] = "done"]
    /\ udpTask'  = IF udpTask = c THEN None ELSE udpTask
    /\ UNCHANGED <<entries, udpQueue, query, registered>>

Goto(c, stage) ==
    /\ client' = [client EXCEPT ![c] = stage]
    /\ UNCHANGED <<entries, udpQueue, udpTask, query, response, registered>>

\* Packets that are no query get no response.
Drop(c) == client[c] = "resolve" /\ query[c].kind = "garbage" /\ Finish(c, None)

\* The name asked for is put in lower case; names are registered as they are.
Project(c) == Lower[query[c].project]
Host(c)    == Lower[query[c].host]

\* The address of the host as a replica, if it reads as one and there is one.
Replica(c) ==
    IF Split[Host(c)] = None THEN <<>>
    ELSE lookup_replica(Project(c), Split[Host(c)].prefix, Split[Host(c)].index)

\* The first half of resolve: the host as a replica.
ResolveReplica(c) ==
    /\ client[c] = "resolve" /\ query[c].kind = "internal"
    /\ \/ Replica(c) # <<>> /\ Finish(c, build_dns_response(Replica(c), query[c].qtype))
       \/ Replica(c) = <<>> /\ Goto(c, "lookup")

\* The second half: the host as a deployment.
ResolveDeployment(c) ==
    /\ client[c] = "lookup"
    /\ Finish(c, build_dns_response(lookup(Project(c), Host(c)), query[c].qtype))

\* A name under .internal with too few or too many labels does not exist.
ResolveMalformed(c) ==
    /\ client[c] = "resolve" /\ query[c].kind = "malformed"
    /\ Finish(c, build_dns_response(<<>>, "A"))

\* Any other name is sent upstream; if that fails there is no response.
Forward(c) ==
    /\ client[c] = "resolve" /\ query[c].kind = "external"
    /\ Goto(c, "upstream") \/ Finish(c, None)

\* The upstream server answers; its packet is passed on.
UpstreamAnswers(c) == client[c] = "upstream" /\ Finish(c, [rcode |-> 0, answers |-> <<>>])

\* Slip: no limit on the wait.
NoTimeout(c) == FALSE

\* Five seconds have passed.
TimesOut(c) == client[c] = "upstream"

UpstreamTimeout(c) == TimesOut(c) /\ Finish(c, None)

----------------------------------------------------------------------------

Init ==
    /\ entries = <<>> /\ registered = {}
    /\ udpQueue = <<>> /\ udpTask = None
    /\ client   = [c \in Clients |-> "idle"]
    /\ query    = [c \in Clients |-> None]
    /\ response = [c \in Clients |-> None]

Handle(c) ==
    \/ Drop(c) \/ ResolveReplica(c) \/ ResolveDeployment(c) \/ ResolveMalformed(c)
    \/ Forward(c) \/ UpstreamTimeout(c)

Next ==
    \/ \E p \in Projects, d \in Names, a \in Addresses : register(p, d, a) \/ deregister(p, d, a)
    \/ \E c \in Clients, q \in Queries : AskUdp(c, q) \/ Connect(c, q)
    \/ Receive
    \/ \E c \in Clients : ReadTcp(c) \/ Handle(c) \/ UpstreamAnswers(c)

\* The runtime polls ready tasks and its timer fires.  Nothing is assumed of clients,
\* of the upstream server or of the orchestrator.
Fairness == WF_vars(Receive) /\ \A c \in Clients : WF_vars(Handle(c))

Spec == Init /\ [][Next]_vars /\ Fairness

----------------------------------------------------------------------------
(* Properties *)

\* What the nested maps list.
Listed == {r \in Record : Contains(lookup(r[1], r[2]), r[3])}

\* The nested maps hold the registered records, each address once, and no project and
\* no deployment without any: repeated and unmatched calls leave nothing behind
\* (record_store.rs tests: deregister_cleans_up_empty_maps, register_ignores_duplicates).
EntriesMatch ==
    /\ Listed = registered
    /\ \A p \in DOMAIN entries : /\ DOMAIN entries[p] # {}
                                 /\ \A d \in DOMAIN entries[p] : /\ entries[p][d] # <<>>
                                                                 /\ IsInjective(entries[p][d])

\* The addresses registered for the name that c asks for, read as a deployment, and
\* those of the deployment of which it may be a replica.
Own(c)      == {a \in Addresses : <<Project(c), Host(c), a>> \in registered}
Siblings(c) == {a \in Addresses : /\ Split[Host(c)] # None
                                  /\ <<Project(c), Split[Host(c)].prefix, a>> \in registered}

\* An answer about an internal name is true when it is given, although resolve reads
\* the store twice: its addresses are registered, in the project asked for, for the
\* deployment of that name or the one of which it is a replica, and of the family asked
\* for; "no such name" is said only if nothing is registered under the name itself, and
\* "no such address" only if it has addresses of the other family.
AnswersTrue ==
    [][\A c \in Clients : (response'[c] # response[c] /\ query[c].kind = "internal") =>
         LET given == ToSet(response'[c].answers)
         IN  /\ given \subseteq Own(c) \cup Siblings(c)
             /\ query[c].qtype = "A" => given \cap V6 = {}
             /\ query[c].qtype = "AAAA" => given \subseteq V6
             /\ response'[c].rcode = 3 => Own(c) = {}
             /\ response'[c].rcode = 0 => Own(c) \cup Siblings(c) # {}]_vars

\* Every query in the socket is handled and the UDP task gets back to the socket,
\* whatever the upstream server does and however many clients are stuck with their
\* TCP connections.
QueriesServed ==
    \A c \in Clients : client[c] \in {"queued", "resolve", "lookup", "upstream"} ~> client[c] = "done"

=============================================================================
