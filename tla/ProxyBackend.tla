---------------------------- MODULE ProxyBackend ----------------------------
(***************************************************************************)
(* The configuration the four proxy backends keep on disk for the process  *)
(* they drive (adapters/proxy/*.rs), and what apply_routes and             *)
(* remove_route do to it.  nexa-proxy, caddy and traefik have one file     *)
(* with every route, rewritten in place; nginx has one file per domain.    *)
(* An in-place write can fail, or the process die, after the file was      *)
(* truncated.  The orchestrator makes one call at a time.                  *)
(*                                                                         *)
(* An entry is what the configuration holds under one key: the domain it   *)
(* matches and the route (upstreams and TLS).  The key is the file name    *)
(* (nginx), the map key (nexa-proxy), the block header (caddy), or the     *)
(* router and service name (traefik), which is the domain with its dots    *)
(* replaced.                                                               *)
(***************************************************************************)
EXTENDS Naturals, FiniteSets

CONSTANTS
    Domains,      \* domain names
    Routes,       \* upstreams and TLS of a route
    NoUpstream,   \* those of Routes whose list of upstreams is empty
    Sanitized,    \* Sanitized[d]: d with '.' replaced by '-'
    None,         \* no entry, no route
    Unknown       \* damaged: what a truncated file holds

Backends   == {"nexa-proxy", "nginx", "caddy", "traefik"}
Keys       == Domains \cup {Sanitized[d] : d \in Domains}
Entry      == [domain : Domains, route : Routes]
RouteLists == UNION {[ds -> Routes] : ds \in SUBSET Domains}

ASSUME SanitizedAssumption == DOMAIN Sanitized = Domains

ASSUME NoneAssumption ==
    /\ None \notin Routes \cup Entry /\ Unknown \notin Routes \cup Entry
    /\ None # Unknown /\ NoUpstream \subseteq Routes

VARIABLES
    backend,  \* --proxy-backend
    file,     \* the one file: "absent", "ok" or "damaged" (nginx: always "ok")
    conf,     \* conf[k]: the entry under key k, None, or Unknown (a damaged nginx file)
    call      \* the last call and its answer

vars == <<backend, file, conf, call>>

Called(op, arg, answer) == [op |-> op, arg |-> arg, answer |-> answer]

Empty == [k \in Keys |-> None]

Key(d) == IF backend = "traefik" THEN Sanitized[d] ELSE d

\* Slip: the router's rule matches the sanitized name.
EntryForKey(d, route) == [domain |-> Key(d), route |-> route]

\* The entry render_config, build_config or render_caddyfile make for a domain.
EntryFor(d, route) == [domain |-> d, route |-> route]

\* Of domains with the same key the last in the list stays: one for each key.
Survivors(rs) ==
    {ds \in SUBSET DOMAIN rs :
        \A d \in DOMAIN rs : \E e \in ds : {f \in ds : Key(f) = Key(d)} = {e}}

\* The configuration of these routes alone.
Rendered(rs, ds) ==
    [k \in Keys |-> IF \E d \in ds : Key(d) = k
                    THEN LET d == CHOOSE d \in ds : Key(d) = k IN EntryFor(d, rs[d])
                    ELSE None]

\* render_caddyfile indexes the first upstream: a route without one panics,
\* before anything is written.
CanRender(rs) == backend = "caddy" => \A d \in DOMAIN rs : rs[d] \notin NoUpstream

----------------------------------------------------------------------------
\* The write of the one file fails or is cut short: it is truncated.
Damage ==
    /\ backend # "nginx"
    /\ file' = "damaged"
    /\ conf' = Empty

\* apply_routes, the three that rewrite their file.
ApplyWholeFile(rs) ==
    /\ backend # "nginx" /\ CanRender(rs)
    /\ file' = "ok"
    /\ \E ds \in Survivors(rs) : conf' = Rendered(rs, ds)
    /\ call' = Called("apply", rs, "ok")
    /\ UNCHANGED backend

\* It panics, the file cannot be opened, or the write fails.
ApplyWholeFileFails(rs) ==
    /\ backend # "nginx"
    /\ UNCHANGED <<file, conf>> \/ (CanRender(rs) /\ Damage)
    /\ call' = Called("apply", rs, "error")
    /\ UNCHANGED backend

\* nginx's apply_routes writes file after file, in the order of the list, and
\* stops at the first that fails: `written` is done, one more may be damaged.
\* Files of domains that are not in the list stay.
ApplyFiles(rs, written, damaged, answer) ==
    /\ backend = "nginx"
    /\ conf' = [k \in Keys |-> IF k \in written THEN EntryFor(k, rs[k])
                               ELSE IF k \in damaged THEN Unknown ELSE conf[k]]
    /\ call' = Called("apply", rs, answer)
    /\ UNCHANGED <<backend, file>>

\* Slip: the filter keeps nothing after the entry it was looking for.
DropAll(d) == Empty

\* What remove_route leaves of a file it has read.
Drop(d) == [conf EXCEPT ![Key(d)] = None]

RemoveRoute(d) ==
    /\ file = "ok"
    /\ conf' = Drop(d)
    /\ call' = Called("remove", d, "ok")
    /\ UNCHANGED <<backend, file>>

\* remove_route answers success and has done nothing that is known: there is no file;
\* caddy filters a damaged file as text, and traefik rewrites one whose beginning still
\* parses; nexa-proxy takes every error of the read for a missing file.
RemoveNothing(d) ==
    /\ \/ file = "absent"
       \/ file = "damaged" /\ backend \in {"caddy", "traefik"}
       \/ backend = "nexa-proxy"
    /\ call' = Called("remove", d, "ok")
    /\ UNCHANGED <<backend, file, conf>>

\* remove_route fails: the file cannot be read, removed or parsed, or the write
\* of what is left of it fails.
RemoveRouteFails(d) ==
    /\ file # "absent"
    /\ \/ UNCHANGED <<file, conf>>
       \/ file = "ok" /\ Damage
    /\ call' = Called("remove", d, "error")
    /\ UNCHANGED backend

\* nginx starts with an empty directory, the others with no file.
Init ==
    /\ backend \in Backends
    /\ file = IF backend = "nginx" THEN "ok" ELSE "absent"
    /\ conf = Empty
    /\ call = Called("none", None, "ok")

Next ==
    \/ \E rs \in RouteLists :
          \/ ApplyWholeFile(rs) \/ ApplyWholeFileFails(rs)
          \/ ApplyFiles(rs, DOMAIN rs, {}, "ok")
          \/ \E written \in SUBSET DOMAIN rs, d \in DOMAIN rs :
                /\ d \notin written
                /\ \E damaged \in {{}, {d}} : ApplyFiles(rs, written, damaged, "error")
    \/ \E d \in Domains : RemoveRoute(d) \/ RemoveNothing(d) \/ RemoveRouteFails(d)

Spec == Init /\ [][Next]_vars

----------------------------------------------------------------------------
(* Properties *)

\* Every variable has its type; a file that is absent or damaged yields no
\* entry, and every entry stands under the key of its own domain, which is how
\* remove_route finds it.
TypeOK ==
    /\ backend \in Backends
    /\ file \in {"absent", "ok", "damaged"}
    /\ backend = "nginx" => file = "ok"
    /\ conf \in [Keys -> Entry \cup {None, Unknown}]
    /\ file # "ok" => conf = Empty
    /\ \A k \in Keys : conf[k] \in Entry => Key(conf[k].domain) = k

\* The table the configuration stands for.
RouteOf(d) ==
    IF file = "damaged" THEN Unknown
    ELSE IF conf[Key(d)] \in {None, Unknown} THEN conf[Key(d)]
    ELSE IF conf[Key(d)].domain = d THEN conf[Key(d)].route
    ELSE None

Table == [d \in Domains |-> RouteOf(d)]

\* The domains that share the key of d: itself alone, but with traefik those too that
\* differ from it by '.' and '-' only.
Rivals == [d \in Domains |-> {e \in Domains : Key(e) = Key(d)}]

RT == INSTANCE RoutingTable WITH table <- Table, rivals <- Rivals,
                                 lenient <- (backend = "nexa-proxy")

\* Each backend keeps the promise: its calls, by the answer they give, do to the table
\* its files stand for what RoutingTable says, also when writes are cut short, and
\* domains that share a key disturb nobody but each other.
ImplementsRoutingTable == RT!Spec

=============================================================================
