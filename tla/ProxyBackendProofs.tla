------------------------- MODULE ProxyBackendProofs -------------------------
(***************************************************************************)
(* The four proxy backends implement RoutingTable.                         *)
(***************************************************************************)
EXTENDS ProxyBackend, TLAPS

\* The key of a domain is a key.
LEMMA KeyType ==
    ASSUME NEW d \in Domains
    PROVE  Key(d) \in Keys /\ d \in Keys
BY DEF Key, Keys

\* An entry made for a domain is an entry.
LEMMA EntryType ==
    ASSUME NEW d \in Domains, NEW route \in Routes
    PROVE  /\ EntryFor(d, route) \in Entry
           /\ EntryFor(d, route).domain = d /\ EntryFor(d, route).route = route
BY DEF EntryFor, Entry

\* What apply_routes writes: one entry under each key it needs.
LEMMA RenderedType ==
    ASSUME NEW rs \in RouteLists, NEW ds \in Survivors(rs)
    PROVE  /\ ds \subseteq DOMAIN rs /\ DOMAIN rs \subseteq Domains
           /\ \A d \in DOMAIN rs : rs[d] \in Routes
           /\ Rendered(rs, ds) \in [Keys -> Entry \cup {None, Unknown}]
           /\ \A k \in Keys : \/ /\ Rendered(rs, ds)[k] = None
                                 /\ \A d \in ds : Key(d) # k
                              \/ \E d \in ds : /\ Key(d) = k
                                               /\ Rendered(rs, ds)[k] = EntryFor(d, rs[d])
<1>1. PICK es \in SUBSET Domains : rs \in [es -> Routes]
      BY DEF RouteLists
<1>2. ds \subseteq DOMAIN rs /\ DOMAIN rs \subseteq Domains
      BY <1>1 DEF Survivors
<1>3. \A d \in DOMAIN rs : rs[d] \in Routes
      BY <1>1
<1>4. ASSUME NEW k \in Keys
      PROVE  \/ /\ Rendered(rs, ds)[k] = None
                /\ \A d \in ds : Key(d) # k
             \/ \E d \in ds : /\ Key(d) = k
                              /\ Rendered(rs, ds)[k] = EntryFor(d, rs[d])
  <2>1. CASE \E d \in ds : Key(d) = k
    <3> DEFINE w == CHOOSE d \in ds : Key(d) = k
    <3>1. w \in ds /\ Key(w) = k
          BY <2>1
    <3>2. Rendered(rs, ds)[k] = EntryFor(w, rs[w])
          BY <2>1 DEF Rendered
    <3> QED
        BY <3>1, <3>2
  <2>2. CASE ~ \E d \in ds : Key(d) = k
        BY <2>2 DEF Rendered
  <2> QED
      BY <2>1, <2>2
<1>5. Rendered(rs, ds) \in [Keys -> Entry \cup {None, Unknown}]
  <2>1. \A d \in ds : EntryFor(d, rs[d]) \in Entry
        BY <1>2, <1>3, EntryType
  <2>2. \A k \in Keys : Rendered(rs, ds)[k] \in Entry \cup {None, Unknown}
        BY <1>4, <2>1
  <2> QED
      BY <2>2 DEF Rendered
<1> QED
    BY <1>2, <1>3, <1>4, <1>5

\* The type invariant holds initially.
LEMMA TypeInit == Init => TypeOK
BY NoneAssumption DEF Init, TypeOK, Empty, Backends

\* Every call keeps the type invariant.
LEMMA TypeNext == TypeOK /\ [Next]_vars => TypeOK'
<1> SUFFICES ASSUME TypeOK, [Next]_vars PROVE TypeOK'
    OBVIOUS
<1>1. ASSUME NEW rs \in RouteLists, ApplyWholeFile(rs) PROVE TypeOK'
  <2>1. PICK ds \in Survivors(rs) : conf' = Rendered(rs, ds)
        BY <1>1 DEF ApplyWholeFile
  <2>2. \A k \in Keys : conf'[k] \in Entry => Key(conf'[k].domain) = k
    <3> SUFFICES ASSUME NEW k \in Keys, conf'[k] \in Entry
                 PROVE  Key(conf'[k].domain) = k
        OBVIOUS
    <3>1. conf'[k] # None
          BY NoneAssumption
    <3>2. PICK d \in ds : Key(d) = k /\ conf'[k] = EntryFor(d, rs[d])
          BY <2>1, <3>1, RenderedType
    <3>3. conf'[k].domain = d
          BY <3>2 DEF EntryFor
    <3> QED
        BY <3>2, <3>3
  <2>3. conf' \in [Keys -> Entry \cup {None, Unknown}]
        BY <2>1, RenderedType
  <2> QED
      BY <1>1, <2>2, <2>3 DEF ApplyWholeFile, TypeOK, Key
<1>d. ASSUME Damage, backend' = backend PROVE TypeOK'
      BY <1>d, NoneAssumption DEF Damage, TypeOK, Empty
<1>u. ASSUME UNCHANGED <<backend, file, conf>> PROVE TypeOK'
      BY <1>u DEF TypeOK, Key
<1>2. ASSUME NEW rs \in RouteLists, ApplyWholeFileFails(rs) PROVE TypeOK'
      BY <1>2, <1>d, <1>u DEF ApplyWholeFileFails
<1>3. ASSUME NEW rs \in RouteLists, NEW written \in SUBSET DOMAIN rs,
             NEW damaged \in SUBSET DOMAIN rs, NEW answer, ApplyFiles(rs, written, damaged, answer)
      PROVE  TypeOK'
  <2>1. PICK es \in SUBSET Domains : rs \in [es -> Routes]
        BY DEF RouteLists
  <2>2. \A k \in written : EntryFor(k, rs[k]) \in Entry /\ EntryFor(k, rs[k]).domain = k
        BY <2>1 DEF EntryFor, Entry
  <2>3. conf' \in [Keys -> Entry \cup {None, Unknown}]
        BY <1>3, <2>2 DEF ApplyFiles, TypeOK
  <2>4. \A k \in Keys : conf'[k] \in Entry => conf'[k].domain = k
    <3> SUFFICES ASSUME NEW k \in Keys, conf'[k] \in Entry
                 PROVE  conf'[k].domain = k
        OBVIOUS
    <3>1. backend' = "nginx" /\ backend = "nginx"
          BY <1>3 DEF ApplyFiles
    <3>2. CASE k \in written
          BY <1>3, <2>2, <3>2 DEF ApplyFiles
    <3>3. CASE k \notin written
      <4>1. conf'[k] = conf[k]
            BY <1>3, <3>3, NoneAssumption DEF ApplyFiles
      <4> QED
          BY <3>1, <4>1 DEF TypeOK, Key
    <3> QED
        BY <3>2, <3>3
  <2> QED
      BY <1>3, <2>3, <2>4 DEF ApplyFiles, TypeOK, Key
<1>4. ASSUME NEW d \in Domains, RemoveRoute(d) PROVE TypeOK'
  <2>1. conf' \in [Keys -> Entry \cup {None, Unknown}] /\ UNCHANGED <<backend, file>> /\ file = "ok"
        BY <1>4, KeyType DEF RemoveRoute, Drop, TypeOK
  <2>2. \A k \in Keys : conf'[k] = conf[k] \/ conf'[k] = None
        BY <1>4, KeyType DEF RemoveRoute, Drop, TypeOK
  <2>3. \A k \in Keys : conf'[k] \in Entry => Key(conf'[k].domain) = k
        BY <2>2, NoneAssumption DEF TypeOK
  <2> QED
      BY <2>1, <2>3 DEF TypeOK, Key
<1>5. ASSUME NEW d \in Domains, RemoveRouteFails(d) PROVE TypeOK'
      BY <1>5, <1>d, <1>u DEF RemoveRouteFails
<1>6. ASSUME NEW d \in Domains, RemoveNothing(d) PROVE TypeOK'
      BY <1>6, <1>u DEF RemoveNothing
<1>7. CASE UNCHANGED vars
      BY <1>7, <1>u DEF vars
<1> QED
    BY <1>1, <1>2, <1>3, <1>4, <1>5, <1>6, <1>7 DEF Next

\* Every entry is under the key of the domain it matches, in all four backends
\* and also when keys collide or writes are cut short.
THEOREM TypeCorrect == Spec => []TypeOK
    BY TypeInit, TypeNext, PTL DEF Spec

----------------------------------------------------------------------------
(* The refinement *)

\* What the table says of a domain, by what is under its key.
TableFacts ==
    /\ Table \in [Domains -> Routes \cup {None, Unknown}]
    /\ \A d \in Domains :
          /\ Key(d) \in Keys
          /\ file = "damaged" => Table[d] = Unknown
          /\ file # "damaged" =>
                /\ conf[Key(d)] \in {None, Unknown} => Table[d] = conf[Key(d)]
                /\ conf[Key(d)] \notin {None, Unknown} =>
                      Table[d] = IF conf[Key(d)].domain = d THEN conf[Key(d)].route ELSE None

\* What the configuration says of a domain, case by case.
LEMMA TableCases == TypeOK => TableFacts
<1> SUFFICES ASSUME TypeOK PROVE TableFacts
    OBVIOUS
<1>1. ASSUME NEW d \in Domains
      PROVE  /\ Key(d) \in Keys
             /\ conf[Key(d)] \in {None, Unknown} \/ conf[Key(d)].route \in Routes
      BY KeyType DEF TypeOK, Entry
<1>2. \A d \in Domains : Table[d] = RouteOf(d)
      BY DEF Table
<1>3. \A d \in Domains : RouteOf(d) \in Routes \cup {None, Unknown}
      BY <1>1 DEF RouteOf
<1>4. Table \in [Domains -> Routes \cup {None, Unknown}]
      BY <1>3 DEF Table
<1> QED
    BY <1>1, <1>2, <1>4, NoneAssumption DEF TableFacts, RouteOf

\* The same of the state after a step.
LEMMA TableCasesNext == TypeOK' => TableFacts'
BY TableCases, PTL

\* An initial configuration stands for an empty routing table.
LEMMA RefinesInit == Init => RT!Init
<1> SUFFICES ASSUME Init PROVE \A d \in Domains : RouteOf(d) = None
    BY DEF Init, Called, RT!Init, RT!Called, Table, Rivals
<1> QED
    BY KeyType, NoneAssumption DEF Init, Empty, RouteOf

\* Every step of a backend is a step of the table, or leaves it alone.
LEMMA RefinesNext == TypeOK /\ TypeOK' /\ [Next]_vars => [RT!Next]_(RT!tvars)
<1> SUFFICES ASSUME TypeOK, TypeOK', [Next]_vars PROVE [RT!Next]_(RT!tvars)
    OBVIOUS
<1>0. TableFacts /\ TableFacts'
      BY TableCases, TableCasesNext
<1>a. ASSUME NEW rs \in RouteLists
      PROVE  /\ rs \in RT!RouteLists /\ DOMAIN rs \subseteq Domains
             /\ \A d \in DOMAIN rs : rs[d] \in Routes
  <2>1. PICK ds \in SUBSET Domains : rs \in [ds -> Routes]
        BY DEF RouteLists
  <2> QED
      BY <2>1 DEF RouteLists, RT!RouteLists
<1>b. backend' = backend
      BY DEF Next, vars, ApplyWholeFile, ApplyWholeFileFails, ApplyFiles, RemoveRoute,
             RemoveNothing, RemoveRouteFails
<1>r. Rivals' = Rivals
      BY <1>b DEF Rivals, Key
<1>c. ASSUME UNCHANGED <<file, conf>> PROVE Table' = Table
      BY <1>b, <1>c DEF Table, RouteOf, Key
<1>d. ASSUME Damage PROVE \A d \in Domains : Table'[d] = Unknown
      BY <1>0, <1>d DEF Damage, TableFacts
<1>1. ASSUME NEW rs \in RouteLists, ApplyWholeFile(rs) PROVE RT!Next
  <2>1. PICK ds \in Survivors(rs) : conf' = Rendered(rs, ds)
        BY <1>1 DEF ApplyWholeFile
  <2>2. file' = "ok" /\ backend' = backend
        BY <1>1 DEF ApplyWholeFile
  <2>3. ASSUME NEW d \in Domains, NEW e \in ds, Key(e) = Key(d),
               conf'[Key(d)] = EntryFor(e, rs[e])
        PROVE  Table'[d] = IF e = d THEN rs[d] ELSE None
    <3>1. conf'[Key(d)] \notin {None, Unknown}
          BY <1>a, <2>1, <2>3, EntryType, RenderedType, NoneAssumption
    <3>2. conf'[Key(d)].domain = e /\ conf'[Key(d)].route = rs[e]
          BY <2>3 DEF EntryFor
    <3>3. Key(d)' = Key(d)
          BY <2>2 DEF Key
    <3> QED
        BY <1>0, <2>2, <3>1, <3>2, <3>3 DEF TableFacts
  <2>4. ASSUME NEW d \in Domains, d \in DOMAIN rs
        PROVE  Table'[d] = rs[d] \/ RT!Displaced(d, rs)
    <3>1. PICK g \in ds : Key(g) = Key(d)
          BY <2>4 DEF Survivors
    <3>2. PICK e \in ds : Key(e) = Key(d) /\ conf'[Key(d)] = EntryFor(e, rs[e])
          BY <2>1, <3>1, KeyType, RenderedType
    <3>3. e \in Domains /\ e \in DOMAIN rs
          BY <2>1, RenderedType
    <3>4. Table'[d] = IF e = d THEN rs[d] ELSE None
          BY <2>3, <3>2
    <3>5. Table'[e] = rs[e]
          BY <2>3, <3>2, <3>3
    <3>6. e \in Rivals[d]
          BY <3>2, <3>3 DEF Rivals
    <3> QED
        BY <3>3, <3>4, <3>5, <3>6 DEF RT!Displaced
  <2>5. ASSUME NEW d \in Domains, d \notin DOMAIN rs
        PROVE  Table'[d] = None
    <3>1. CASE \A e \in ds : Key(e) # Key(d)
      <4>1. conf'[Key(d)] = None /\ Key(d)' = Key(d)
            BY <2>1, <2>2, <3>1, KeyType, RenderedType DEF Key
      <4> QED
          BY <1>0, <2>2, <4>1 DEF TableFacts
    <3>2. CASE \E e \in ds : Key(e) = Key(d)
      <4>1. PICK e \in ds : Key(e) = Key(d) /\ conf'[Key(d)] = EntryFor(e, rs[e])
            BY <2>1, <3>2, KeyType, RenderedType
      <4>2. e # d
            BY <2>1, <2>5, RenderedType
      <4>3. Table'[d] = IF e = d THEN rs[d] ELSE None
            BY <2>3, <4>1
      <4> QED
          BY <4>2, <4>3
    <3> QED
        BY <3>1, <3>2
  <2>6. RT!Apply(rs)
        BY <1>0, <1>1, <2>4, <2>5 DEF ApplyWholeFile, Called, RT!Apply, RT!Called, TableFacts
  <2> QED
      BY <1>a, <1>b, <1>r, <2>6 DEF RT!Next
<1>2. ASSUME NEW rs \in RouteLists, ApplyWholeFileFails(rs) PROVE RT!Next
  <2>1. call' = RT!Called("apply", rs, "error")
        BY <1>2 DEF ApplyWholeFileFails, Called, RT!Called
  <2>2. ASSUME UNCHANGED <<file, conf>> PROVE RT!ApplyFails(rs)
        BY <1>0, <1>c, <2>1, <2>2 DEF RT!ApplyFails, TableFacts
  <2>3. ASSUME Damage PROVE RT!ApplyFails(rs)
        BY <1>0, <1>d, <2>1, <2>3 DEF RT!ApplyFails, TableFacts
  <2>4. RT!ApplyFails(rs)
        BY <1>2, <2>2, <2>3 DEF ApplyWholeFileFails
  <2> QED
      BY <1>a, <1>b, <1>r, <2>4 DEF RT!Next
<1>3. ASSUME NEW rs \in RouteLists, NEW written \in SUBSET DOMAIN rs,
             NEW damaged \in SUBSET DOMAIN rs, NEW answer, ApplyFiles(rs, written, damaged, answer)
      PROVE  /\ call' = RT!Called("apply", rs, answer)
             /\ Table' \in [Domains -> Routes \cup {None, Unknown}]
             /\ \A d \in Domains : Table'[d] = IF d \in written THEN rs[d]
                                              ELSE IF d \in damaged THEN Unknown ELSE Table[d]
  <2>1. file' = file /\ file = "ok"
        BY <1>3 DEF ApplyFiles, TypeOK
  <2>2. \A d \in Domains : Key(d) = d /\ Key(d)' = d /\ d \in Keys
        BY <1>3, KeyType DEF ApplyFiles, Key
  <2>3. ASSUME NEW d \in Domains
        PROVE  Table'[d] = IF d \in written THEN rs[d]
                           ELSE IF d \in damaged THEN Unknown ELSE Table[d]
    <3>1. CASE d \in written
      <4>1. conf'[d] = EntryFor(d, rs[d])
            BY <1>3, <2>2, <3>1 DEF ApplyFiles
      <4>2. conf'[d] \notin {None, Unknown} /\ conf'[d].domain = d /\ conf'[d].route = rs[d]
            BY <1>a, <3>1, <4>1, EntryType, NoneAssumption
      <4> QED
          BY <1>0, <2>1, <2>2, <3>1, <4>2 DEF TableFacts
    <3>2. CASE d \notin written
      <4>1. conf'[d] = IF d \in damaged THEN Unknown ELSE conf[d]
            BY <1>3, <2>2, <3>2 DEF ApplyFiles
      <4> QED
          BY <1>0, <2>1, <2>2, <3>2, <4>1 DEF TableFacts
    <3> QED
        BY <3>1, <3>2
  <2>4. call' = RT!Called("apply", rs, answer)
        BY <1>3 DEF ApplyFiles, Called, RT!Called
  <2> QED
      BY <1>0, <2>3, <2>4 DEF TableFacts
<1>4. ASSUME NEW rs \in RouteLists, ApplyFiles(rs, DOMAIN rs, {}, "ok") PROVE RT!Next
  <2>1. \A ws, xs \in SUBSET DOMAIN rs : ApplyFiles(rs, ws, xs, "ok") =>
           /\ call' = RT!Called("apply", rs, "ok")
           /\ Table' \in [Domains -> Routes \cup {None, Unknown}]
           /\ \A d \in Domains : Table'[d] = IF d \in ws THEN rs[d]
                                            ELSE IF d \in xs THEN Unknown ELSE Table[d]
        BY <1>3
  <2>2. /\ call' = RT!Called("apply", rs, "ok")
        /\ Table' \in [Domains -> Routes \cup {None, Unknown}]
        /\ \A d \in Domains : Table'[d] = IF d \in DOMAIN rs THEN rs[d] ELSE Table[d]
    <3> DEFINE ws == DOMAIN rs
               xs == {}
    <3>1. ws \in SUBSET DOMAIN rs /\ xs \in SUBSET DOMAIN rs /\ ApplyFiles(rs, ws, xs, "ok")
          BY <1>4
    <3>2. \A d : (d \in ws <=> d \in DOMAIN rs) /\ d \notin xs
          OBVIOUS
    <3> HIDE DEF ws, xs
    <3>3. /\ call' = RT!Called("apply", rs, "ok")
          /\ Table' \in [Domains -> Routes \cup {None, Unknown}]
          /\ \A d \in Domains : Table'[d] = IF d \in ws THEN rs[d]
                                           ELSE IF d \in xs THEN Unknown ELSE Table[d]
          BY <2>1, <3>1
    <3> QED
        BY <3>2, <3>3
  <2>3. RT!Apply(rs)
        BY <2>2 DEF RT!Apply
  <2> QED
      BY <1>a, <1>b, <1>r, <2>3 DEF RT!Next
<1>5. ASSUME NEW rs \in RouteLists, NEW written \in SUBSET DOMAIN rs,
             NEW damaged \in SUBSET DOMAIN rs, ApplyFiles(rs, written, damaged, "error")
      PROVE  RT!Next
  <2>1. RT!ApplyFails(rs)
        BY <1>3, <1>5 DEF RT!ApplyFails
  <2> QED
      BY <1>a, <1>b, <1>r, <2>1 DEF RT!Next
<1>6. ASSUME NEW rs \in RouteLists, NEW written \in SUBSET DOMAIN rs, NEW d \in DOMAIN rs,
             NEW damaged \in {{}, {d}}, ApplyFiles(rs, written, damaged, "error")
      PROVE  RT!Next
      BY <1>5, <1>6
<1>7. ASSUME NEW d \in Domains, RemoveRoute(d) PROVE RT!Next
  <2>1. file' = file /\ file = "ok" /\ conf' = [conf EXCEPT ![Key(d)] = None]
        BY <1>7 DEF RemoveRoute, Drop
  <2>2. ASSUME NEW e \in Domains PROVE Table'[e] = IF e \in Rivals[d] THEN None ELSE Table[e]
    <3>1. Key(e)' = Key(e) /\ Key(e) \in Keys /\ (Key(e) = Key(d) <=> e \in Rivals[d])
          BY <1>b, KeyType DEF Key, Rivals
    <3>2. conf'[Key(e)] = IF e \in Rivals[d] THEN None ELSE conf[Key(e)]
          BY <2>1, <3>1 DEF TypeOK
    <3> QED
        BY <1>0, <2>1, <3>1, <3>2 DEF TableFacts
  <2>3. Table' = [e \in Domains |-> IF e \in Rivals[d] THEN None ELSE Table[e]]
        BY <1>0, <2>2 DEF TableFacts
  <2>4. RT!Remove(d)
        BY <1>7, <2>3 DEF RemoveRoute, Called, RT!Remove, RT!Called
  <2> QED
      BY <1>b, <1>r, <2>4 DEF RT!Next
<1>8. ASSUME NEW d \in Domains, RemoveNothing(d) PROVE RT!Next
  <2>1. Table' = Table /\ call' = RT!Called("remove", d, "ok")
        BY <1>8, <1>c DEF RemoveNothing, Called, RT!Called
  <2>2. ASSUME file = "absent" PROVE RT!Remove(d)
    <3>1. \A e \in Domains : conf[Key(e)] = None
          BY <2>2, KeyType DEF TypeOK, Empty
    <3>2. \A e \in Domains : Table[e] = None
          BY <1>0, <2>2, <3>1 DEF TableFacts
    <3>3. Table' = [e \in Domains |-> IF e \in Rivals[d] THEN None ELSE Table[e]]
          BY <1>0, <2>1, <3>2 DEF TableFacts
    <3> QED
        BY <2>1, <3>3 DEF RT!Remove
  <2>3. ASSUME file = "damaged" PROVE RT!Remove(d)
        BY <1>0, <2>1, <2>3 DEF RT!Remove, TableFacts
  <2>4. ASSUME backend = "nexa-proxy" PROVE RT!Remove(d)
        BY <2>1, <2>4 DEF RT!Remove
  <2>5. RT!Remove(d)
        BY <1>8, <2>2, <2>3, <2>4 DEF RemoveNothing
  <2> QED
      BY <1>b, <1>r, <2>5 DEF RT!Next
<1>9. ASSUME NEW d \in Domains, RemoveRouteFails(d) PROVE RT!Next
  <2>1. call' = RT!Called("remove", d, "error")
        BY <1>9 DEF RemoveRouteFails, Called, RT!Called
  <2>2. ASSUME UNCHANGED <<file, conf>> PROVE RT!RemoveFails(d)
        BY <1>0, <1>c, <2>1, <2>2 DEF RT!RemoveFails, TableFacts
  <2>3. ASSUME Damage PROVE RT!RemoveFails(d)
        BY <1>0, <1>d, <2>1, <2>3 DEF RT!RemoveFails, TableFacts
  <2>4. RT!RemoveFails(d)
        BY <1>9, <2>2, <2>3 DEF RemoveRouteFails
  <2> QED
      BY <1>b, <1>r, <2>4 DEF RT!Next
<1>10. CASE UNCHANGED vars
  <2>1. Table' = Table /\ call' = call
        BY <1>10, <1>c DEF vars
  <2> QED
      BY <1>b, <1>r, <2>1 DEF RT!tvars
<1> QED
    BY <1>1, <1>2, <1>4, <1>6, <1>7, <1>8, <1>9, <1>10 DEF Next

\* All four backends implement the abstract routing table, for any domains and routes,
\* and also when domains share a key (traefik.rs: render_config, remove_route): no call,
\* and no write cut short, gives a domain a route that was not meant for it, and a
\* domain is disturbed by none but its rivals.
THEOREM Refinement == Spec => ImplementsRoutingTable
<1>1. Init => RT!Init
      BY RefinesInit
<1>2. TypeOK /\ TypeOK' /\ [Next]_vars => [RT!Next]_(RT!tvars)
      BY RefinesNext
<1> QED
    BY <1>1, <1>2, TypeCorrect, PTL DEF Spec, ImplementsRoutingTable, RT!Spec

----------------------------------------------------------------------------
(* What the refinement says where no two domains share a key               *)

\* With traefik, no two domains in use differ by '.' and '-' only.
KeysApart == backend = "traefik" => \A d, e \in Domains : Sanitized[d] = Sanitized[e] => d = e

\* Every route that apply_routes was given is in the configuration when it has answered
\* success.
AllApplied ==
    call.op = "apply" /\ call.answer = "ok" => \A d \in DOMAIN call.arg : RouteOf(d) = call.arg[d]

\* What was applied last, told of the table.
Applied ==
    call.op = "apply" /\ call.answer = "ok" =>
        /\ call.arg \in RouteLists
        /\ \A d \in DOMAIN call.arg : Table[d] = call.arg[d]

\* A step of the table keeps what was applied if nobody has a rival.
LEMMA AppliedNext ==
    ASSUME KeysApart, Applied, [RT!Next]_(RT!tvars)
    PROVE  Applied'
<1>1. \A d \in Domains : Rivals[d] = {d}
      BY DEF KeysApart, Rivals, Key
<1>2. CASE UNCHANGED RT!tvars
      BY <1>2 DEF RT!tvars, Applied
<1>3. CASE RT!Next
  <2>1. SUFFICES ASSUME call'.op = "apply", call'.answer = "ok"
                 PROVE  /\ call'.arg \in RouteLists
                        /\ \A d \in DOMAIN call'.arg : Table'[d] = call'.arg[d]
        BY DEF Applied
  <2>2. PICK rs \in RT!RouteLists : RT!Apply(rs)
        BY <1>3, <2>1 DEF RT!Next, RT!ApplyFails, RT!Remove, RT!RemoveFails, RT!Called
  <2>3. call'.arg = rs /\ rs \in RouteLists
        BY <2>2 DEF RT!Apply, RT!Called, RT!RouteLists, RouteLists
  <2>4. DOMAIN rs \subseteq Domains
    <3>1. PICK ds \in SUBSET Domains : rs \in [ds -> Routes]
          BY <2>3 DEF RouteLists
    <3> QED
        BY <3>1
  <2>5. ASSUME NEW d \in DOMAIN rs PROVE Table'[d] = rs[d]
        BY <1>1, <2>2, <2>4 DEF RT!Apply, RT!Displaced
  <2> QED
      BY <2>3, <2>5
<1> QED
    BY <1>2, <1>3

\* Where no two domains share a key, every route of an apply_routes that answered success
\* is in the configuration until the next call, whatever backend it is.
THEOREM AllAppliedCorrect == Spec /\ KeysApart => []AllApplied
<1>1. Init => Applied
      BY DEF Init, Applied, Called
<1>2. KeysApart /\ [Next]_vars => KeysApart'
      BY DEF KeysApart, Next, vars, ApplyWholeFile, ApplyWholeFileFails, ApplyFiles, RemoveRoute,
             RemoveNothing, RemoveRouteFails
<1>3. KeysApart /\ Applied /\ TypeOK /\ TypeOK' /\ [Next]_vars => Applied'
      BY AppliedNext, RefinesNext
<1>4. Applied => AllApplied
  <2> SUFFICES ASSUME Applied, call.op = "apply", call.answer = "ok", NEW d \in DOMAIN call.arg
               PROVE  RouteOf(d) = call.arg[d]
      BY DEF AllApplied
  <2>1. PICK ds \in SUBSET Domains : call.arg \in [ds -> Routes]
        BY DEF Applied, RouteLists
  <2> QED
      BY <2>1 DEF Applied, Table
<1> QED
    BY <1>1, <1>2, <1>3, <1>4, TypeCorrect, PTL DEF Spec

=============================================================================
