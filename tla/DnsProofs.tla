------------------------------ MODULE DnsProofs ------------------------------
(***************************************************************************)
(* EntriesMatch and AnswersTrue for any projects, names, addresses and     *)
(* clients, and lists of any length.  Filter is recursive: what it gives   *)
(* is proved by looking at the first length for which it would not.        *)
(***************************************************************************)
EXTENDS Dns, WellFoundedInduction, TLAPS

----------------------------------------------------------------------------
(* Filter *)

\* A set of numbers that is not empty has a least one.
LEMMA LeastNumber ==
    ASSUME NEW T, T \subseteq Nat, T # {}
    PROVE  \E n \in T : \A m \in T : n <= m
<1>1. PICK x \in T : \A y \in T : ~(<<y, x>> \in OpToRel(<, Nat))
      BY NatLessThanWellFounded, WFMin, Zenon
<1>2. ASSUME NEW y \in T PROVE ~(y < x)
  <2>1. <<y, x>> \notin {ss \in Nat \X Nat : ss[1] < ss[2]}
        BY <1>1, Zenon DEF OpToRel
  <2> QED
      BY <2>1
<1> QED
    BY <1>2

\* f is what Filter has made of the first elements of s, up to the m-th.
Filters(f, s, K, m) ==
    /\ f = [n \in 0 .. m |-> f[n]]
    /\ f[0] = <<>>
    /\ \A n \in 1 .. m : f[n] = IF s[n] \in K THEN Append(f[n - 1], s[n]) ELSE f[n - 1]

\* Filter can go on after any number of elements.
LEMMA FiltersExists ==
    ASSUME NEW S, NEW s \in Seq(S), NEW K, NEW m \in Nat
    PROVE  \E f : Filters(f, s, K, m)
<1> DEFINE T == {k \in Nat : ~\E f : Filters(f, s, K, k)}
<1> SUFFICES T = {}
    OBVIOUS
<1> SUFFICES ASSUME T # {} PROVE FALSE
    OBVIOUS
<1>1. PICK k \in T : \A j \in T : k <= j
      BY LeastNumber
<1>2. k \in Nat /\ ~\E f : Filters(f, s, K, k)
      BY <1>1
<1>3. k # 0
  <2> DEFINE f == [n \in 0 .. 0 |-> <<>>]
  <2>1. Filters(f, s, K, 0)
        BY DEF Filters
  <2> QED
      BY <1>2, <2>1
<1>4. PICK f : Filters(f, s, K, k - 1)
  <2>1. k - 1 \in Nat /\ ~(k <= k - 1)
        BY <1>2, <1>3
  <2> QED
      BY <1>1, <2>1
<1> DEFINE g == [n \in 0 .. k |-> IF n = k THEN IF s[k] \in K THEN Append(f[k - 1], s[k])
                                                             ELSE f[k - 1]
                                  ELSE f[n]]
<1>5. Filters(g, s, K, k)
  <2>1. g = [n \in 0 .. k |-> g[n]]
        BY <1>2
  <2>2. g[0] = <<>>
        BY <1>2, <1>3, <1>4 DEF Filters
  <2>3. ASSUME NEW n \in 1 .. k
        PROVE  g[n] = IF s[n] \in K THEN Append(g[n - 1], s[n]) ELSE g[n - 1]
    <3>1. n - 1 \in 0 .. k /\ n - 1 # k /\ g[n - 1] = f[n - 1]
          BY <1>2
    <3>2. CASE n = k
          BY <1>2, <3>1, <3>2
    <3>3. CASE n # k
      <4>1. n \in 1 .. (k - 1) /\ g[n] = f[n]
            BY <1>2, <3>3
      <4>2. f[n] = IF s[n] \in K THEN Append(f[n - 1], s[n]) ELSE f[n - 1]
            BY <1>4, <4>1 DEF Filters
      <4> HIDE DEF g
      <4> QED
          BY <3>1, <4>1, <4>2
    <3> QED
        BY <3>2, <3>3
  <2> HIDE DEF g
  <2> QED
      BY <2>1, <2>2, <2>3 DEF Filters
<1> QED
    BY <1>2, <1>5

\* Filter is the end of what it has made of the elements one by one.
LEMMA FilterIsLast ==
    ASSUME NEW S, NEW s \in Seq(S), NEW K
    PROVE  \E f : Filters(f, s, K, Len(s)) /\ Filter(s, K) = f[Len(s)]
<1> DEFINE P(h) == h = [n \in 0 .. Len(s) |->
                           IF n = 0 THEN <<>>
                           ELSE IF s[n] \in K THEN Append(h[n - 1], s[n]) ELSE h[n - 1]]
           c == CHOOSE h : P(h)
<1>1. ASSUME NEW h PROVE P(h) <=> Filters(h, s, K, Len(s))
  <2> DEFINE Step(n) == IF n = 0 THEN <<>>
                        ELSE IF s[n] \in K THEN Append(h[n - 1], s[n]) ELSE h[n - 1]
  <2>1. P(h) <=> h = [n \in 0 .. Len(s) |-> Step(n)]
        OBVIOUS
  <2>2. Filters(h, s, K, Len(s)) <=> /\ h = [n \in 0 .. Len(s) |-> h[n]]
                                     /\ \A n \in 0 .. Len(s) : h[n] = Step(n)
    <3>1. Len(s) \in Nat /\ 0 \in 0 .. Len(s) /\ Step(0) = <<>>
          OBVIOUS
    <3>2. \A n \in 1 .. Len(s) : n \in 0 .. Len(s)
              /\ Step(n) = IF s[n] \in K THEN Append(h[n - 1], s[n]) ELSE h[n - 1]
          OBVIOUS
    <3>3. \A n \in 0 .. Len(s) : n = 0 \/ n \in 1 .. Len(s)
          BY <3>1
    <3> HIDE DEF Step
    <3> QED
        BY <3>1, <3>2, <3>3 DEF Filters
  <2> HIDE DEF Step, P
  <2> QED
      BY <2>1, <2>2, Zenon
<1>2. \E h : P(h)
  <2>1. PICK h : Filters(h, s, K, Len(s))
        BY FiltersExists
  <2> QED
      BY <1>1, <2>1
<1>3. Filter(s, K) = c[Len(s)]
      BY Zenon DEF Filter
<1> HIDE DEF P
<1>4. P(c)
      BY <1>2, Zenon
<1> QED
    BY <1>1, <1>3, <1>4

\* Filter keeps the elements of K, all of them and no other, and repeats none.
LEMMA FilterKeeps ==
    ASSUME NEW S, NEW s \in Seq(S), NEW K
    PROVE  /\ Filter(s, K) \in Seq(S)
           /\ \A a : Contains(Filter(s, K), a) <=> Contains(s, a) /\ a \in K
           /\ IsInjective(s) => IsInjective(Filter(s, K))
<1>1. PICK f : Filters(f, s, K, Len(s)) /\ Filter(s, K) = f[Len(s)]
      BY FilterIsLast
<1> DEFINE Part(t, n) == \* t is what the first n elements of s give
               /\ t \in Seq(S)
               /\ \A i \in 1 .. Len(t) : \E j \in 1 .. n : t[i] = s[j] /\ s[j] \in K
               /\ \A j \in 1 .. n : s[j] \in K => \E i \in 1 .. Len(t) : t[i] = s[j]
               /\ IsInjective(s) => \A i, j \in 1 .. Len(t) : t[i] = t[j] => i = j
           T == {n \in 0 .. Len(s) : ~Part(f[n], n)}
<1> HIDE DEF Part
<1>2. T = {}
  <2> SUFFICES ASSUME T # {} PROVE FALSE
      OBVIOUS
  <2>0. T \subseteq Nat
        OBVIOUS
  <2>1. PICK n \in T : \A m \in T : n <= m
        BY <2>0, LeastNumber
  <2>2. n \in 0 .. Len(s) /\ ~Part(f[n], n)
        BY <2>1
  <2>3. n # 0
    <3>1. Part(<<>>, 0)
          BY DEF Part
    <3> QED
        BY <1>1, <2>2, <3>1 DEF Filters
  <2>4. /\ n \in 1 .. Len(s) /\ n - 1 \in 0 .. Len(s) /\ Len(s) \in Nat
        BY <2>2, <2>3
  <2>5. Part(f[n - 1], n - 1)
    <3>1. ~(n <= n - 1)
          BY <2>4
    <3> QED
        BY <2>1, <2>4, <3>1
  <2>6. f[n] = IF s[n] \in K THEN Append(f[n - 1], s[n]) ELSE f[n - 1]
        BY <1>1, <2>4 DEF Filters
  <2>7. PICK t, r : t = f[n - 1] /\ r = f[n]
        OBVIOUS
  <2>8. Part(t, n - 1) /\ (r = IF s[n] \in K THEN Append(t, s[n]) ELSE t) /\ s[n] \in S
        BY <2>4, <2>5, <2>6, <2>7
  <2>9. Part(r, n)
    <3>1. CASE s[n] \notin K
      <4>1. r = t
            BY <2>8, <3>1
      <4>2. \A j \in 1 .. n : j \in 1 .. (n - 1) \/ j = n
            BY <2>4
      <4>3. \A j \in 1 .. (n - 1) : j \in 1 .. n
            BY <2>4
      <4>4. Part(t, n)
            BY <2>8, <3>1, <4>2, <4>3 DEF Part
      <4> QED
          BY <4>1, <4>4
    <3>2. CASE s[n] \in K
      <4>1. /\ r \in Seq(S) /\ Len(r) = Len(t) + 1 /\ r[Len(t) + 1] = s[n]
            /\ \A i \in 1 .. Len(t) : r[i] = t[i]
            /\ t \in Seq(S) /\ Len(t) \in Nat
            BY <2>8, <3>2 DEF Part
      <4>2. ASSUME NEW i \in 1 .. Len(r)
            PROVE  \E j \in 1 .. n : r[i] = s[j] /\ s[j] \in K
            BY <2>4, <2>8, <3>2, <4>1 DEF Part
      <4>3. ASSUME NEW j \in 1 .. n, s[j] \in K
            PROVE  \E i \in 1 .. Len(r) : r[i] = s[j]
        <5>1. CASE j = n
              BY <4>1, <5>1
        <5>2. CASE j # n
          <6>1. j \in 1 .. (n - 1)
                BY <2>4, <5>2
          <6>2. PICK i \in 1 .. Len(t) : t[i] = s[j]
                BY <2>8, <4>3, <6>1 DEF Part
          <6> QED
              BY <4>1, <6>2
        <5> QED
            BY <5>1, <5>2
      <4>4. ASSUME IsInjective(s), NEW i \in 1 .. Len(r), NEW j \in 1 .. Len(r), r[i] = r[j]
            PROVE  i = j
        <5>1. ASSUME NEW k \in 1 .. Len(t) PROVE t[k] # s[n]
          <6>1. PICK l \in 1 .. (n - 1) : t[k] = s[l]
                BY <2>8 DEF Part
          <6>2. l \in DOMAIN s /\ n \in DOMAIN s /\ l # n
                BY <2>4, <6>1
          <6> QED
              BY <4>4, <6>1, <6>2 DEF IsInjective
        <5>2. \A k, l \in 1 .. Len(t) : t[k] = t[l] => k = l
              BY <2>8, <4>4 DEF Part
        <5>3. /\ i \in 1 .. Len(t) \/ i = Len(t) + 1
              /\ j \in 1 .. Len(t) \/ j = Len(t) + 1
              BY <4>1
        <5>4. CASE i \in 1 .. Len(t) /\ j \in 1 .. Len(t)
              BY <4>1, <4>4, <5>2, <5>4
        <5>5. CASE i = Len(t) + 1 /\ j \in 1 .. Len(t)
              BY <4>1, <4>4, <5>1, <5>5
        <5>6. CASE i \in 1 .. Len(t) /\ j = Len(t) + 1
              BY <4>1, <4>4, <5>1, <5>6
        <5> QED
            BY <5>3, <5>4, <5>5, <5>6
      <4> QED
          BY <4>1, <4>2, <4>3, <4>4 DEF Part
    <3> QED
        BY <3>1, <3>2
  <2> QED
      BY <2>2, <2>7, <2>9
<1>3. PICK t : t = Filter(s, K)
      OBVIOUS
<1>4. Part(t, Len(s))
      BY <1>1, <1>2, <1>3
<1>5. ASSUME NEW a PROVE Contains(t, a) <=> Contains(s, a) /\ a \in K
  <2>1. ASSUME Contains(t, a) PROVE Contains(s, a) /\ a \in K
    <3>1. PICK i \in 1 .. Len(t) : t[i] = a
          BY <2>1 DEF Contains
    <3> QED
        BY <1>4, <3>1 DEF Part, Contains
  <2>2. ASSUME Contains(s, a), a \in K PROVE Contains(t, a)
    <3>1. PICK j \in 1 .. Len(s) : s[j] = a
          BY <2>2 DEF Contains
    <3> QED
        BY <1>4, <2>2, <3>1 DEF Part, Contains
  <2> QED
      BY <2>1, <2>2
<1>6. IsInjective(s) => IsInjective(t)
      BY <1>4 DEF Part, IsInjective
<1>7. t \in Seq(S)
      BY <1>4 DEF Part
<1> QED
    BY <1>3, <1>5, <1>6, <1>7

----------------------------------------------------------------------------
(* The record store *)

\* The nested maps: no empty list, no empty project, no address twice.
Shape ==
    /\ DOMAIN entries \subseteq Projects
    /\ \A p \in DOMAIN entries :
          /\ DOMAIN entries[p] \subseteq Names /\ DOMAIN entries[p] # {}
          /\ \A d \in DOMAIN entries[p] : /\ entries[p][d] \in Seq(Addresses)
                                          /\ entries[p][d] # <<>>
                                          /\ IsInjective(entries[p][d])

\* What lookup finds in a store.
At(store, p, d) ==
    IF p \in DOMAIN store /\ d \in DOMAIN store[p] THEN store[p][d] ELSE <<>>

\* What is listed is what is registered.
Agree ==
    /\ registered \subseteq Record
    /\ \A p \in Projects, d \in Names, a \in Addresses :
          Contains(At(entries, p, d), a) <=> <<p, d, a>> \in registered

LEMMA LookupIsAt == \A p, d : lookup(p, d) = At(entries, p, d)
BY DEF lookup, At

\* lookup gives a list of addresses without repetition, for any name.
LEMMA LookupType ==
    ASSUME Shape, NEW p, NEW d
    PROVE  /\ At(entries, p, d) \in Seq(Addresses) /\ IsInjective(At(entries, p, d))
           /\ At(entries, p, d) # <<>> => /\ p \in DOMAIN entries /\ d \in DOMAIN entries[p]
                                     /\ p \in Projects /\ d \in Names
<1>1. CASE p \in DOMAIN entries /\ d \in DOMAIN entries[p]
      BY <1>1 DEF Shape, At
<1>2. CASE ~(p \in DOMAIN entries /\ d \in DOMAIN entries[p])
  <2>1. At(entries, p, d) = <<>>
        BY <1>2 DEF At
  <2>2. IsInjective(<<>>) /\ <<>> \in Seq(Addresses)
        BY DEF IsInjective
  <2> QED
      BY <2>1, <2>2
<1> QED
    BY <1>1, <1>2

\* With keeps the shape, if the list is one of the right shape.
LEMMA WithShape ==
    ASSUME Shape, NEW p, NEW d, NEW list, p \in Projects, d \in Names, list \in Seq(Addresses),
           list # <<>>, IsInjective(list), entries' = With(p, d, list)
    PROVE  Shape'
<1> DEFINE hosts   == IF p \in DOMAIN entries THEN entries[p] ELSE <<>>
           changed == [h \in DOMAIN hosts \cup {d} |-> IF h = d THEN list ELSE hosts[h]]
<1>1. /\ entries' = [r \in DOMAIN entries \cup {p} |-> IF r = p THEN changed ELSE entries[r]]
      BY DEF With
<1>2. \A h : h \in DOMAIN hosts <=> p \in DOMAIN entries /\ h \in DOMAIN entries[p]
      OBVIOUS
<1>3. \A h \in DOMAIN hosts : hosts[h] = entries[p][h]
      BY <1>2
<1>4. /\ DOMAIN changed = DOMAIN hosts \cup {d} /\ changed[d] = list
      /\ \A h \in DOMAIN hosts : h # d => changed[h] = hosts[h]
      OBVIOUS
<1> HIDE DEF hosts, changed
<1>5. /\ DOMAIN entries' = DOMAIN entries \cup {p} /\ entries'[p] = changed
      /\ \A r \in DOMAIN entries : r # p => entries'[r] = entries[r]
      BY <1>1
<1>6. Shape'
  <2>1. ASSUME NEW r \in DOMAIN entries'
        PROVE  /\ DOMAIN entries'[r] \subseteq Names /\ DOMAIN entries'[r] # {}
               /\ \A e \in DOMAIN entries'[r] : /\ entries'[r][e] \in Seq(Addresses)
                                                /\ entries'[r][e] # <<>>
                                                /\ IsInjective(entries'[r][e])
    <3>1. CASE r = p
      <4>1. DOMAIN changed \subseteq Names /\ DOMAIN changed # {}
            BY <1>2, <1>4 DEF Shape
      <4>2. ASSUME NEW e \in DOMAIN changed
            PROVE  changed[e] \in Seq(Addresses) /\ changed[e] # <<>> /\ IsInjective(changed[e])
        <5>1. CASE e = d
              BY <1>4, <5>1
        <5>2. CASE e # d
          <6>1. /\ e \in DOMAIN hosts /\ changed[e] = entries[p][e]
                /\ p \in DOMAIN entries /\ e \in DOMAIN entries[p]
                BY <1>2, <1>3, <1>4, <5>2
          <6> QED
              BY <6>1 DEF Shape
        <5> QED
            BY <5>1, <5>2
      <4> QED
          BY <1>5, <3>1, <4>1, <4>2
    <3>2. CASE r # p
          BY <1>5, <3>2 DEF Shape
    <3> QED
        BY <3>1, <3>2
  <2> QED
      BY <1>5, <2>1 DEF Shape
<1> QED
    BY <1>6

\* With changes one list.
LEMMA WithAt ==
    ASSUME NEW p, NEW d, NEW list, NEW q, NEW e
    PROVE  At(With(p, d, list), q, e) = IF q = p /\ e = d THEN list ELSE At(entries, q, e)
<1>1. PICK hosts : hosts = IF p \in DOMAIN entries THEN entries[p] ELSE <<>>
      OBVIOUS
<1>2. PICK changed : changed = [h \in DOMAIN hosts \cup {d} |-> IF h = d THEN list ELSE hosts[h]]
      OBVIOUS
<1>3. PICK store : store = With(p, d, list)
      OBVIOUS
<1>4. store = [r \in DOMAIN entries \cup {p} |-> IF r = p THEN changed ELSE entries[r]]
      BY <1>1, <1>2, <1>3 DEF With
<1>5. /\ \A h : h \in DOMAIN hosts <=> p \in DOMAIN entries /\ h \in DOMAIN entries[p]
      /\ \A h \in DOMAIN hosts : hosts[h] = entries[p][h]
      BY <1>1
<1>6. At(store, q, e) = IF q = p /\ e = d THEN list ELSE At(entries, q, e)
  <2>1. CASE q = p
    <3>1. q \in DOMAIN store /\ store[q] = changed
          BY <1>4, <2>1
    <3> QED
        BY <1>2, <1>5, <2>1, <3>1 DEF At
  <2>2. CASE q # p
        BY <1>4, <2>2 DEF At
  <2> QED
      BY <2>1, <2>2
<1> QED
    BY <1>3, <1>6

\* Without removes one list, and a project that has no other.
LEMMA WithoutStore ==
    ASSUME Shape, NEW p, NEW d, At(entries, p, d) # <<>>, entries' = Without(p, d)
    PROVE  /\ Shape'
           /\ \A q, e : At(entries', q, e) = IF q = p /\ e = d THEN <<>> ELSE At(entries, q, e)
<1> DEFINE hosts == [h \in DOMAIN entries[p] \ {d} |-> entries[p][h]]
           kept  == IF DOMAIN hosts = {} THEN DOMAIN entries \ {p} ELSE DOMAIN entries
<1>1. entries' = [r \in kept |-> IF r = p THEN hosts ELSE entries[r]]
      BY DEF Without
<1>2. p \in DOMAIN entries /\ d \in DOMAIN entries[p]
      BY LookupType
<1>3. /\ DOMAIN hosts = DOMAIN entries[p] \ {d}
      /\ \A h \in DOMAIN hosts : hosts[h] = entries[p][h]
      OBVIOUS
<1>4. \A r : r \in kept <=> r \in DOMAIN entries /\ (r # p \/ DOMAIN hosts # {})
      OBVIOUS
<1> HIDE DEF hosts, kept
<1>5. /\ DOMAIN entries' = kept
      /\ p \in kept => entries'[p] = hosts
      /\ \A r \in kept : r # p => entries'[r] = entries[r]
      BY <1>1
<1>6. Shape'
  <2>1. ASSUME NEW r \in DOMAIN entries'
        PROVE  /\ DOMAIN entries'[r] \subseteq Names /\ DOMAIN entries'[r] # {}
               /\ \A e \in DOMAIN entries'[r] : /\ entries'[r][e] \in Seq(Addresses)
                                                /\ entries'[r][e] # <<>>
                                                /\ IsInjective(entries'[r][e])
    <3>1. CASE r = p
          BY <1>2, <1>3, <1>4, <1>5, <3>1 DEF Shape
    <3>2. CASE r # p
          BY <1>4, <1>5, <3>2 DEF Shape
    <3> QED
        BY <3>1, <3>2
  <2> QED
      BY <1>4, <1>5, <2>1 DEF Shape
<1>7. ASSUME NEW q, NEW e
      PROVE  At(entries', q, e) = IF q = p /\ e = d THEN <<>> ELSE At(entries, q, e)
  <2>1. At(entries', q, e) = IF q \in DOMAIN entries' /\ e \in DOMAIN entries'[q]
                        THEN entries'[q][e] ELSE <<>>
        BY DEF At
  <2>2. CASE q = p /\ e = d
        BY <1>3, <1>4, <1>5, <2>1, <2>2
  <2>3. CASE q = p /\ e # d
        BY <1>2, <1>3, <1>4, <1>5, <2>1, <2>3 DEF At
  <2>4. CASE q # p
        BY <1>4, <1>5, <2>1, <2>4 DEF At
  <2> QED
      BY <2>2, <2>3, <2>4
<1> QED
    BY <1>6, <1>7

\* register adds an address and repeats none.
LEMMA AddedKeeps ==
    ASSUME NEW old \in Seq(Addresses), IsInjective(old), NEW a \in Addresses,
           NEW list, list = Added(old, a)
    PROVE  /\ list \in Seq(Addresses) /\ list # <<>> /\ IsInjective(list)
           /\ \A b : Contains(list, b) <=> Contains(old, b) \/ b = a
<1>1. CASE Contains(old, a)
  <2>1. list = old /\ old # <<>>
        BY <1>1 DEF Added, Contains
  <2> QED
      BY <1>1, <2>1
<1>2. CASE ~Contains(old, a)
  <2>1. /\ list \in Seq(Addresses) /\ Len(list) = Len(old) + 1 /\ list[Len(old) + 1] = a
        /\ \A i \in 1 .. Len(old) : list[i] = old[i] /\ old[i] # a
        /\ Len(old) \in Nat /\ list # <<>>
        BY <1>2 DEF Added, Contains
  <2>2. ASSUME NEW i \in 1 .. Len(list), NEW j \in 1 .. Len(list), list[i] = list[j]
        PROVE  i = j
    <3>1. \A k, l \in 1 .. Len(old) : old[k] = old[l] => k = l
          BY DEF IsInjective
    <3> QED
        BY <2>1, <2>2, <3>1
  <2>3. ASSUME NEW b PROVE Contains(list, b) <=> Contains(old, b) \/ b = a
    <3>1. ASSUME Contains(list, b), b # a PROVE Contains(old, b)
          BY <2>1, <3>1 DEF Contains
    <3>2. ASSUME Contains(old, b) PROVE Contains(list, b)
          BY <2>1, <3>2 DEF Contains
    <3>3. Contains(list, a)
          BY <2>1 DEF Contains
    <3> QED
        BY <3>1, <3>2, <3>3
  <2> QED
      BY <2>1, <2>2, <2>3 DEF IsInjective
<1> QED
    BY <1>1, <1>2

\* The calls of the orchestrator keep the store in shape and in agreement with what is
\* registered.
LEMMA RegisterStore ==
    ASSUME Shape, Agree, NEW p \in Projects, NEW d \in Names, NEW a \in Addresses,
           register(p, d, a)
    PROVE  Shape' /\ Agree'
<1>1. PICK old, list : old = At(entries, p, d) /\ list = Added(old, a)
      OBVIOUS
<1>2. old \in Seq(Addresses) /\ IsInjective(old)
      BY <1>1, LookupType
<1>3. /\ list \in Seq(Addresses) /\ list # <<>> /\ IsInjective(list)
      /\ \A b : Contains(list, b) <=> Contains(old, b) \/ b = a
      BY <1>1, <1>2, AddedKeeps
<1>4. entries' = With(p, d, list) /\ registered' = registered \cup {<<p, d, a>>}
      BY <1>1, LookupIsAt DEF register
<1>5. /\ Shape' /\ At(entries', p, d) = list
      /\ \A q, e : ~(q = p /\ e = d) => At(entries', q, e) = At(entries, q, e)
  <2>1. list \in Seq(Addresses) /\ list # <<>> /\ IsInjective(list)
        BY <1>3
  <2>2. entries' = With(p, d, list)
        BY <1>4
  <2>3. Shape'
        BY <2>1, <2>2, WithShape
  <2>4. At(With(p, d, list), p, d) = list
        BY WithAt
  <2>5. ASSUME NEW q, NEW e, ~(q = p /\ e = d) PROVE At(entries', q, e) = At(entries, q, e)
        BY <2>2, <2>5, WithAt
  <2> QED
      BY <2>2, <2>3, <2>4, <2>5
<1>6. ASSUME NEW q \in Projects, NEW e \in Names, NEW b \in Addresses
      PROVE  Contains(At(entries', q, e), b) <=> <<q, e, b>> \in registered'
  <2>1. CASE q = p /\ e = d
        BY <1>1, <1>3, <1>4, <1>5, <2>1 DEF Agree
  <2>2. CASE ~(q = p /\ e = d)
        BY <1>4, <1>5, <2>2 DEF Agree
  <2> QED
      BY <2>1, <2>2
<1>7. registered' \subseteq Record
      BY <1>4 DEF Agree, Record
<1>8. Agree'
      BY <1>6, <1>7 DEF Agree, Contains
<1> QED
    BY <1>5, <1>8

LEMMA DeregisterStore ==
    ASSUME Shape, Agree, NEW p \in Projects, NEW d \in Names, NEW a \in Addresses,
           deregister(p, d, a)
    PROVE  Shape' /\ Agree'
<1>0. PICK old, list : old = At(entries, p, d) /\ list = Filter(old, Addresses \ {a})
      OBVIOUS
<1>1. old \in Seq(Addresses) /\ IsInjective(old)
      BY <1>0, LookupType
<1>2. /\ entries' = IF old = <<>> THEN entries ELSE Kept(p, d, list)
      /\ registered' = registered \ {<<p, d, a>>}
      BY <1>0, LookupIsAt DEF deregister
<1>3. \A b : Contains(old, b) => b \in Addresses
      BY <1>1 DEF Contains
<1>4. /\ list \in Seq(Addresses) /\ IsInjective(list)
      /\ \A b : Contains(list, b) <=> Contains(old, b) /\ b # a
      BY <1>0, <1>1, <1>3, FilterKeeps
<1>5. /\ Shape'
      /\ \A q, e : At(entries', q, e) = IF q = p /\ e = d THEN IF old = <<>> THEN old ELSE list
                                                     ELSE At(entries, q, e)
  <2>1. CASE old = <<>>
    <3>1. entries' = entries
          BY <1>2, <2>1
    <3>2. \A q, e : At(entries', q, e) = At(entries, q, e)
          BY <3>1 DEF At
    <3>3. Shape'
          BY <3>1 DEF Shape
    <3> QED
        BY <1>0, <2>1, <3>2, <3>3
  <2>2. CASE old # <<>> /\ list = <<>>
    <3>1. entries' = Without(p, d)
          BY <1>2, <2>2 DEF Kept
    <3> QED
        BY <1>0, <2>2, <3>1, WithoutStore
  <2>3. CASE old # <<>> /\ list # <<>>
    <3>1. entries' = With(p, d, list)
          BY <1>2, <2>3 DEF Kept
    <3> QED
      <4>1. Shape'
            BY <1>4, <2>3, <3>1, WithShape
      <4>2. At(With(p, d, list), p, d) = list
            BY WithAt
      <4>3. ASSUME NEW q, NEW e, ~(q = p /\ e = d) PROVE At(entries', q, e) = At(entries, q, e)
            BY <3>1, <4>3, WithAt
      <4> QED
          BY <2>3, <3>1, <4>1, <4>2, <4>3
  <2> QED
      BY <2>1, <2>2, <2>3
<1>6. old = <<>> => \A b : ~Contains(old, b)
      BY DEF Contains
<1>7. ASSUME NEW q \in Projects, NEW e \in Names, NEW b \in Addresses
      PROVE  Contains(At(entries', q, e), b) <=> <<q, e, b>> \in registered'
  <2>1. CASE q = p /\ e = d
    <3>1. Contains(old, b) <=> <<q, e, b>> \in registered
          BY <1>0, <2>1 DEF Agree
    <3> QED
        BY <1>2, <1>4, <1>5, <1>6, <2>1, <3>1
  <2>2. CASE ~(q = p /\ e = d)
        BY <1>2, <1>5, <2>2 DEF Agree
  <2> QED
      BY <2>1, <2>2
<1>8. Agree'
      BY <1>2, <1>7 DEF Agree, Contains
<1> QED
    BY <1>5, <1>8

\* A name has an address exactly if that is registered, whatever the name.
LEMMA ListedIsRegistered ==
    ASSUME Shape, Agree, NEW p, NEW d, NEW a
    PROVE  Contains(lookup(p, d), a) <=> <<p, d, a>> \in registered
<1>1. PICK list : list = At(entries, p, d) /\ list = lookup(p, d)
      BY LookupIsAt
<1>2. list \in Seq(Addresses) /\ (list # <<>> => p \in Projects /\ d \in Names)
      BY <1>1, LookupType
<1>3. ASSUME Contains(list, a) PROVE p \in Projects /\ d \in Names /\ a \in Addresses
      BY <1>2, <1>3 DEF Contains
<1>4. ASSUME <<p, d, a>> \in registered PROVE p \in Projects /\ d \in Names /\ a \in Addresses
      BY <1>4 DEF Agree, Record
<1>5. ASSUME p \in Projects /\ d \in Names /\ a \in Addresses
      PROVE  Contains(list, a) <=> <<p, d, a>> \in registered
      BY <1>1, <1>5 DEF Agree
<1> QED
    BY <1>1, <1>3, <1>4, <1>5

----------------------------------------------------------------------------
(* Answers *)

Response == [rcode : {0, 3}, answers : Seq(Addresses)]

\* Who is worked for has asked, and stands where his question belongs.
Asking ==
    /\ client \in [Clients -> Stages]
    /\ query \in [Clients -> Queries \cup {None}]
    /\ response \in [Clients -> Response \cup {None}]
    /\ udpQueue \in Seq(Clients)
    /\ \A i \in 1 .. Len(udpQueue) : query[udpQueue[i]] \in Queries
    /\ \A c \in Clients : /\ client[c] # "idle" => query[c] \in Queries
                          /\ client[c] = "lookup" => query[c].kind = "internal"
                          /\ client[c] = "upstream" => query[c].kind = "external"

IInv == Shape /\ Agree /\ Asking

\* The response to a question says what the list says.
LEMMA BuildResponse ==
    ASSUME NEW list \in Seq(Addresses), NEW qtype, NEW r, r = build_dns_response(list, qtype)
    PROVE  /\ r \in Response
           /\ \A a \in ToSet(r.answers) : Contains(list, a) /\ a \in Family(qtype)
           /\ r.rcode = 3 <=> list = <<>>
<1>1. PICK found : found = Matching(list, qtype)
      OBVIOUS
<1>2. /\ found \in Seq(Addresses)
      /\ \A a : Contains(found, a) <=> Contains(list, a) /\ a \in Family(qtype)
      BY <1>1, FilterKeeps DEF Matching
<1>3. r = [rcode |-> IF found = <<>> /\ list = <<>> THEN 3 ELSE 0, answers |-> found]
      BY <1>1 DEF build_dns_response
<1>4. list = <<>> => found = <<>>
  <2> SUFFICES ASSUME list = <<>>, found # <<>> PROVE FALSE
      OBVIOUS
  <2>1. Contains(found, found[1])
        BY <1>2 DEF Contains
  <2>2. Contains(list, found[1])
        BY <1>2, <2>1
  <2>3. Len(list) = 0
        OBVIOUS
  <2> QED
      BY <2>2, <2>3 DEF Contains
<1>5. \A a \in ToSet(found) : Contains(found, a)
      BY <1>2 DEF ToSet, Contains
<1> QED
    BY <1>2, <1>3, <1>4, <1>5 DEF Response

\* The question of a client that asks for an internal name.
LEMMA InternalQuery ==
    ASSUME Asking, NEW c \in Clients, query[c] \in Queries, query[c].kind = "internal"
    PROVE  /\ Project(c) \in Projects /\ Host(c) \in Hosts
           /\ Split[Host(c)] = None \/ Split[Host(c)] \in [prefix : Names, index : Nat]
<1>1. query[c] \in Query
      BY QueryAssumption
<1>2. query[c].project \in Projects /\ query[c].host \in Hosts
      BY <1>1 DEF Query
<1> QED
    BY <1>2, NameAssumption DEF Project, Host

\* What AnswersTrue says of an answer to c.
AnswerTrue(c) ==
    LET given == ToSet(response'[c].answers)
    IN  /\ given \subseteq Own(c) \cup Siblings(c)
        /\ query[c].qtype = "A" => given \cap V6 = {}
        /\ query[c].qtype = "AAAA" => given \subseteq V6
        /\ response'[c].rcode = 3 => Own(c) = {}
        /\ response'[c].rcode = 0 => Own(c) \cup Siblings(c) # {}

\* An answer from a list of the name's own addresses, or of a replica's.
LEMMA AnswerFrom ==
    ASSUME NEW c \in Clients, NEW list \in Seq(Addresses),
           response'[c] = build_dns_response(list, query[c].qtype),
           \A a : Contains(list, a) => a \in Own(c) \cup Siblings(c),
           list = <<>> => Own(c) = {}
    PROVE  AnswerTrue(c)
<1>1. PICK r : r = response'[c]
      OBVIOUS
<1>2. /\ r \in Response
      /\ \A a \in ToSet(r.answers) : Contains(list, a) /\ a \in Family(query[c].qtype)
      /\ r.rcode = 3 <=> list = <<>>
      BY <1>1, BuildResponse
<1>3. list # <<>> => \E a : Contains(list, a)
  <2> SUFFICES ASSUME list # <<>> PROVE Contains(list, list[1])
      OBVIOUS
  <2> QED
      BY DEF Contains
<1>4. r.rcode = 0 => Own(c) \cup Siblings(c) # {}
      BY <1>2, <1>3
<1>5. ToSet(r.answers) \subseteq Own(c) \cup Siblings(c)
      BY <1>2
<1>6. /\ query[c].qtype = "A" => ToSet(r.answers) \cap V6 = {}
      /\ query[c].qtype = "AAAA" => ToSet(r.answers) \subseteq V6
      BY <1>2 DEF Family
<1> QED
    BY <1>1, <1>2, <1>4, <1>5, <1>6 DEF AnswerTrue

\* A name is found as a replica.
LEMMA ReplicaAnswer ==
    ASSUME IInv, NEW c \in Clients, query[c] \in Queries, query[c].kind = "internal",
           Replica(c) # <<>>, response'[c] = build_dns_response(Replica(c), query[c].qtype)
    PROVE  AnswerTrue(c)
<1>1. /\ Split[Host(c)] # None /\ Split[Host(c)] \in [prefix : Names, index : Nat]
      BY InternalQuery DEF IInv, Replica
<1>2. PICK list, i, a : /\ list = lookup(Project(c), Split[Host(c)].prefix)
                        /\ i = Split[Host(c)].index
                        /\ a = list[i + 1]
      OBVIOUS
<1>3. list \in Seq(Addresses) /\ i \in Nat
      BY <1>1, <1>2, LookupIsAt, LookupType DEF IInv
<1>4. i < Len(list) /\ Replica(c) = <<a>>
      BY <1>1, <1>2 DEF Replica, lookup_replica
<1>5. i + 1 \in 1 .. Len(list) /\ a \in Addresses /\ Contains(list, a)
      BY <1>2, <1>3, <1>4 DEF Contains
<1>6. <<Project(c), Split[Host(c)].prefix, a>> \in registered
      BY <1>2, <1>5, ListedIsRegistered DEF IInv
<1>7. a \in Siblings(c)
      BY <1>1, <1>5, <1>6 DEF Siblings
<1>8. <<a>> \in Seq(Addresses) /\ <<a>> # <<>> /\ \A b : Contains(<<a>>, b) => b = a
      BY <1>5 DEF Contains
<1> QED
    BY <1>4, <1>7, <1>8, AnswerFrom

\* A name is found as a deployment, or not at all.
LEMMA DeploymentAnswer ==
    ASSUME IInv, NEW c \in Clients,
           response'[c] = build_dns_response(lookup(Project(c), Host(c)), query[c].qtype)
    PROVE  AnswerTrue(c)
<1>1. PICK list : list = lookup(Project(c), Host(c))
      OBVIOUS
<1>2. list \in Seq(Addresses)
      BY <1>1, LookupIsAt, LookupType DEF IInv
<1>3. \A a : Contains(list, a) <=> <<Project(c), Host(c), a>> \in registered
      BY <1>1, ListedIsRegistered DEF IInv
<1>4. \A a : Contains(list, a) => a \in Own(c)
      BY <1>2, <1>3 DEF Own, Contains
<1>5. list = <<>> => Own(c) = {}
      BY <1>3 DEF Own, Contains
<1> QED
    BY <1>1, <1>2, <1>4, <1>5, AnswerFrom

----------------------------------------------------------------------------
(* Steps *)

\* A handler that ends has sent a response, or none.
LEMMA FinishAsks ==
    ASSUME Asking, NEW c \in Clients, client[c] # "idle", NEW r \in Response \cup {None},
           Finish(c, r)
    PROVE  Asking'
<1>1. client' \in [Clients -> Stages] /\ response' \in [Clients -> Response \cup {None}]
      BY DEF Asking, Finish, Stages
<1>2. \A b \in Clients : client'[b] = IF b = c THEN "done" ELSE client[b]
      BY DEF Asking, Finish
<1>3. query' = query /\ udpQueue' = udpQueue
      BY DEF Finish
<1> QED
    BY <1>1, <1>2, <1>3 DEF Asking

\* A client that moves on stands where its question belongs.
LEMMA MoveAsks ==
    ASSUME Asking, NEW c \in Clients, query[c] \in Queries, NEW stage \in Stages,
           stage = "lookup" => query[c].kind = "internal",
           stage = "upstream" => query[c].kind = "external",
           client' = [client EXCEPT ![c] = stage],
           query' = query, response' = response, udpQueue' = udpQueue
    PROVE  Asking'
<1>1. client' \in [Clients -> Stages]
      BY DEF Asking
<1>2. \A b \in Clients : client'[b] = IF b = c THEN stage ELSE client[b]
      BY DEF Asking
<1> QED
    BY <1>1, <1>2 DEF Asking

\* A client's question is taken down.
LEMMA QuestionAsks ==
    ASSUME Asking, NEW c \in Clients, NEW q \in Queries, NEW stage \in {"queued", "accepted", "done"},
           query' = [query EXCEPT ![c] = q], client' = [client EXCEPT ![c] = stage],
           response' = response, udpQueue' = udpQueue \/ udpQueue' = Append(udpQueue, c),
           client[c] = "idle"
    PROVE  Asking'
<1>1. /\ client' \in [Clients -> Stages] /\ query' \in [Clients -> Queries \cup {None}]
      /\ udpQueue' \in Seq(Clients)
      BY DEF Asking, Stages
<1>2. \A b \in Clients : /\ client'[b] = IF b = c THEN stage ELSE client[b]
                         /\ query'[b] = IF b = c THEN q ELSE query[b]
      BY DEF Asking
<1>3. ASSUME NEW i \in 1 .. Len(udpQueue') PROVE query'[udpQueue'[i]] \in Queries
  <2>1. CASE i \in 1 .. Len(udpQueue)
    <3>1. udpQueue'[i] = udpQueue[i] /\ udpQueue[i] \in Clients
          BY <2>1 DEF Asking
    <3> QED
        BY <1>2, <2>1, <3>1 DEF Asking
  <2>2. CASE i \notin 1 .. Len(udpQueue)
    <3>1. udpQueue'[i] = c
          BY <1>3, <2>2 DEF Asking
    <3> QED
        BY <1>2, <3>1
  <2> QED
      BY <2>1, <2>2
<1>4. \A b \in Clients : /\ client'[b] # "idle" => query'[b] \in Queries
                         /\ client'[b] = "lookup" => query'[b].kind = "internal"
                         /\ client'[b] = "upstream" => query'[b].kind = "external"
      BY <1>2 DEF Asking
<1> QED
    BY <1>1, <1>3, <1>4 DEF Asking

LEMMA ReceiveAsks ==
    ASSUME Asking, Receive
    PROVE  Asking'
<1>1. PICK c : c = Head(udpQueue)
      OBVIOUS
<1>2. c = udpQueue[1] /\ 1 \in 1 .. Len(udpQueue) /\ c \in Clients
      BY <1>1 DEF Asking, Receive
<1>3. query[c] \in Queries
      BY <1>2 DEF Asking
<1>4. client' \in [Clients -> Stages] /\ udpQueue' \in Seq(Clients)
      BY DEF Asking, Receive, Stages
<1>5. \A b \in Clients : client'[b] = IF b = c THEN "resolve" ELSE client[b]
      BY <1>1 DEF Asking, Receive
<1>6. \A i \in 1 .. Len(udpQueue') : /\ udpQueue'[i] = udpQueue[i + 1]
                                     /\ i + 1 \in 1 .. Len(udpQueue)
      BY DEF Asking, Receive
<1>7. query' = query /\ response' = response
      BY DEF Receive
<1>8. \A i \in 1 .. Len(udpQueue') : query'[udpQueue'[i]] \in Queries
      BY <1>6, <1>7 DEF Asking
<1>9. \A b \in Clients : /\ client'[b] # "idle" => query'[b] \in Queries
                         /\ client'[b] = "lookup" => query'[b].kind = "internal"
                         /\ client'[b] = "upstream" => query'[b].kind = "external"
      BY <1>3, <1>5, <1>7 DEF Asking
<1> QED
    BY <1>4, <1>7, <1>8, <1>9 DEF Asking

\* What a step of the handler of c does to the clients and to the responses.
HandlerStep(c) ==
    /\ Asking'
    /\ entries' = entries /\ registered' = registered
    /\ \A b \in Clients : b # c => response'[b] = response[b]
    /\ (response'[c] # response[c] /\ query[c].kind = "internal") => AnswerTrue(c)

LEMMA FinishStep ==
    ASSUME Asking, NEW c \in Clients, client[c] # "idle", NEW r \in Response \cup {None},
           Finish(c, r), query[c].kind # "internal"
    PROVE  HandlerStep(c)
<1>1. Asking'
      BY FinishAsks
<1> QED
    BY <1>1 DEF Asking, Finish, HandlerStep

LEMMA GotoStep ==
    ASSUME Asking, NEW c \in Clients, query[c] \in Queries, NEW stage \in Stages,
           stage = "lookup" => query[c].kind = "internal",
           stage = "upstream" => query[c].kind = "external",
           Goto(c, stage)
    PROVE  HandlerStep(c)
<1>1. Asking'
      BY MoveAsks DEF Goto
<1> QED
    BY <1>1 DEF Goto, HandlerStep

\* An address found for a replica is one of the store's.
LEMMA ReplicaType ==
    ASSUME IInv, NEW c \in Clients, query[c] \in Queries, query[c].kind = "internal"
    PROVE  Replica(c) \in Seq(Addresses)
<1>1. CASE Split[Host(c)] = None
      BY <1>1 DEF Replica
<1>2. CASE Split[Host(c)] # None
  <2>1. Split[Host(c)] \in [prefix : Names, index : Nat]
        BY <1>2, InternalQuery DEF IInv
  <2>2. PICK list, i : list = lookup(Project(c), Split[Host(c)].prefix) /\ i = Split[Host(c)].index
        OBVIOUS
  <2>3. list \in Seq(Addresses) /\ i \in Nat
        BY <2>1, <2>2, LookupIsAt, LookupType DEF IInv
  <2>4. Replica(c) = IF i < Len(list) THEN <<list[i + 1]>> ELSE <<>>
        BY <1>2, <2>2 DEF Replica, lookup_replica
  <2>5. i < Len(list) => i + 1 \in 1 .. Len(list) /\ list[i + 1] \in Addresses
        BY <2>3
  <2> QED
      BY <2>4, <2>5
<1> QED
    BY <1>1, <1>2

LEMMA ReplicaStep ==
    ASSUME IInv, NEW c \in Clients, ResolveReplica(c)
    PROVE  HandlerStep(c)
<1>1. query[c] \in Queries /\ query[c].kind = "internal" /\ client[c] = "resolve" /\ Asking
      BY DEF IInv, Asking, ResolveReplica
<1>2. CASE Replica(c) # <<>> /\ Finish(c, build_dns_response(Replica(c), query[c].qtype))
  <2>1. PICK r : r = build_dns_response(Replica(c), query[c].qtype)
        OBVIOUS
  <2>2. r \in Response
        BY <1>1, <2>1, ReplicaType, BuildResponse
  <2>3. Asking'
        BY <1>1, <1>2, <2>1, <2>2, FinishAsks
  <2>4. response' = [response EXCEPT ![c] = r]
        BY <1>2, <2>1 DEF Finish
  <2>5. response'[c] = r /\ \A b \in Clients : b # c => response'[b] = response[b]
        BY <1>1, <2>4 DEF Asking
  <2>6. AnswerTrue(c)
        BY <1>1, <1>2, <2>1, <2>5, ReplicaAnswer
  <2> QED
      BY <1>2, <2>3, <2>5, <2>6 DEF HandlerStep, Finish
<1>3. CASE Goto(c, "lookup")
      BY <1>1, <1>3, GotoStep DEF Stages
<1> QED
    BY <1>2, <1>3 DEF ResolveReplica

LEMMA DeploymentStep ==
    ASSUME IInv, NEW c \in Clients, ResolveDeployment(c)
    PROVE  HandlerStep(c)
<1>1. client[c] = "lookup" /\ Asking
      BY DEF IInv, ResolveDeployment
<1>2. PICK list, r : /\ list = lookup(Project(c), Host(c))
                     /\ r = build_dns_response(list, query[c].qtype)
      OBVIOUS
<1>3. list \in Seq(Addresses)
      BY <1>2, LookupIsAt, LookupType DEF IInv
<1>4. r \in Response
      BY <1>2, <1>3, BuildResponse
<1>5. Finish(c, r)
      BY <1>2 DEF ResolveDeployment
<1>6. Asking'
      BY <1>1, <1>4, <1>5, FinishAsks
<1>7. response'[c] = r /\ \A b \in Clients : b # c => response'[b] = response[b]
      BY <1>1, <1>5 DEF Asking, Finish
<1>8. AnswerTrue(c)
      BY <1>2, <1>7, DeploymentAnswer
<1> QED
    BY <1>5, <1>6, <1>7, <1>8 DEF HandlerStep, Finish

\* Whatever the handler of c or the upstream server does.
LEMMA Handled ==
    ASSUME IInv, NEW c \in Clients, Handle(c) \/ UpstreamAnswers(c)
    PROVE  HandlerStep(c)
<1>0. Asking
      BY DEF IInv
<1>1. CASE Drop(c)
      BY <1>0, <1>1, FinishStep DEF Drop
<1>2. CASE ResolveReplica(c)
      BY <1>2, ReplicaStep
<1>3. CASE ResolveDeployment(c)
      BY <1>3, DeploymentStep
<1>4. CASE ResolveMalformed(c)
  <2>1. PICK r : r = build_dns_response(<<>>, "A")
        OBVIOUS
  <2>2. <<>> \in Seq(Addresses)
        OBVIOUS
  <2>3. r \in Response
        BY <2>1, <2>2, BuildResponse
  <2>4. Finish(c, r) /\ client[c] = "resolve" /\ query[c].kind = "malformed"
        BY <1>4, <2>1 DEF ResolveMalformed
  <2> QED
      BY <1>0, <2>3, <2>4, FinishStep
<1>5. CASE Forward(c)
  <2>1. client[c] = "resolve" /\ query[c].kind = "external" /\ query[c] \in Queries
        BY <1>0, <1>5 DEF Asking, Forward
  <2>2. CASE Goto(c, "upstream")
        BY <1>0, <2>1, <2>2, GotoStep DEF Stages
  <2>3. CASE Finish(c, None)
        BY <1>0, <2>1, <2>3, FinishStep
  <2> QED
      BY <1>5, <2>2, <2>3 DEF Forward
<1>6. CASE UpstreamTimeout(c)
  <2>1. client[c] = "upstream" /\ query[c].kind = "external" /\ Finish(c, None)
        BY <1>0, <1>6 DEF Asking, UpstreamTimeout, TimesOut
  <2> QED
      BY <1>0, <2>1, FinishStep
<1>7. CASE UpstreamAnswers(c)
  <2>1. PICK r : r = [rcode |-> 0, answers |-> <<>>]
        OBVIOUS
  <2>2. r \in Response
        BY <2>1 DEF Response
  <2>3. client[c] = "upstream" /\ query[c].kind = "external" /\ Finish(c, r)
        BY <1>0, <1>7, <2>1 DEF Asking, UpstreamAnswers
  <2> QED
      BY <1>0, <2>2, <2>3, FinishStep
<1> QED
    BY <1>1, <1>2, <1>3, <1>4, <1>5, <1>6, <1>7 DEF Handle

LEMMA ReadTcpAsks ==
    ASSUME Asking, NEW c \in Clients, ReadTcp(c)
    PROVE  Asking'
<1>1. query[c] \in Queries
      BY DEF Asking, ReadTcp
<1>2. PICK stage \in {"resolve", "done"} : client' = [client EXCEPT ![c] = stage]
      BY DEF ReadTcp
<1>3. query' = query /\ response' = response /\ udpQueue' = udpQueue
      BY DEF ReadTcp
<1> QED
    BY <1>1, <1>2, <1>3, MoveAsks DEF Stages

LEMMA AskUdpAsks ==
    ASSUME Asking, NEW c \in Clients, NEW q \in Queries, AskUdp(c, q)
    PROVE  Asking'
<1>1. PICK stage \in {"queued", "done"} : client' = [client EXCEPT ![c] = stage]
      BY DEF AskUdp
<1>2. /\ client[c] = "idle" /\ query' = [query EXCEPT ![c] = q] /\ response' = response
      /\ udpQueue' = udpQueue \/ udpQueue' = Append(udpQueue, c)
      BY DEF AskUdp
<1> QED
    BY <1>1, <1>2, QuestionAsks

LEMMA ConnectAsks ==
    ASSUME Asking, NEW c \in Clients, NEW q \in Queries, Connect(c, q)
    PROVE  Asking'
BY QuestionAsks DEF Connect

\* Nothing but a handler's step changes a response.
LEMMA NextStep ==
    ASSUME IInv, Next
    PROVE  IInv' /\ (response' = response \/ \E c \in Clients : HandlerStep(c))
<1>0. Shape /\ Agree /\ Asking
      BY DEF IInv
<1>1. ASSUME NEW p \in Projects, NEW d \in Names, NEW a \in Addresses, register(p, d, a)
      PROVE  IInv' /\ response' = response
  <2>1. Shape' /\ Agree'
        BY <1>0, <1>1, RegisterStore
  <2>2. Asking' /\ response' = response
        BY <1>0, <1>1 DEF Asking, register
  <2> QED
      BY <2>1, <2>2 DEF IInv
<1>2. ASSUME NEW p \in Projects, NEW d \in Names, NEW a \in Addresses, deregister(p, d, a)
      PROVE  IInv' /\ response' = response
  <2>1. Shape' /\ Agree'
        BY <1>0, <1>2, DeregisterStore
  <2>2. Asking' /\ response' = response
        BY <1>0, <1>2 DEF Asking, deregister
  <2> QED
      BY <2>1, <2>2 DEF IInv
<1>3. ASSUME entries' = entries, registered' = registered PROVE Shape' /\ Agree'
      BY <1>0, <1>3 DEF Shape, Agree, At
<1>4. ASSUME NEW c \in Clients, NEW q \in Queries, AskUdp(c, q) PROVE IInv' /\ response' = response
  <2>1. entries' = entries /\ registered' = registered /\ response' = response
        BY <1>4 DEF AskUdp
  <2> QED
      BY <1>0, <1>3, <1>4, <2>1, AskUdpAsks DEF IInv
<1>5. ASSUME NEW c \in Clients, NEW q \in Queries, Connect(c, q) PROVE IInv' /\ response' = response
  <2>1. entries' = entries /\ registered' = registered /\ response' = response
        BY <1>5 DEF Connect
  <2> QED
      BY <1>0, <1>3, <1>5, <2>1, ConnectAsks DEF IInv
<1>6. CASE Receive
  <2>1. entries' = entries /\ registered' = registered /\ response' = response
        BY <1>6 DEF Receive
  <2> QED
      BY <1>0, <1>3, <1>6, <2>1, ReceiveAsks DEF IInv
<1>7. ASSUME NEW c \in Clients, ReadTcp(c) PROVE IInv' /\ response' = response
  <2>1. entries' = entries /\ registered' = registered /\ response' = response
        BY <1>7 DEF ReadTcp
  <2> QED
      BY <1>0, <1>3, <1>7, <2>1, ReadTcpAsks DEF IInv
<1>8. ASSUME NEW c \in Clients, Handle(c) \/ UpstreamAnswers(c) PROVE IInv' /\ HandlerStep(c)
  <2>1. HandlerStep(c)
        BY <1>8, Handled
  <2> QED
      BY <1>3, <2>1 DEF HandlerStep, IInv
<1> QED
    BY <1>1, <1>2, <1>4, <1>5, <1>6, <1>7, <1>8 DEF Next

\* The store has its shape and agrees with what was registered, and clients stand where
\* their questions belong, in every state.
THEOREM InductiveInvariant == Spec => []IInv
<1>1. Init => IInv
  <2> SUFFICES ASSUME Init PROVE IInv
      OBVIOUS
  <2>1. DOMAIN entries = {} /\ registered = {}
        BY DEF Init
  <2>2. Shape
        BY <2>1 DEF Init, Shape
  <2>3. \A p, d : At(entries, p, d) = <<>>
        BY <2>1 DEF At
  <2>4. Agree
        BY <2>1, <2>3 DEF Agree, Contains
  <2>5. Asking
        BY DEF Init, Asking, Stages
  <2> QED
      BY <2>2, <2>4, <2>5 DEF IInv
<1>2. IInv /\ [Next]_vars => IInv'
  <2> SUFFICES ASSUME IInv, [Next]_vars PROVE IInv'
      OBVIOUS
  <2>1. CASE Next
        BY <2>1, NextStep
  <2>2. CASE UNCHANGED vars
        BY <2>2 DEF vars, IInv, Shape, Agree, At, Asking
  <2> QED
      BY <2>1, <2>2
<1> QED
    BY <1>1, <1>2, PTL DEF Spec

\* register and deregister (record_store.rs) keep the nested maps equal to the set of
\* registered records, each address once, with no empty list and no empty project,
\* whatever calls came before.
THEOREM EntriesMatchCorrect == Spec => []EntriesMatch
<1>1. IInv => EntriesMatch
  <2> SUFFICES ASSUME IInv PROVE EntriesMatch
      OBVIOUS
  <2>0. Shape /\ Agree
        BY DEF IInv
  <2>1. ASSUME NEW r \in Record PROVE r \in Listed <=> r \in registered
    <3>1. PICK p \in Projects, d \in Names, a \in Addresses : r = <<p, d, a>>
          BY DEF Record
    <3>2. Contains(lookup(p, d), a) <=> <<p, d, a>> \in registered
          BY <2>0, ListedIsRegistered
    <3>3. r[1] = p /\ r[2] = d /\ r[3] = a
          BY <3>1
    <3> QED
        BY <3>1, <3>2, <3>3 DEF Listed
  <2>2. registered \subseteq Record /\ Listed \subseteq Record
        BY <2>0 DEF Agree, Listed
  <2>3. Listed = registered
        BY <2>1, <2>2
  <2> QED
      BY <2>0, <2>3 DEF EntriesMatch, Shape
<1> QED
    BY <1>1, InductiveInvariant, PTL

\* Although resolve (hickory.rs) takes the store's lock twice and registrations come in
\* between, every answer about an internal name is true when it is given.
THEOREM AnswersTrueCorrect == Spec => AnswersTrue
<1> DEFINE Told(c) == (response'[c] # response[c] /\ query[c].kind = "internal") => AnswerTrue(c)
<1>1. IInv /\ [Next]_vars => [\A c \in Clients : Told(c)]_vars
  <2> SUFFICES ASSUME IInv, Next, NEW c \in Clients PROVE Told(c)
      OBVIOUS
  <2>1. CASE response' = response
        BY <2>1
  <2>2. ASSUME NEW b \in Clients, HandlerStep(b) PROVE Told(c)
        BY <2>2 DEF HandlerStep
  <2> QED
      BY <2>1, <2>2, NextStep
<1>2. IInv /\ [Next]_vars =>
        [\A c \in Clients : (response'[c] # response[c] /\ query[c].kind = "internal") =>
           LET given == ToSet(response'[c].answers)
           IN  /\ given \subseteq Own(c) \cup Siblings(c)
               /\ query[c].qtype = "A" => given \cap V6 = {}
               /\ query[c].qtype = "AAAA" => given \subseteq V6
               /\ response'[c].rcode = 3 => Own(c) = {}
               /\ response'[c].rcode = 0 => Own(c) \cup Siblings(c) # {}]_vars
      BY <1>1 DEF AnswerTrue
<1> QED
    BY <1>2, InductiveInvariant, PTL DEF Spec, AnswersTrue

=============================================================================
