------------------------- MODULE EventWatcherProofs -------------------------
(***************************************************************************)
(* TypeOK, ExitsAgree and MissedReported for every capacity of the two     *)
(* channels and any number of pods, clients and events.                    *)
(***************************************************************************)
EXTENDS EventWatcher, SequenceTheorems, TLAPS

\* What has been broadcast and what will be, unless the stream loses it.
Pipe == log \o buffer

\* Events pass through the watcher in the order they happened, after they happened.
PipeInv == Ascending(Pipe) /\ \A i \in 1 .. Len(Pipe) : Pipe[i] <= Len(happened)

\* The commands are about events that were broadcast.
ToldInv ==
    orchestrator = "up" =>
        /\ Ascending(Told)
        /\ \A i \in 1 .. Len(Told) :
              Told[i] # 0 => \E k \in 1 .. Len(log) : Told[i] = log[k] /\ IsReported(log[k])
        /\ \A k \in 1 .. Len(log) :
              IsReported(log[k]) => \E i \in 1 .. Len(Told) : Told[i] = log[k]

\* A reader was shown events of places before the one it reads next.
ReaderInv(r) ==
    /\ Len(r.seen) + r.missed = r.next - r.from
    /\ Ascending(r.seen)
    /\ \A i \in 1 .. Len(r.seen) : \E k \in 1 .. (r.next - 1) : r.seen[i] = log[k]

IInv == TypeOK /\ PipeInv /\ ToldInv /\ \A u \in Clients : ReaderInv(client[u])

----------------------------------------------------------------------------
(* Sequences of places, 0 for none. *)

\* Three sequences after each other, and the first element of one moved before it.
LEMMA ConcatThree ==
    ASSUME NEW s \in Seq(Nat), NEW t \in Seq(Nat), NEW r \in Seq(Nat)
    PROVE  /\ (s \o t) \o r = s \o (t \o r)
           /\ (s \o t) \o r \in Seq(Nat)
           /\ t # <<>> => /\ Append(s, Head(t)) \o Tail(t) = s \o t
                         /\ t \o r # <<>> /\ Head(t \o r) = Head(t)
                         /\ Tail(t \o r) = Tail(t) \o r
           /\ s \o <<>> = s
<1>1. (s \o t) \o r = s \o (t \o r)
  <2> DEFINE a == (s \o t) \o r
             b == s \o (t \o r)
  <2>1. /\ a \in Seq(Nat) /\ b \in Seq(Nat) /\ Len(a) = Len(b)
        /\ \A i \in 1 .. Len(a) : a[i] = b[i]
        OBVIOUS
  <2> HIDE DEF a, b
  <2>2. a = b
        BY <2>1, SeqEqual
  <2> QED
      BY <2>2 DEF a, b
<1>2. (s \o t) \o r \in Seq(Nat) /\ s \o <<>> = s
      OBVIOUS
<1>3. ASSUME t # <<>>
      PROVE  /\ Append(s, Head(t)) \o Tail(t) = s \o t
             /\ t \o r # <<>> /\ Head(t \o r) = Head(t)
             /\ Tail(t \o r) = Tail(t) \o r
  <2>1. Append(s, Head(t)) \o Tail(t) = s \o t
    <3> DEFINE a == Append(s, Head(t)) \o Tail(t)
               b == s \o t
    <3>1. /\ a \in Seq(Nat) /\ b \in Seq(Nat) /\ Len(a) = Len(b)
          /\ \A i \in 1 .. Len(a) : a[i] = b[i]
          BY <1>3
    <3> HIDE DEF a, b
    <3>2. a = b
          BY <3>1, SeqEqual
    <3> QED
        BY <3>2 DEF a, b
  <2>2. t \o r # <<>> /\ Head(t \o r) = Head(t)
        BY <1>3
  <2>3. Tail(t \o r) = Tail(t) \o r
        BY <1>3
  <2> QED
      BY <2>1, <2>2, <2>3
<1> QED
    BY <1>1, <1>2, <1>3

\* Order survives the loss of the element after s.
LEMMA AscendingWithout ==
    ASSUME NEW s \in Seq(Nat), NEW t \in Seq(Nat), t # <<>>, Ascending(s \o t)
    PROVE  /\ Ascending(s \o Tail(t))
           /\ \A i \in 1 .. Len(s \o Tail(t)) :
                 \E j \in 1 .. Len(s \o t) : (s \o Tail(t))[i] = (s \o t)[j]
           /\ \A j \in 1 .. Len(s \o t) :
                 (s \o t)[j] = Head(t) \/ \E i \in 1 .. Len(s \o Tail(t)) : (s \o Tail(t))[i] = (s \o t)[j]
<1> DEFINE long  == s \o t
           short == s \o Tail(t)
           at(i) == IF i <= Len(s) THEN i ELSE i + 1
<1>1. /\ long \in Seq(Nat) /\ short \in Seq(Nat)
      /\ Len(long) = Len(s) + Len(t) /\ Len(short) = Len(long) - 1 /\ Len(t) > 0
      OBVIOUS
<1>2. ASSUME NEW i \in 1 .. Len(short)
      PROVE  at(i) \in 1 .. Len(long) /\ short[i] = long[at(i)]
      BY <1>1
<1>3. ASSUME NEW j \in 1 .. Len(long), long[j] # Head(t)
      PROVE  \E i \in 1 .. Len(short) : short[i] = long[j]
  <2>1. CASE j <= Len(s)
        BY <1>1, <2>1
  <2>2. CASE j > Len(s)
    <3>1. j # Len(s) + 1
          BY <1>1, <1>3
    <3>2. j - 1 \in 1 .. Len(short) /\ short[j - 1] = long[j]
          BY <1>1, <2>2, <3>1
    <3> QED
        BY <3>2
  <2> QED
      BY <1>1, <2>1, <2>2
<1>4. Ascending(short)
  <2> HIDE DEF long, short
  <2> SUFFICES ASSUME NEW i \in 1 .. Len(short), NEW j \in 1 .. Len(short), i < j,
                      short[i] # 0, short[j] # 0
               PROVE  short[i] < short[j]
      BY DEF Ascending
  <2>1. /\ at(i) \in 1 .. Len(long) /\ short[i] = long[at(i)]
        /\ at(j) \in 1 .. Len(long) /\ short[j] = long[at(j)]
        BY <1>2
  <2>2. at(i) < at(j)
    <3>1. Len(s) \in Nat /\ i \in Nat /\ j \in Nat
          BY <1>1
    <3> QED
        BY <3>1
  <2> HIDE DEF at
  <2>3. Ascending(long)
        BY DEF long
  <2> QED
      BY <2>1, <2>2, <2>3 DEF Ascending
<1> HIDE DEF at
<1> QED
    BY <1>2, <1>3, <1>4

\* Order survives the loss of the end.
LEMMA AscendingPrefix ==
    ASSUME NEW s \in Seq(Nat), NEW t \in Seq(Nat), Ascending(s), Len(t) <= Len(s),
           \A i \in 1 .. Len(t) : t[i] = s[i]
    PROVE  Ascending(t)
<1> SUFFICES ASSUME NEW i \in 1 .. Len(t), NEW j \in 1 .. Len(t), i < j, t[i] # 0, t[j] # 0
             PROVE  t[i] < t[j]
    BY DEF Ascending
<1>1. i \in 1 .. Len(s) /\ j \in 1 .. Len(s) /\ t[i] = s[i] /\ t[j] = s[j]
      OBVIOUS
<1> QED
    BY <1>1 DEF Ascending

\* Order survives a greater element at the end.
LEMMA AscendingAppend ==
    ASSUME NEW s \in Seq(Nat), NEW n \in Nat, Ascending(s), \A i \in 1 .. Len(s) : s[i] < n
    PROVE  Ascending(Append(s, n))
<1> DEFINE t == Append(s, n)
<1>1. /\ t \in Seq(Nat) /\ Len(t) = Len(s) + 1 /\ t[Len(s) + 1] = n
      /\ \A i \in 1 .. Len(s) : t[i] = s[i]
      OBVIOUS
<1> HIDE DEF t
<1>2. ASSUME NEW i \in 1 .. Len(t), NEW j \in 1 .. Len(t), i < j, t[i] # 0, t[j] # 0
      PROVE  t[i] < t[j]
  <2>1. i \in 1 .. Len(s) /\ t[i] = s[i]
        BY <1>1, <1>2
  <2>2. CASE j = Len(s) + 1
        BY <1>1, <2>1, <2>2
  <2>3. CASE j \in 1 .. Len(s)
        BY <1>1, <1>2, <2>1, <2>3 DEF Ascending
  <2> QED
      BY <1>1, <2>2, <2>3
<1> QED
    BY <1>2 DEF t, Ascending

\* A sequence over a set is one over a larger set.
LEMMA SeqWider ==
    ASSUME NEW S, NEW T, S \subseteq T, NEW s \in Seq(S)
    PROVE  s \in Seq(T)
<1>1. Len(s) \in Nat /\ s \in [1 .. Len(s) -> T]
      OBVIOUS
<1> QED
    BY <1>1

\* Places are numbers, and none is 0.
LEMMA SeqTypes ==
    ASSUME TypeOK
    PROVE  /\ log \in Seq(Nat) /\ buffer \in Seq(Nat) /\ received \in Seq(Nat)
           /\ queue \in Seq(Nat) /\ held \in Seq(Nat) /\ Pipe \in Seq(Nat)
           /\ \A i \in 1 .. Len(log) : log[i] \in Place
           /\ \A i \in 1 .. Len(buffer) : buffer[i] \in Place
           /\ \A i \in Place : i \in Nat /\ i # 0
<1>1. Place \subseteq Nat /\ Place \cup {0} \subseteq Nat /\ 0 \notin Place
      BY BoundAssumption DEF Place
<1>2. /\ log \in Seq(Nat) /\ buffer \in Seq(Nat) /\ received \in Seq(Nat)
      /\ queue \in Seq(Nat) /\ held \in Seq(Nat)
      BY <1>1, SeqWider DEF TypeOK
<1> QED
    BY <1>1, <1>2 DEF TypeOK, Pipe

\* Every step keeps the order of what passes through the watcher.
LEMMA PipeStep ==
    ASSUME IInv, [Next]_vars
    PROVE  PipeInv'
<1>1. TypeOK /\ PipeInv /\ Len(happened) \in Nat
      BY DEF IInv, TypeOK
<1>2. /\ log \in Seq(Nat) /\ buffer \in Seq(Nat) /\ Pipe \in Seq(Nat)
      /\ Ascending(Pipe) /\ \A i \in 1 .. Len(Pipe) : Pipe[i] <= Len(happened)
      BY <1>1, SeqTypes DEF PipeInv
<1>3. CASE happened' = happened /\ log' = log /\ buffer' = buffer
      BY <1>1, <1>3 DEF PipeInv, Pipe
<1>4. CASE \E kind \in Kinds, p \in Pods : Happen(kind, p)
  <2>1. Len(happened') = Len(happened) + 1 /\ log' = log
        BY <1>1, <1>4 DEF Happen, TypeOK, Event
  <2>2. CASE buffer' = buffer
    <3>1. Pipe' = Pipe
          BY <2>1, <2>2 DEF Pipe
    <3> QED
        BY <1>1, <1>2, <2>1, <3>1 DEF PipeInv
  <2>3. CASE buffer' = Append(buffer, Len(happened) + 1)
    <3>1. Pipe' = Append(Pipe, Len(happened) + 1)
          BY <1>1, <1>2, <2>1, <2>3 DEF Pipe
    <3>2. \A i \in 1 .. Len(Pipe) : Pipe[i] < Len(happened) + 1
          BY <1>1, <1>2
    <3>3. Ascending(Pipe')
          BY <1>1, <1>2, <3>1, <3>2, AscendingAppend
    <3>4. \A i \in 1 .. Len(Pipe') : Pipe'[i] <= Len(happened')
          BY <1>1, <1>2, <2>1, <3>1, <3>2
    <3> QED
        BY <3>3, <3>4 DEF PipeInv
  <2> QED
      BY <1>4, <2>2, <2>3 DEF Happen
<1>5. CASE StreamBreak \/ SendFails
  <2>1. PICK n \in 0 .. Len(buffer) : buffer' = SubSeq(buffer, 1, n)
    <3>1. CASE StreamBreak
          BY <3>1 DEF StreamBreak
    <3>2. CASE SendFails
      <4>1. SubSeq(buffer, 1, 0) = <<>> /\ 0 \in 0 .. Len(buffer)
            BY <1>2
      <4> QED
          BY <3>2, <4>1 DEF SendFails
    <3> QED
        BY <1>5, <3>1, <3>2
  <2>2. log' = log /\ happened' = happened
        BY <1>5 DEF StreamBreak, SendFails
  <2>3. buffer' \in Seq(Nat) /\ Len(buffer') = n /\ \A i \in 1 .. n : buffer'[i] = buffer[i]
        BY <1>2, <2>1
  <2>4. /\ Pipe' \in Seq(Nat) /\ Len(Pipe') <= Len(Pipe)
        /\ \A i \in 1 .. Len(Pipe') : Pipe'[i] = Pipe[i]
        BY <1>2, <2>2, <2>3 DEF Pipe
  <2>5. Ascending(Pipe')
        BY <1>2, <2>4, AscendingPrefix
  <2>6. ASSUME NEW i \in 1 .. Len(Pipe') PROVE Pipe'[i] <= Len(happened')
    <3>1. i \in 1 .. Len(Pipe)
          BY <1>2, <2>4
    <3> QED
        BY <1>2, <2>2, <2>4, <3>1
  <2> QED
      BY <2>5, <2>6 DEF PipeInv
<1>6. CASE StreamError
  <2>1. buffer # <<>> /\ Pipe' = log \o Tail(buffer) /\ happened' = happened
        BY <1>6 DEF StreamError, Pipe
  <2>2. /\ Ascending(Pipe')
        /\ \A i \in 1 .. Len(Pipe') : \E j \in 1 .. Len(Pipe) : Pipe'[i] = Pipe[j]
        BY <1>2, <2>1, AscendingWithout DEF Pipe
  <2> QED
      BY <1>2, <2>1, <2>2 DEF PipeInv
<1>7. CASE Take
  <2>1. /\ buffer # <<>> /\ log' = Append(log, Head(buffer)) /\ buffer' = Tail(buffer)
        /\ happened' = happened
        BY <1>7 DEF Take
  <2>2. Pipe' = Pipe
        BY <1>2, <2>1 DEF Pipe
  <2> QED
      BY <1>2, <2>1, <2>2 DEF PipeInv
<1>8. CASE StreamOpen \/ StreamEnd \/ Send \/ OtherCommand \/ Handle \/ OrchestratorStops
      BY <1>3, <1>8 DEF StreamOpen, StreamEnd, Send, OtherCommand, Handle, OrchestratorStops
<1>9. CASE \E u \in Clients : Subscribe(u) \/ Show(u) \/ Lag(u) \/ Unsubscribe(u)
      BY <1>3, <1>9 DEF Subscribe, Show, Lag, Unsubscribe
<1>10. CASE UNCHANGED vars
      BY <1>3, <1>10 DEF vars
<1> QED
    BY <1>4, <1>5, <1>6, <1>7, <1>8, <1>9, <1>10 DEF Next

----------------------------------------------------------------------------
(* What the orchestrator is told *)

\* What was broadcast is in the order in which it happened.
LEMMA LogAscending ==
    ASSUME TypeOK, PipeInv
    PROVE  Ascending(log)
<1>1. log \in Seq(Nat) /\ buffer \in Seq(Nat) /\ Pipe \in Seq(Nat) /\ Ascending(Pipe)
      BY SeqTypes DEF PipeInv
<1>2. Len(log) <= Len(Pipe) /\ \A k \in 1 .. Len(log) : log[k] = Pipe[k]
      BY <1>1 DEF Pipe
<1> QED
    BY <1>1, <1>2, AscendingPrefix

\* The next event of the stream is after all that were broadcast.
LEMMA NextIsLater ==
    ASSUME TypeOK, PipeInv, buffer # <<>>
    PROVE  /\ Head(buffer) \in Place /\ Head(buffer) \in Nat \ {0}
           /\ \A k \in 1 .. Len(log) : log[k] < Head(buffer)
<1>1. /\ log \in Seq(Nat) /\ buffer \in Seq(Nat) /\ Pipe \in Seq(Nat) /\ Ascending(Pipe)
      /\ \A i \in 1 .. Len(log) : log[i] \in Nat /\ log[i] # 0
      BY SeqTypes DEF PipeInv
<1>2. Head(buffer) \in Place /\ Head(buffer) = buffer[1] /\ Len(buffer) > 0
      BY <1>1, SeqTypes
<1>3. Head(buffer) \in Nat \ {0}
      BY <1>2, SeqTypes
<1>4. Len(log) + 1 \in 1 .. Len(Pipe) /\ Pipe[Len(log) + 1] = Head(buffer)
      BY <1>1, <1>2 DEF Pipe
<1>5. ASSUME NEW k \in 1 .. Len(log) PROVE log[k] < Head(buffer)
  <2>1. k \in 1 .. Len(Pipe) /\ Pipe[k] = log[k] /\ k < Len(log) + 1
        BY <1>1, <1>2 DEF Pipe
  <2> QED
      BY <1>1, <1>3, <1>4, <2>1 DEF Ascending
<1> QED
    BY <1>2, <1>3, <1>5

\* What the watcher makes of an event that was broadcast does not change.
LEMMA ReportedStays ==
    ASSUME TypeOK, PipeInv, NEW k \in 1 .. Len(log),
           log' = log, runtime' = runtime,
           happened' = happened \/ \E e \in Event : happened' = Append(happened, e)
    PROVE  IsReported(log[k])' <=> IsReported(log[k])
<1>1. /\ log \in Seq(Nat) /\ buffer \in Seq(Nat) /\ happened \in Seq(Event)
      /\ log[k] \in Nat /\ log[k] # 0
      BY SeqTypes DEF TypeOK
<1>2. k \in 1 .. Len(Pipe) /\ Pipe[k] = log[k]
      BY <1>1 DEF Pipe
<1>3. log[k] \in 1 .. Len(happened)
      BY <1>1, <1>2 DEF PipeInv
<1>4. happened'[log[k]] = happened[log[k]]
      BY <1>1, <1>3
<1> QED
    BY <1>4 DEF IsReported, HasPodId

\* A step that broadcasts nothing and leaves the commands as they are, but for those of
\* somebody else.
LEMMA ToldKept ==
    ASSUME TypeOK, PipeInv, ToldInv, orchestrator = "up",
           log' = log, runtime' = runtime,
           happened' = happened \/ \E e \in Event : happened' = Append(happened, e),
           Ascending(Told'),
           \A i \in 1 .. Len(Told') :
              Told'[i] # 0 => \E j \in 1 .. Len(Told) : Told'[i] = Told[j],
           \A j \in 1 .. Len(Told) :
              Told[j] # 0 => \E i \in 1 .. Len(Told') : Told'[i] = Told[j]
    PROVE  ToldInv'
<1>1. ASSUME NEW k \in 1 .. Len(log)
      PROVE  (IsReported(log[k])' <=> IsReported(log[k])) /\ log[k] # 0
      BY ReportedStays, SeqTypes
<1>2. ASSUME NEW i \in 1 .. Len(Told'), Told'[i] # 0
      PROVE  \E k \in 1 .. Len(log') : Told'[i] = log'[k] /\ IsReported(log[k])'
  <2>1. PICK j \in 1 .. Len(Told) : Told'[i] = Told[j]
        BY <1>2
  <2>2. PICK k \in 1 .. Len(log) : Told[j] = log[k] /\ IsReported(log[k])
        BY <1>2, <2>1 DEF ToldInv
  <2> QED
      BY <1>1, <2>1, <2>2
<1>3. ASSUME NEW k \in 1 .. Len(log'), IsReported(log[k])'
      PROVE  \E i \in 1 .. Len(Told') : Told'[i] = log'[k]
  <2>1. k \in 1 .. Len(log) /\ IsReported(log[k])
        BY <1>1, <1>3
  <2>2. PICK j \in 1 .. Len(Told) : Told[j] = log[k]
        BY <2>1 DEF ToldInv
  <2> QED
      BY <1>1, <2>1, <2>2
<1> QED
    BY <1>2, <1>3 DEF ToldInv

\* A command of somebody else between the commands.
LEMMA AscendingInsert ==
    ASSUME NEW s \in Seq(Nat), NEW t \in Seq(Nat), Ascending(s \o t)
    PROVE  /\ Ascending(Append(s, 0) \o t)
           /\ \A i \in 1 .. Len(Append(s, 0) \o t) :
                 (Append(s, 0) \o t)[i] # 0 =>
                    \E j \in 1 .. Len(s \o t) : (Append(s, 0) \o t)[i] = (s \o t)[j]
           /\ \A j \in 1 .. Len(s \o t) :
                 \E i \in 1 .. Len(Append(s, 0) \o t) : (Append(s, 0) \o t)[i] = (s \o t)[j]
<1> DEFINE short == s \o t
           long  == Append(s, 0) \o t
           at(i) == IF i <= Len(s) THEN i ELSE i - 1
<1>1. /\ long \in Seq(Nat) /\ short \in Seq(Nat) /\ Len(s) \in Nat
      /\ Len(short) = Len(s) + Len(t) /\ Len(long) = Len(short) + 1
      OBVIOUS
<1>2. ASSUME NEW i \in 1 .. Len(long), long[i] # 0
      PROVE  i # Len(s) + 1 /\ at(i) \in 1 .. Len(short) /\ long[i] = short[at(i)]
  <2>1. i # Len(s) + 1
        BY <1>1, <1>2
  <2> QED
      BY <1>1, <1>2, <2>1
<1>3. ASSUME NEW j \in 1 .. Len(short)
      PROVE  \E i \in 1 .. Len(long) : long[i] = short[j]
  <2>1. CASE j <= Len(s)
        BY <1>1, <2>1
  <2>2. CASE j > Len(s)
    <3>1. j + 1 \in 1 .. Len(long) /\ long[j + 1] = short[j]
          BY <1>1, <2>2
    <3> QED
        BY <3>1
  <2> QED
      BY <1>1, <2>1, <2>2
<1>4. Ascending(long)
  <2> HIDE DEF long, short
  <2> SUFFICES ASSUME NEW i \in 1 .. Len(long), NEW j \in 1 .. Len(long), i < j,
                      long[i] # 0, long[j] # 0
               PROVE  long[i] < long[j]
      BY DEF Ascending
  <2>1. /\ at(i) \in 1 .. Len(short) /\ long[i] = short[at(i)] /\ i # Len(s) + 1
        /\ at(j) \in 1 .. Len(short) /\ long[j] = short[at(j)] /\ j # Len(s) + 1
        BY <1>2
  <2>2. at(i) < at(j)
    <3>1. Len(s) \in Nat /\ i \in Nat /\ j \in Nat
          BY <1>1
    <3> QED
        BY <2>1, <3>1
  <2> HIDE DEF at
  <2>3. Ascending(short)
        BY DEF short
  <2> QED
      BY <2>1, <2>2, <2>3 DEF Ascending
<1> HIDE DEF at
<1> QED
    BY <1>2, <1>3, <1>4

\* The commands stay as they are.
LEMMA ToldSame ==
    ASSUME TypeOK, PipeInv, ToldInv, orchestrator = "up", Told' = Told,
           log' = log, runtime' = runtime,
           happened' = happened \/ \E e \in Event : happened' = Append(happened, e)
    PROVE  ToldInv'
<1>1. Ascending(Told')
      BY DEF ToldInv
<1> QED
    BY <1>1, ToldKept

\* An event is broadcast, and its command sent after all others.
LEMMA TakeTold ==
    ASSUME TypeOK, PipeInv, ToldInv, Take
    PROVE  ToldInv'
<1> DEFINE h == Head(buffer)
<1>1. /\ buffer # <<>> /\ held = <<>> /\ log' = Append(log, h)
      /\ held' = IF IsReported(h) THEN <<h>> ELSE <<>>
      /\ UNCHANGED <<happened, runtime, queue, received, orchestrator>>
      BY DEF Take
<1>2. /\ log \in Seq(Nat) /\ buffer \in Seq(Nat) /\ queue \in Seq(Nat) /\ received \in Seq(Nat)
      /\ held \in Seq(Nat)
      BY SeqTypes
<1>3. h \in Nat \ {0} /\ \A k \in 1 .. Len(log) : log[k] < h
      BY <1>1, NextIsLater
<1> SUFFICES ASSUME orchestrator = "up" PROVE ToldInv'
    BY <1>1 DEF ToldInv
<1>4. /\ Told \in Seq(Nat) /\ Ascending(Told)
      /\ Told' = IF IsReported(h) THEN Append(Told, h) ELSE Told
  <2>1. Told = received \o queue /\ Told \in Seq(Nat)
        BY <1>1, <1>2, ConcatThree DEF Told
  <2>2. Told' = Told \o held'
        BY <1>1, <2>1 DEF Told
  <2>3. Told \o <<h>> = Append(Told, h) /\ Told \o <<>> = Told
        BY <1>3, <2>1
  <2> QED
      BY <1>1, <2>1, <2>2, <2>3 DEF ToldInv
<1> HIDE DEF h
<1>5. ASSUME NEW x PROVE IsReported(x)' <=> happened[x].kind \in {"died", "oom"} /\ HasPodId
      BY <1>1 DEF IsReported, HasPodId
<1>6. /\ Len(log') = Len(log) + 1 /\ log'[Len(log) + 1] = h /\ Len(log) \in Nat
      /\ \A k \in 1 .. Len(log) : log'[k] = log[k]
      BY <1>1, <1>2, <1>3
<1>7. Ascending(Told')
  <2>1. CASE IsReported(h)
    <3>1. ASSUME NEW i \in 1 .. Len(Told) PROVE Told[i] < h
      <4>1. CASE Told[i] = 0
            BY <1>3, <4>1
      <4>2. CASE Told[i] # 0
            BY <1>3, <4>2 DEF ToldInv
      <4> QED
          BY <4>1, <4>2
    <3> QED
        BY <1>3, <1>4, <2>1, <3>1, AscendingAppend
  <2>2. CASE ~IsReported(h)
        BY <1>4, <2>2
  <2> QED
      BY <2>1, <2>2
<1>8. ASSUME NEW i \in 1 .. Len(Told'), Told'[i] # 0
      PROVE  \E k \in 1 .. Len(log') : Told'[i] = log'[k] /\ IsReported(log[k])'
  <2>1. CASE i \in 1 .. Len(Told)
    <3>1. Told'[i] = Told[i]
          BY <1>3, <1>4, <2>1
    <3>2. PICK k \in 1 .. Len(log) : Told[i] = log[k] /\ IsReported(log[k])
          BY <1>8, <3>1, <2>1 DEF ToldInv
    <3> QED
        BY <1>5, <1>6, <3>1, <3>2 DEF IsReported
  <2>2. CASE i \notin 1 .. Len(Told)
    <3>1. IsReported(h) /\ Told'[i] = h
          BY <1>3, <1>4, <2>2
    <3>2. Len(log) + 1 \in 1 .. Len(log')
          BY <1>6
    <3> QED
        BY <1>5, <1>6, <3>1, <3>2 DEF IsReported
  <2> QED
      BY <2>1, <2>2
<1>9. ASSUME NEW k \in 1 .. Len(log'), IsReported(log[k])'
      PROVE  \E i \in 1 .. Len(Told') : Told'[i] = log'[k]
  <2>1. IsReported(log'[k])
        BY <1>5, <1>9 DEF IsReported
  <2>2. CASE k \in 1 .. Len(log)
    <3>1. PICK i \in 1 .. Len(Told) : Told[i] = log[k]
          BY <1>6, <2>1, <2>2 DEF ToldInv
    <3>2. i \in 1 .. Len(Told') /\ Told'[i] = Told[i]
          BY <1>3, <1>4
    <3> QED
        BY <1>6, <2>2, <3>1, <3>2
  <2>3. CASE k = Len(log) + 1
    <3>1. Len(Told) + 1 \in 1 .. Len(Told') /\ Told'[Len(Told) + 1] = h
          BY <1>3, <1>4, <1>6, <2>1, <2>3
    <3> QED
        BY <1>6, <2>3, <3>1
  <2> QED
      BY <1>6, <2>2, <2>3
<1> QED
    BY <1>7, <1>8, <1>9 DEF ToldInv

\* Every step keeps what the orchestrator is told and what was broadcast in agreement.
LEMMA ToldStep ==
    ASSUME IInv, [Next]_vars
    PROVE  ToldInv'
<1>1. TypeOK /\ PipeInv /\ ToldInv
      BY DEF IInv
<1>2. /\ queue \in Seq(Nat) /\ received \in Seq(Nat) /\ held \in Seq(Nat)
      BY <1>1, SeqTypes
<1>3. orchestrator \in {"up", "down"} /\ (orchestrator = "down" => orchestrator' = "down")
      BY <1>1 DEF TypeOK, Next, vars, Happen, StreamOpen, StreamBreak, StreamError, StreamEnd,
         Take, Send, SendFails, OtherCommand, Handle, OrchestratorStops, Subscribe, Show, Lag,
         Unsubscribe
<1> SUFFICES ASSUME orchestrator = "up" PROVE ToldInv'
    BY <1>3 DEF ToldInv
<1>4. CASE UNCHANGED <<log, runtime, happened, received, queue, held>>
      BY <1>1, <1>4, ToldSame DEF Told
<1>5. CASE \E kind \in Kinds, p \in Pods : Happen(kind, p)
  <2>1. /\ \E e \in Event : happened' = Append(happened, e)
        /\ UNCHANGED <<log, runtime, received, queue, held>>
        BY <1>5 DEF Happen, Event
  <2>2. Told' = Told
        BY <2>1 DEF Told
  <2> QED
      BY <1>1, <2>1, <2>2, ToldSame
<1>6. CASE Take
      BY <1>1, <1>6, TakeTold
<1>7. CASE Send
  <2>1. /\ queue' = queue \o held /\ held' = <<>>
        /\ UNCHANGED <<log, runtime, happened, received>>
        BY <1>7 DEF Send
  <2>2. Told' = Told
        BY <1>2, <2>1 DEF Told
  <2> QED
      BY <1>1, <2>1, <2>2, ToldSame
<1>8. CASE SendFails
      BY <1>8 DEF SendFails
<1>9. CASE OtherCommand
  <2>1. queue' = Append(queue, 0) /\ UNCHANGED <<log, runtime, happened, received, held>>
        BY <1>9 DEF OtherCommand
  <2>2. Told' = Append(received \o queue, 0) \o held
        BY <1>2, <2>1 DEF Told
  <2>3. received \o queue \in Seq(Nat) /\ Ascending((received \o queue) \o held)
        BY <1>1, <1>2 DEF ToldInv, Told
  <2>4. /\ Ascending(Told')
        /\ \A i \in 1 .. Len(Told') :
              Told'[i] # 0 => \E j \in 1 .. Len(Told) : Told'[i] = Told[j]
        /\ \A j \in 1 .. Len(Told) : \E i \in 1 .. Len(Told') : Told'[i] = Told[j]
    <3> DEFINE told  == (received \o queue) \o held
               told2 == Append(received \o queue, 0) \o held
    <3>1. /\ Ascending(told2)
          /\ \A i \in 1 .. Len(told2) :
                told2[i] # 0 => \E j \in 1 .. Len(told) : told2[i] = told[j]
          /\ \A j \in 1 .. Len(told) : \E i \in 1 .. Len(told2) : told2[i] = told[j]
          BY <1>2, <2>3, AscendingInsert
    <3>2. Told = told /\ Told' = told2
          BY <2>2 DEF Told
    <3> HIDE DEF told, told2
    <3> QED
        BY <3>1, <3>2
  <2> QED
      BY <1>1, <2>1, <2>4, ToldKept
<1>10. CASE Handle
  <2>1. /\ queue # <<>> /\ queue' = Tail(queue)
        /\ received' = IF Head(queue) = 0 THEN received ELSE Append(received, Head(queue))
        /\ UNCHANGED <<log, runtime, happened, held>>
        BY <1>10 DEF Handle
  <2>2. CASE Head(queue) = 0
    <3> DEFINE rest == queue \o held
    <3>1. /\ rest \in Seq(Nat) /\ rest # <<>> /\ Head(rest) = 0
          /\ Tail(rest) = Tail(queue) \o held
          BY <1>2, <2>1, <2>2, ConcatThree
    <3>2. Told = received \o rest /\ Told' = received \o Tail(rest)
      <4>1. Tail(queue) \in Seq(Nat) /\ received' = received
            BY <1>2, <2>1, <2>2
      <4>2. (received \o queue) \o held = received \o rest
            BY <1>2, ConcatThree
      <4>3. (received \o Tail(queue)) \o held = received \o (Tail(queue) \o held)
            BY <1>2, <4>1, ConcatThree
      <4> QED
          BY <2>1, <3>1, <4>1, <4>2, <4>3 DEF Told
    <3>3. Ascending(received \o rest)
          BY <1>1, <3>2 DEF ToldInv
    <3> HIDE DEF rest
    <3>4. /\ Ascending(Told')
          /\ \A i \in 1 .. Len(Told') : \E j \in 1 .. Len(Told) : Told'[i] = Told[j]
          /\ \A j \in 1 .. Len(Told) :
                Told[j] = 0 \/ \E i \in 1 .. Len(Told') : Told'[i] = Told[j]
      <4> DEFINE told  == received \o rest
                 told2 == received \o Tail(rest)
      <4>1. /\ Ascending(told2)
            /\ \A i \in 1 .. Len(told2) : \E j \in 1 .. Len(told) : told2[i] = told[j]
            /\ \A j \in 1 .. Len(told) :
                  told[j] = 0 \/ \E i \in 1 .. Len(told2) : told2[i] = told[j]
            BY <1>2, <3>1, <3>3, AscendingWithout
      <4> HIDE DEF told, told2
      <4> QED
          BY <3>2, <4>1 DEF told, told2
    <3> QED
        BY <1>1, <2>1, <3>4, ToldKept
  <2>3. CASE Head(queue) # 0
    <3>1. Append(received, Head(queue)) \o Tail(queue) = received \o queue
          BY <1>2, <2>1, ConcatThree
    <3>2. Told' = Told
          BY <2>1, <2>3, <3>1 DEF Told
    <3> QED
        BY <1>1, <2>1, <3>2, ToldSame
  <2> QED
      BY <2>2, <2>3
<1>11. CASE OrchestratorStops
      BY <1>11 DEF OrchestratorStops, ToldInv
<1>12. CASE StreamOpen \/ StreamBreak \/ StreamError \/ StreamEnd
      BY <1>4, <1>12 DEF StreamOpen, StreamBreak, StreamError, StreamEnd
<1>13. CASE \E u \in Clients : Subscribe(u) \/ Show(u) \/ Lag(u) \/ Unsubscribe(u)
      BY <1>4, <1>13 DEF Subscribe, Show, Lag, Unsubscribe
<1>14. CASE UNCHANGED vars
      BY <1>4, <1>14 DEF vars
<1> QED
    BY <1>5, <1>6, <1>7, <1>8, <1>9, <1>10, <1>11, <1>12, <1>13, <1>14 DEF Next

----------------------------------------------------------------------------
(* Readers of the broadcast channel *)

\* Events are broadcast one by one.
LEMMA LogGrows ==
    ASSUME TypeOK, [Next]_vars
    PROVE  /\ log' \in Seq(Place) /\ Len(log) <= Len(log')
           /\ \A k \in 1 .. Len(log) : log'[k] = log[k]
<1>1. log \in Seq(Place) /\ buffer \in Seq(Place)
      BY DEF TypeOK
<1>2. CASE log' = log
      BY <1>1, <1>2
<1>3. CASE Take
      BY <1>1, <1>3 DEF Take
<1> QED
    BY <1>2, <1>3 DEF Next, vars, Happen, StreamOpen, StreamBreak, StreamError, StreamEnd,
       Send, SendFails, OtherCommand, Handle, OrchestratorStops, Subscribe, Show, Lag,
       Unsubscribe

\* A reader that does nothing can still account for what it has read.
LEMMA ReaderWaits ==
    ASSUME TypeOK, [Next]_vars, NEW r \in Reader, r.next <= Len(log) + 1, ReaderInv(r)
    PROVE  r.next <= Len(log') + 1 /\ ReaderInv(r)'
<1>1. /\ log \in Seq(Place) /\ log' \in Seq(Place) /\ Len(log) <= Len(log')
      /\ \A k \in 1 .. Len(log) : log'[k] = log[k]
      BY LogGrows DEF TypeOK
<1>2. r.next \in Nat
      BY DEF Reader
<1>3. ASSUME NEW i \in 1 .. Len(r.seen)
      PROVE  \E k \in 1 .. (r.next - 1) : r.seen[i] = log'[k]
  <2>1. PICK k \in 1 .. (r.next - 1) : r.seen[i] = log[k]
        BY DEF ReaderInv
  <2>2. k \in 1 .. Len(log)
        BY <1>1, <1>2, <2>1
  <2> QED
      BY <1>1, <2>1, <2>2
<1> QED
    BY <1>1, <1>2, <1>3 DEF ReaderInv

\* The records that a reader's steps make of it.
LEMMA ReaderRecord ==
    ASSUME NEW r \in Reader, NEW q \in Seq(Place), NEW n \in Nat, NEW x,
           x = [r EXCEPT !.seen = q, !.next = n]
    PROVE  x = [next |-> n, from |-> r.from, seen |-> q, missed |-> r.missed]
BY DEF Reader

\* What a reader has read is shown, or counted as missed.
LEMMA Accounted ==
    ASSUME NEW r \in Reader, NEW x \in Reader, NEW n \in Nat, NEW m \in Nat, NEW k \in Nat,
           x.from = r.from, Len(r.seen) + r.missed = r.next - r.from,
           x.next = r.next + n, Len(x.seen) = Len(r.seen) + m, x.missed = r.missed + k, n = m + k
    PROVE  Len(x.seen) + x.missed = x.next - x.from
<1>1. PICK a \in Nat, b \in Nat, c \in Nat, d \in Nat :
         a = Len(r.seen) /\ b = r.missed /\ c = r.next /\ d = r.from
      BY DEF Reader
<1>2. a + b = c - d
      BY <1>1
<1>3. (a + m) + (b + k) = (c + n) - d
      BY <1>2
<1>4. Len(x.seen) = a + m /\ x.missed = b + k /\ x.next = c + n /\ x.from = d
      BY <1>1
<1> QED
    BY <1>3, <1>4, Zenon

\* What a client's own step makes of its reader.
LEMMA ReaderReads ==
    ASSUME TypeOK, PipeInv, NEW u \in Clients, ReaderInv(client[u]),
           Subscribe(u) \/ Show(u) \/ Lag(u) \/ Unsubscribe(u)
    PROVE  /\ client' \in [Clients -> Reader]
           /\ \A v \in Clients : v # u => client'[v] = client[v]
           /\ client'[u].next <= Len(log) + 1 /\ log' = log
           /\ ReaderInv(client'[u])
<1> DEFINE r == client[u]
<1>1. /\ client \in [Clients -> Reader] /\ r \in Reader /\ r.next <= Len(log) + 1
      /\ r.next \in Nat /\ r.from \in Nat /\ r.missed \in Nat /\ r.seen \in Seq(Place)
      /\ log \in Seq(Place) /\ Len(log) \in Nat
      BY DEF TypeOK, Reader
<1>2. ASSUME NEW x \in Reader, client' = [client EXCEPT ![u] = x], x.next <= Len(log) + 1,
             log' = log, ReaderInv(x)
      PROVE  /\ client' \in [Clients -> Reader]
             /\ \A v \in Clients : v # u => client'[v] = client[v]
             /\ client'[u].next <= Len(log) + 1 /\ log' = log
             /\ ReaderInv(client'[u])
      BY <1>1, <1>2
<1>3. NoReader \in Reader /\ ReaderInv(NoReader) /\ NoReader.next <= Len(log) + 1
      BY <1>1 DEF NoReader, Reader, ReaderInv, Ascending
<1>4. CASE Subscribe(u)
  <2> DEFINE x == [next |-> Len(log) + 1, from |-> Len(log) + 1, seen |-> <<>>, missed |-> 0]
  <2>1. client' = [client EXCEPT ![u] = x] /\ log' = log
        BY <1>1, <1>4 DEF Subscribe, NoReader
  <2>2. x \in Reader /\ ReaderInv(x)
        BY <1>1 DEF Reader, ReaderInv, Ascending
  <2> QED
      BY <1>1, <1>2, <2>1, <2>2
<1>5. CASE Show(u)
  <2> DEFINE x == [next |-> r.next + 1, from |-> r.from, seen |-> Append(r.seen, log[r.next]),
                   missed |-> r.missed]
  <2>0. r.next \in 1 .. Len(log) /\ log[r.next] \in Place
        BY <1>1, <1>5, CapAssumption DEF Show, Oldest
  <2>1. client' = [client EXCEPT ![u] = x] /\ log' = log
    <3>1. client' = [client EXCEPT ![u] = [r EXCEPT !.seen = Append(r.seen, log[r.next]),
                                                    !.next = r.next + 1]]
          BY <1>1, <1>5 DEF Show
    <3>2. x = [r EXCEPT !.seen = Append(r.seen, log[r.next]), !.next = r.next + 1]
      <4>1. r \in Reader /\ r.next + 1 \in Nat /\ Append(r.seen, log[r.next]) \in Seq(Place)
            BY <1>1, <2>0
      <4>2. PICK q \in Seq(Place), n \in Nat : q = Append(r.seen, log[r.next]) /\ n = r.next + 1
            BY <4>1
      <4>3. PICK y : y = [r EXCEPT !.seen = q, !.next = n]
            OBVIOUS
      <4>4. y = [next |-> n, from |-> r.from, seen |-> q, missed |-> r.missed]
            BY <1>1, <4>3, ReaderRecord
      <4> QED
          BY <4>2, <4>3, <4>4, Zenon
    <3> QED
        BY <1>5, <3>1, <3>2 DEF Show
  <2>3. /\ x \in Reader /\ x.next = r.next + 1 /\ x.from = r.from /\ x.missed = r.missed
        /\ x.seen = Append(r.seen, log[r.next])
        BY <1>1, <2>0 DEF Reader
  <2>4. /\ Len(x.seen) = Len(r.seen) + 1 /\ x.seen[Len(r.seen) + 1] = log[r.next]
        /\ Len(r.seen) \in Nat /\ \A i \in 1 .. Len(r.seen) : x.seen[i] = r.seen[i]
        BY <1>1, <2>0, <2>3
  <2>5. ASSUME NEW i \in 1 .. Len(r.seen) PROVE r.seen[i] < log[r.next]
    <3>1. PICK k \in 1 .. (r.next - 1) : r.seen[i] = log[k]
          BY DEF ReaderInv
    <3>2. k \in 1 .. Len(log) /\ k < r.next
          BY <1>1, <2>0, <3>1
    <3>3. log[k] # 0 /\ log[r.next] # 0
          BY <2>0, <3>2, SeqTypes
    <3> QED
        BY <2>0, <3>1, <3>2, <3>3, LogAscending DEF Ascending
  <2>6. Ascending(x.seen)
    <3>1. r.seen \in Seq(Nat) /\ log[r.next] \in Nat
          BY <1>1, <2>0, SeqTypes, SeqWider
    <3> QED
        BY <2>3, <2>5, <3>1, AscendingAppend DEF ReaderInv
  <2>7. ASSUME NEW i \in 1 .. Len(x.seen)
        PROVE  \E k \in 1 .. (x.next - 1) : x.seen[i] = log[k]
    <3>1. CASE i = Len(r.seen) + 1
          BY <1>1, <2>0, <2>3, <2>4, <3>1
    <3>2. CASE i \in 1 .. Len(r.seen)
      <4>1. PICK k \in 1 .. (r.next - 1) : r.seen[i] = log[k]
            BY <3>2 DEF ReaderInv
      <4> QED
          BY <1>1, <2>3, <2>4, <3>2, <4>1
    <3> QED
        BY <2>4, <3>1, <3>2
  <2> HIDE DEF x
  <2>8. Len(r.seen) + r.missed = r.next - r.from
        BY DEF ReaderInv
  <2>9. Len(x.seen) + x.missed = x.next - x.from
    <3>1. /\ x.next = r.next + 1 /\ Len(x.seen) = Len(r.seen) + 1 /\ x.missed = r.missed + 0
          /\ x.from = r.from /\ 1 \in Nat /\ 0 \in Nat /\ 1 = 1 + 0
          BY <1>1, <2>3, <2>4
    <3> HIDE DEF r
    <3> QED
        BY <1>1, <2>3, <2>8, <3>1, Accounted
  <2>10. ReaderInv(x)
        BY <2>6, <2>7, <2>9 DEF ReaderInv
  <2> QED
      BY <1>1, <1>2, <2>1, <2>0, <2>3, <2>10
<1>6. CASE Lag(u)
  <2> DEFINE x == [next |-> Oldest, from |-> r.from, seen |-> r.seen,
                   missed |-> r.missed + (Oldest - r.next)]
  <2>1. client' = [client EXCEPT ![u] = x] /\ log' = log
        BY <1>1, <1>6 DEF Lag, Reader, Warned
  <2>2. Oldest \in 1 .. Len(log) /\ r.next < Oldest
        BY <1>1, <1>6, CapAssumption DEF Lag, Oldest
  <2>3. /\ x \in Reader /\ x.next = Oldest /\ x.from = r.from /\ x.seen = r.seen
        /\ x.missed = r.missed + (Oldest - r.next)
        BY <1>1, <2>2 DEF Reader
  <2> HIDE DEF x
  <2>4. ASSUME NEW i \in 1 .. Len(x.seen)
        PROVE  \E k \in 1 .. (x.next - 1) : x.seen[i] = log[k]
    <3>1. PICK k \in 1 .. (r.next - 1) : r.seen[i] = log[k]
          BY <2>3 DEF ReaderInv
    <3> QED
        BY <1>1, <2>2, <2>3, <3>1
  <2>5. Len(r.seen) + r.missed = r.next - r.from /\ Ascending(r.seen)
        BY DEF ReaderInv
  <2>6. Len(x.seen) + x.missed = x.next - x.from
    <3> DEFINE n == Oldest - r.next
    <3>1. /\ n \in Nat /\ 0 \in Nat /\ x.next = r.next + n /\ Len(x.seen) = Len(r.seen) + 0
          /\ x.missed = r.missed + n /\ x.from = r.from /\ n = 0 + n
          BY <1>1, <2>2, <2>3
    <3> HIDE DEF r, n
    <3> QED
        BY <1>1, <2>3, <2>5, <3>1, Accounted
  <2>7. ReaderInv(x)
        BY <2>3, <2>4, <2>5, <2>6 DEF ReaderInv
  <2> QED
      BY <1>1, <1>2, <2>1, <2>2, <2>3, <2>7
<1>7. CASE Unsubscribe(u)
      BY <1>2, <1>3, <1>7 DEF Unsubscribe
<1> QED
    BY <1>4, <1>5, <1>6, <1>7

----------------------------------------------------------------------------
(* The invariant *)

\* Every step leaves every variable in its type.
LEMMA TypeStep ==
    ASSUME IInv, [Next]_vars
    PROVE  TypeOK'
<1>1. TypeOK /\ PipeInv /\ \A u \in Clients : ReaderInv(client[u])
      BY DEF IInv
<1> DEFINE Reads == \E u \in Clients : Subscribe(u) \/ Show(u) \/ Lag(u) \/ Unsubscribe(u)
<1>2. CASE Reads
  <2>1. PICK u \in Clients : Subscribe(u) \/ Show(u) \/ Lag(u) \/ Unsubscribe(u)
        BY <1>2
  <2>2. /\ client' \in [Clients -> Reader] /\ log' = log
        /\ \A v \in Clients : v # u => client'[v] = client[v]
        /\ client'[u].next <= Len(log) + 1
        BY <1>1, <2>1, ReaderReads
  <2>3. UNCHANGED <<runtime, happened, running, stream, buffer, held, queue, orchestrator,
                    received>>
        BY <2>1 DEF Subscribe, Show, Lag, Unsubscribe
  <2> QED
      BY <1>1, <2>2, <2>3 DEF TypeOK
<1>3. CASE ~Reads
  <2>1. /\ client' = client /\ log' \in Seq(Place)
        /\ \A u \in Clients : client[u].next <= Len(log') + 1
    <3>1. client' = client
          BY <1>3 DEF Next, vars, Happen, StreamOpen, StreamBreak, StreamError, StreamEnd,
             Take, Send, SendFails, OtherCommand, Handle, OrchestratorStops
    <3>2. ASSUME NEW u \in Clients PROVE client[u].next <= Len(log') + 1
      <4>1. client[u] \in Reader /\ client[u].next <= Len(log) + 1
            BY <1>1 DEF TypeOK
      <4> QED
          BY <1>1, <4>1, ReaderWaits
    <3> QED
        BY <1>1, <3>1, <3>2, LogGrows
  <2> DEFINE Rest == /\ runtime' \in {"docker", "containerd"}
                     /\ happened' \in Seq(Event) /\ Len(happened') <= MaxEvents
                     /\ running' \subseteq Pods
                     /\ stream' \in {"closed", "open", "ended"}
                     /\ buffer' \in Seq(Place) /\ (stream' = "closed" => buffer' = <<>>)
                     /\ held' \in Seq(Place) /\ Len(held') <= 1
                     /\ queue' \in Seq(Place \cup {0}) /\ Len(queue') <= QueueCap
                     /\ orchestrator' \in {"up", "down"}
                     /\ received' \in Seq(Place)
  <2> SUFFICES Rest
      BY <2>1, <1>1 DEF TypeOK
  <2>2. CASE \E kind \in Kinds, p \in Pods : Happen(kind, p)
    <3>1. PICK kind \in Kinds, p \in Pods : Happen(kind, p)
          BY <2>2
    <3>2. happened' \in Seq(Event) /\ Len(happened') <= MaxEvents /\ Len(happened) + 1 \in Place
          BY <1>1, <3>1, BoundAssumption DEF Happen, TypeOK, Event, Place
    <3>3. running' \subseteq Pods
          BY <1>1, <3>1 DEF Happen, TypeOK, Kinds
    <3>4. buffer' \in Seq(Place) /\ (stream = "closed" => buffer' = <<>>)
          BY <1>1, <3>1, <3>2 DEF Happen, TypeOK
    <3> QED
        BY <1>1, <3>1, <3>2, <3>3, <3>4 DEF Happen, TypeOK
  <2>3. CASE StreamOpen \/ StreamBreak \/ StreamError \/ StreamEnd
    <3>1. buffer' \in Seq(Place)
      <4>1. buffer \in Seq(Place)
            BY <1>1 DEF TypeOK
      <4>2. CASE StreamBreak
        <5>1. PICK n \in 0 .. Len(buffer) : buffer' = SubSeq(buffer, 1, n)
              BY <4>2 DEF StreamBreak
        <5> QED
            BY <4>1, <5>1
      <4>3. CASE ~StreamBreak
            BY <2>3, <4>1, <4>3 DEF StreamOpen, StreamError, StreamEnd
      <4> QED
          BY <4>2, <4>3
    <3>2. stream' \in {"closed", "open", "ended"} /\ (stream' = "closed" => buffer' = <<>>)
          BY <1>1, <2>3 DEF StreamOpen, StreamBreak, StreamError, StreamEnd, TypeOK
    <3> QED
        BY <1>1, <2>3, <3>1, <3>2 DEF StreamOpen, StreamBreak, StreamError, StreamEnd, TypeOK
  <2>4. CASE Take
    <3>1. Head(buffer) \in Place /\ Tail(buffer) \in Seq(Place) /\ stream # "closed"
          BY <1>1, <2>4 DEF Take, TypeOK
    <3>2. held' \in Seq(Place) /\ Len(held') <= 1
          BY <2>4, <3>1 DEF Take
    <3>3. buffer' = Tail(buffer) /\ UNCHANGED <<runtime, happened, running, stream, queue,
                                                 orchestrator, received>>
          BY <2>4 DEF Take
    <3> QED
        BY <1>1, <3>1, <3>2, <3>3 DEF TypeOK
  <2>5. CASE Send
    <3>1. held \in Seq(Place \cup {0})
          BY <1>1, SeqWider DEF TypeOK
    <3>2. queue' \in Seq(Place \cup {0}) /\ Len(queue') <= QueueCap
          BY <1>1, <2>5, <3>1, CapAssumption DEF Send, Room, TypeOK
    <3>3. <<>> \in Seq(Place) /\ Len(<<>>) <= 1
          OBVIOUS
    <3> QED
        BY <1>1, <2>5, <3>2, <3>3 DEF Send, TypeOK
  <2>6. CASE SendFails
        BY <1>1, <2>6 DEF SendFails, TypeOK
  <2>7. CASE OtherCommand
        BY <1>1, <2>7, CapAssumption DEF OtherCommand, TypeOK
  <2>8. CASE Handle
    <3>1. Head(queue) \in Place \cup {0} /\ queue' \in Seq(Place \cup {0}) /\ Len(queue') <= QueueCap
          BY <1>1, <2>8, CapAssumption DEF Handle, TypeOK
    <3>2. received' \in Seq(Place)
          BY <1>1, <2>8, <3>1 DEF Handle, TypeOK
    <3> QED
        BY <1>1, <2>8, <3>1, <3>2 DEF Handle, TypeOK
  <2>9. CASE OrchestratorStops
        BY <1>1, <2>9, CapAssumption DEF OrchestratorStops, TypeOK
  <2>10. CASE UNCHANGED vars
        BY <1>1, <2>10 DEF vars, TypeOK
  <2> QED
      BY <1>3, <2>2, <2>3, <2>4, <2>5, <2>6, <2>7, <2>8, <2>9, <2>10 DEF Next
<1> QED
    BY <1>2, <1>3

\* Every step leaves every client able to account for what it has read.
LEMMA ReaderStep ==
    ASSUME IInv, [Next]_vars, NEW v \in Clients
    PROVE  ReaderInv(client[v])'
<1>1. TypeOK /\ PipeInv /\ \A u \in Clients : ReaderInv(client[u])
      BY DEF IInv
<1>2. client[v] \in Reader /\ client[v].next <= Len(log) + 1
      BY <1>1 DEF TypeOK
<1>3. CASE client'[v] = client[v]
  <2>1. PICK r : r = client[v]
        OBVIOUS
  <2>2. ReaderInv(r)'
        BY <1>1, <1>2, <2>1, ReaderWaits
  <2> QED
      BY <1>3, <2>1, <2>2 DEF ReaderInv
<1>4. CASE \E u \in Clients : Subscribe(u) \/ Show(u) \/ Lag(u) \/ Unsubscribe(u)
  <2>1. PICK u \in Clients : Subscribe(u) \/ Show(u) \/ Lag(u) \/ Unsubscribe(u)
        BY <1>4
  <2>2. /\ log' = log /\ ReaderInv(client'[u])
        /\ \A w \in Clients : w # u => client'[w] = client[w]
        BY <1>1, <2>1, ReaderReads
  <2>3. CASE v = u
        BY <2>2, <2>3 DEF ReaderInv
  <2> QED
      BY <1>3, <2>2, <2>3
<1>5. CASE client' = client
      BY <1>3, <1>5
<1> QED
    BY <1>4, <1>5 DEF Next, vars, Happen, StreamOpen, StreamBreak, StreamError, StreamEnd,
       Take, Send, SendFails, OtherCommand, Handle, OrchestratorStops

\* The invariant holds of every behaviour, whatever the capacities of the channels.
THEOREM InductiveInvariant == Spec => []IInv
<1>1. Init => IInv
  <2> SUFFICES ASSUME Init PROVE IInv
      OBVIOUS
  <2>1. NoReader \in Reader /\ NoReader.next = 0
        BY DEF NoReader, Reader
  <2>2. TypeOK
        BY <2>1, BoundAssumption, CapAssumption DEF Init, TypeOK
  <2>3. log = <<>> /\ Pipe = <<>> /\ Told = <<>>
        BY DEF Init, Pipe, Told
  <2>4. PipeInv /\ ToldInv
        BY <2>3 DEF PipeInv, ToldInv, Ascending
  <2>5. ASSUME NEW u \in Clients PROVE ReaderInv(client[u])
        BY DEF Init, ReaderInv, NoReader, Ascending
  <2> QED
      BY <2>2, <2>4, <2>5 DEF IInv
<1>2. IInv /\ [Next]_vars => IInv'
      BY TypeStep, PipeStep, ToldStep, ReaderStep DEF IInv
<1> QED
    BY <1>1, <1>2, PTL DEF Spec

\* The variables keep their types, the command channel its capacity.
THEOREM TypeCorrect == Spec => []TypeOK
BY InductiveInvariant, PTL DEF IInv

\* The exits the orchestrator is told of are those broadcast, in their order, however
\* the channel fills and the stream breaks.
THEOREM ExitsAgreeCorrect == Spec => []ExitsAgree
<1>1. IInv => ExitsAgree
  <2> SUFFICES ASSUME IInv, orchestrator = "up"
               PROVE  /\ Ascending(Told) /\ Ascending(log)
                      /\ ToSet(Told) \ {0} = {i \in ToSet(log) : IsReported(i)}
      BY DEF ExitsAgree
  <2>1. TypeOK /\ PipeInv /\ ToldInv
        BY DEF IInv
  <2>2. Ascending(Told) /\ Ascending(log)
        BY <2>1, LogAscending DEF ToldInv
  <2>3. /\ Told \in Seq(Nat) /\ log \in Seq(Nat) /\ DOMAIN Told = 1 .. Len(Told)
        /\ DOMAIN log = 1 .. Len(log) /\ \A k \in 1 .. Len(log) : log[k] # 0
        BY <2>1, SeqTypes, ConcatThree DEF Told
  <2>4. ASSUME NEW n \in ToSet(Told) \ {0} PROVE n \in ToSet(log) /\ IsReported(n)
    <3>1. PICK i \in 1 .. Len(Told) : Told[i] = n
          BY <2>3 DEF ToSet
    <3>2. PICK k \in 1 .. Len(log) : Told[i] = log[k] /\ IsReported(log[k])
          BY <2>1, <3>1 DEF ToldInv
    <3> QED
        BY <2>3, <3>1, <3>2 DEF ToSet
  <2>5. ASSUME NEW n \in ToSet(log), IsReported(n) PROVE n \in ToSet(Told) \ {0}
    <3>1. PICK k \in 1 .. Len(log) : log[k] = n
          BY <2>3 DEF ToSet
    <3>2. PICK i \in 1 .. Len(Told) : Told[i] = log[k]
          BY <2>1, <2>5, <3>1 DEF ToldInv
    <3> QED
        BY <2>3, <3>1, <3>2 DEF ToSet
  <2> QED
      BY <2>2, <2>4, <2>5
<1> QED
    BY <1>1, InductiveInvariant, PTL

\* Every client can account for every event, whatever the capacity of the broadcast
\* channel and however slowly it reads.
THEOREM MissedReportedCorrect == Spec => []MissedReported
<1>1. IInv => MissedReported
      BY DEF IInv, ReaderInv, MissedReported
<1> QED
    BY <1>1, InductiveInvariant, PTL

=============================================================================
