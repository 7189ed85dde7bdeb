-------------------------- MODULE LogTailerProofs --------------------------
(***************************************************************************)
(* ServedInOrder and OnlyGap for every history length and every amount of  *)
(* output.                                                                 *)
(***************************************************************************)
EXTENDS LogTailer, TLAPS

\* Positions are numbers.
LEMMA PositionsType ==
    ASSUME NEW seq \in Seq(Pieces)
    PROVE  \A i \in 1 .. Len(seq) : seq[i].from \in Nat /\ seq[i].to \in Nat
<1> SUFFICES ASSUME NEW i \in 1 .. Len(seq)
             PROVE  seq[i].from \in Nat /\ seq[i].to \in Nat
    OBVIOUS
<1>1. seq[i] \in Pieces
      OBVIOUS
<1> QED
    BY <1>1 DEF Pieces

\* The suffix of an ordered sequence of pieces is one, and holds nothing new.
LEMMA LastLinesInOrder ==
    ASSUME NEW seq \in Seq(Pieces), InOrder(seq)
    PROVE  /\ LastLines(seq) \in Seq(Pieces)
           /\ InOrder(LastLines(seq))
           /\ \A j \in 1 .. Len(LastLines(seq)) :
                 \E i \in 1 .. Len(seq) : LastLines(seq)[j] = seq[i]
<1> DEFINE skip == IF Len(seq) > TailLines THEN Len(seq) - TailLines ELSE 0
           last == SubSeq(seq, skip + 1, Len(seq))
<1>1. skip \in 0 .. Len(seq)
      BY TailAssumption
<1>2. /\ last \in Seq(Pieces)
      /\ Len(last) = Len(seq) - skip
      /\ \A j \in 1 .. Len(last) : last[j] = seq[skip + j]
      BY <1>1
<1>3. \A j \in 1 .. Len(last) : skip + j \in 1 .. Len(seq)
      BY <1>1, <1>2
<1> HIDE DEF skip
<1>4. InOrder(last)
  <2> HIDE DEF last
  <2>1. \A j \in 1 .. Len(last) : last[j].from <= last[j].to
        BY <1>2, <1>3 DEF InOrder
  <2>2. ASSUME NEW i \in 1 .. Len(last), NEW j \in 1 .. Len(last), i < j
        PROVE  last[i].to < last[j].from
        BY <1>1, <1>2, <1>3, <2>2 DEF InOrder
  <2> QED
      BY <2>1, <2>2 DEF InOrder
<1>5. LastLines(seq) = last
      BY DEF LastLines, skip
<1> QED
    BY <1>2, <1>3, <1>4, <1>5

\* An ordered sequence stays ordered when a piece past its end is appended.
LEMMA AppendInOrder ==
    ASSUME NEW seq \in Seq(Pieces), InOrder(seq), NEW piece \in Pieces,
           piece.from <= piece.to,
           \A i \in 1 .. Len(seq) : seq[i].to < piece.from
    PROVE  /\ Append(seq, piece) \in Seq(Pieces)
           /\ InOrder(Append(seq, piece))
           /\ Len(Append(seq, piece)) = Len(seq) + 1
           /\ \A i \in 1 .. Len(seq) : Append(seq, piece)[i] = seq[i]
           /\ Append(seq, piece)[Len(seq) + 1] = piece
<1>1. /\ Append(seq, piece) \in Seq(Pieces)
      /\ Len(Append(seq, piece)) = Len(seq) + 1
      /\ \A i \in 1 .. Len(seq) : Append(seq, piece)[i] = seq[i]
      /\ Append(seq, piece)[Len(seq) + 1] = piece
      OBVIOUS
<1>2. InOrder(Append(seq, piece))
      BY <1>1 DEF InOrder
<1> QED
    BY <1>1, <1>2

\* Positions before p are before a later q.
LEMMA BoundGrows ==
    ASSUME NEW seq \in Seq(Pieces), NEW p \in Nat, NEW q \in Nat, p < q,
           \A i \in 1 .. Len(seq) : seq[i].to <= p
    PROVE  \A i \in 1 .. Len(seq) : seq[i].to <= q
<1> SUFFICES ASSUME NEW i \in 1 .. Len(seq) PROVE seq[i].to <= q
    OBVIOUS
<1>1. seq[i].to \in Nat /\ seq[i].to <= p
      BY PositionsType
<1> QED
    BY <1>1

\* A bound on the pieces of a sequence and on one more bounds them all.
LEMMA AppendBounded ==
    ASSUME NEW seq \in Seq(Pieces), NEW piece, NEW b \in Nat, NEW longer,
           Len(longer) = Len(seq) + 1,
           \A i \in 1 .. Len(seq) : longer[i] = seq[i],
           longer[Len(seq) + 1] = piece,
           piece.to <= b,
           \A i \in 1 .. Len(seq) : seq[i].to <= b
    PROVE  \A i \in 1 .. Len(longer) : longer[i].to <= b
<1> SUFFICES ASSUME NEW i \in 1 .. Len(longer) PROVE longer[i].to <= b
    OBVIOUS
<1>1. Len(seq) \in Nat
      OBVIOUS
<1>2. i \in 1 .. Len(seq) \/ i = Len(seq) + 1
      BY <1>1
<1> QED
    BY <1>2

\* A read moves the reader forward, within the file, and gives a piece of it.
LEMMA ReadsForward ==
    ASSUME TypeOK, NEW q \in Nat, EndsLine(pos, q)
    PROVE  /\ q \in 0 .. Len(file) /\ pos < q
           /\ Piece(pos, q) \in Pieces
           /\ Piece(pos, q).from = pos + 1 /\ Piece(pos, q).to = q
BY DEF TypeOK, EndsLine, Piece, Pieces

\* The inductive invariant holds when tail is called.
LEMMA InitIInv == Init => IInv
<1> SUFFICES ASSUME Init PROVE IInv
    OBVIOUS
<1>1. file \in Seq(Bytes)
  <2>1. PICK n \in 0 .. MaxBytes : file \in [1 .. n -> Bytes]
        BY DEF Init
  <2> QED
      BY <2>1, TailAssumption
<1>2. TypeOK
      BY <1>1 DEF Init, TypeOK, Phases
<1> QED
    BY <1>2 DEF Init, IInv, InOrder

\* Every write and every step of the two readers keeps the inductive invariant.
LEMMA NextIInv == IInv /\ [Next]_vars => IInv'
<1> SUFFICES ASSUME IInv, [Next]_vars PROVE IInv'
    OBVIOUS
<1>0. TypeOK
      BY DEF IInv
<1>1. ASSUME NEW b \in Bytes, Write(b) PROVE IInv'
  <2>1. TypeOK'
    <3>1. file' \in Seq(Bytes) /\ Len(file') = Len(file) + 1
          BY <1>0, <1>1 DEF Write, TypeOK
    <3> QED
        BY <1>0, <1>1, <3>1 DEF Write, TypeOK
  <2> QED
      BY <1>1, <2>1 DEF Write, IInv, InOrder
<1>2. ASSUME ReadLine PROVE IInv'
  <2>1. PICK q \in 1 .. Len(file) :
             EndsLine(pos, q) /\ lines' = Append(lines, Piece(pos, q)) /\ pos' = q
        BY <1>2 DEF ReadLine
  <2>2. /\ q \in 0 .. Len(file) /\ pos < q
        /\ Piece(pos, q) \in Pieces
        /\ Piece(pos, q).from = pos + 1 /\ Piece(pos, q).to = q
        BY <1>0, <2>1, ReadsForward
  <2>3. \A i \in 1 .. Len(lines) : lines[i].to <= pos /\ lines[i].to \in Nat /\ lines[i].to < pos + 1
    <3>1. pos \in Nat /\ lines \in Seq(Pieces)
          BY <1>0 DEF TypeOK
    <3>2. \A i \in 1 .. Len(lines) : lines[i].to <= pos
          BY <1>2 DEF ReadLine, IInv
    <3> QED
        BY <3>1, <3>2, PositionsType
  <2>4. /\ lines' \in Seq(Pieces) /\ InOrder(lines') /\ Len(lines') = Len(lines) + 1
        /\ \A i \in 1 .. Len(lines) : lines'[i] = lines[i]
        /\ lines'[Len(lines) + 1] = Piece(pos, q)
    <3>1. pos \in Nat /\ q \in Nat /\ lines \in Seq(Pieces)
          BY <1>0 DEF TypeOK
    <3>2. Piece(pos, q).from <= Piece(pos, q).to
          BY <2>2, <3>1
    <3>3. \A i \in 1 .. Len(lines) : lines[i].to < Piece(pos, q).from
          BY <2>2, <2>3
    <3>4. InOrder(lines)
          BY DEF IInv
    <3> QED
        BY <2>1, <2>2, <3>1, <3>2, <3>3, <3>4, AppendInOrder
  <2>5. TypeOK'
        BY <1>0, <1>2, <2>1, <2>2, <2>4 DEF ReadLine, TypeOK
  <2>6. \A j \in 1 .. Len(lines') : lines'[j].to <= pos'
    <3>1. pos \in Nat /\ q \in Nat /\ lines \in Seq(Pieces)
          BY <1>0 DEF TypeOK
    <3>2. \A i \in 1 .. Len(lines) : lines[i].to <= q
          BY <2>2, <2>3, <3>1, BoundGrows
    <3>3. Piece(pos, q).to <= q
          BY <2>2, <3>1
    <3>4. \A j \in 1 .. Len(lines') : lines'[j].to <= q
          BY <2>4, <3>1, <3>2, <3>3, AppendBounded
    <3> QED
        BY <2>1, <3>4
  <2>7. served = <<>> /\ served' = served /\ phase' = phase /\ phase = "read"
        BY <1>2 DEF ReadLine, IInv
  <2> QED
      BY <2>4, <2>5, <2>6, <2>7 DEF IInv, InOrder
<1>3. ASSUME ReadEnd PROVE IInv'
  <2>1. /\ lines' \in Seq(Pieces) /\ InOrder(lines')
        /\ \A j \in 1 .. Len(lines') : \E i \in 1 .. Len(lines) : lines'[j] = lines[i]
        BY <1>0, <1>3, LastLinesInOrder DEF ReadEnd, IInv, TypeOK
  <2>2. TypeOK'
        BY <1>0, <1>3, <2>1 DEF ReadEnd, TypeOK, Phases
  <2>3. \A j \in 1 .. Len(lines') : lines'[j].to <= readEnd'
        BY <1>3, <2>1 DEF ReadEnd, IInv
  <2>4. served = <<>> /\ served' = served /\ phase' = "stat"
        BY <1>3 DEF ReadEnd, IInv
  <2> QED
      BY <2>1, <2>2, <2>3, <2>4 DEF IInv, InOrder
<1>4. ASSUME Stat PROVE IInv'
  <2>1. TypeOK' /\ readEnd' <= offset'
        BY <1>0, <1>4 DEF Stat, TypeOK, Phases
  <2> QED
      BY <1>4, <2>1 DEF Stat, IInv, InOrder
<1>5. ASSUME YieldHistory PROVE IInv'
  <2>1. /\ Head(lines) = lines[1] /\ lines[1] \in Pieces /\ 1 \in 1 .. Len(lines)
        /\ lines' \in Seq(Pieces) /\ Len(lines') = Len(lines) - 1
        /\ \A j \in 1 .. Len(lines') : j + 1 \in 1 .. Len(lines) /\ lines'[j] = lines[j + 1]
        BY <1>0, <1>5 DEF YieldHistory, TypeOK
  <2>2. /\ served' \in Seq(Pieces) /\ InOrder(served') /\ Len(served') = Len(served) + 1
        /\ \A i \in 1 .. Len(served) : served'[i] = served[i]
        /\ served'[Len(served) + 1] = lines[1]
    <3>1. lines[1].from <= lines[1].to /\ \A i \in 1 .. Len(served) : served[i].to < lines[1].from
          BY <2>1 DEF IInv, InOrder
    <3> QED
        BY <1>0, <1>5, <2>1, <3>1, AppendInOrder DEF YieldHistory, IInv, TypeOK
  <2>3. InOrder(lines')
    <3>1. \A j \in 1 .. Len(lines') : lines'[j].from <= lines'[j].to
          BY <2>1 DEF IInv, InOrder
    <3>2. ASSUME NEW i \in 1 .. Len(lines'), NEW j \in 1 .. Len(lines'), i < j
          PROVE  lines'[i].to < lines'[j].from
      <4>1. lines'[i] = lines[i + 1] /\ lines'[j] = lines[j + 1]
            BY <2>1
      <4>2. i + 1 \in 1 .. Len(lines) /\ j + 1 \in 1 .. Len(lines) /\ i + 1 < j + 1
            BY <2>1, <3>2
      <4>3. \A k, l \in 1 .. Len(lines) : k < l => lines[k].to < lines[l].from
            BY DEF IInv, InOrder
      <4> QED
          BY <4>1, <4>2, <4>3
    <3> QED
        BY <3>1, <3>2 DEF InOrder
  <2>4. TypeOK'
        BY <1>0, <1>5, <2>1, <2>2 DEF YieldHistory, TypeOK
  <2>5. \A j \in 1 .. Len(lines') : lines'[j].to <= readEnd'
        BY <1>5, <2>1 DEF YieldHistory, IInv
  <2>6. \A i \in 1 .. Len(served') : served'[i].to <= readEnd'
    <3>1. served \in Seq(Pieces) /\ readEnd \in Nat /\ readEnd' = readEnd
          BY <1>0, <1>5 DEF YieldHistory, TypeOK
    <3>2. lines[1].to <= readEnd /\ \A i \in 1 .. Len(served) : served[i].to <= readEnd
          BY <1>5, <2>1 DEF YieldHistory, IInv
    <3>3. \A i \in 1 .. Len(served') : served'[i].to <= readEnd
          BY <2>2, <3>1, <3>2, AppendBounded
    <3> QED
        BY <3>1, <3>3
  <2>7. ASSUME NEW i \in 1 .. Len(served'), NEW j \in 1 .. Len(lines')
        PROVE  served'[i].to < lines'[j].from
    <3>1. lines'[j] = lines[j + 1] /\ j + 1 \in 1 .. Len(lines) /\ 1 < j + 1
          BY <2>1
    <3>2. CASE i \in 1 .. Len(served)
          BY <2>2, <3>1, <3>2 DEF IInv
    <3>3. CASE i = Len(served) + 1
          BY <2>1, <2>2, <3>1, <3>3 DEF IInv, InOrder
    <3> QED
        BY <1>0, <2>2, <3>2, <3>3 DEF TypeOK
  <2>8. phase' = "history" /\ readEnd' <= offset'
        BY <1>5 DEF YieldHistory, IInv
  <2> QED
      BY <2>2, <2>3, <2>4, <2>5, <2>6, <2>7, <2>8 DEF IInv
<1>6. ASSUME OpenAndSeek PROVE IInv'
  <2>1. TypeOK'
        BY <1>0, <1>6 DEF OpenAndSeek, SeekTarget, TypeOK, Phases
  <2>2. \A i \in 1 .. Len(served) : served[i].to <= offset
    <3>1. served \in Seq(Pieces) /\ offset \in Nat /\ readEnd \in Nat /\ readEnd <= offset
          BY <1>0, <1>6 DEF OpenAndSeek, IInv, TypeOK
    <3>2. \A i \in 1 .. Len(served) : served[i].to <= readEnd
          BY <1>6 DEF OpenAndSeek, IInv
    <3> QED
        BY <3>1, <3>2, PositionsType
  <2> QED
      BY <1>6, <2>1, <2>2 DEF OpenAndSeek, SeekTarget, IInv, InOrder
<1>7. ASSUME Follow PROVE IInv'
  <2>1. PICK q \in 1 .. Len(file) :
             /\ EndsLine(pos, q) /\ pos' = q
             /\ served' = served \/ served' = Append(served, Piece(pos, q))
        BY <1>7 DEF Follow
  <2>2. /\ q \in 0 .. Len(file) /\ pos < q
        /\ Piece(pos, q) \in Pieces
        /\ Piece(pos, q).from = pos + 1 /\ Piece(pos, q).to = q
        BY <1>0, <2>1, ReadsForward
  <2>3. \A i \in 1 .. Len(served) : served[i].to <= pos /\ served[i].to \in Nat /\ served[i].to < pos + 1
    <3>1. pos \in Nat /\ served \in Seq(Pieces)
          BY <1>0 DEF TypeOK
    <3>2. \A i \in 1 .. Len(served) : served[i].to <= pos
          BY <1>7 DEF Follow, IInv
    <3> QED
        BY <3>1, <3>2, PositionsType
  <2>4. lines = <<>> /\ lines' = lines /\ phase' = phase /\ phase = "follow"
        BY <1>7 DEF Follow, IInv
  <2>7. /\ pos \in Nat /\ q \in Nat /\ served \in Seq(Pieces)
        /\ \A i \in 1 .. Len(served) : served[i].to <= q
    <3>1. pos \in Nat /\ q \in Nat /\ served \in Seq(Pieces)
          BY <1>0 DEF TypeOK
    <3> QED
        BY <2>2, <2>3, <3>1, BoundGrows
  <2>5. CASE served' = served
    <3>1. TypeOK'
          BY <1>0, <1>7, <2>1, <2>2, <2>5 DEF Follow, TypeOK
    <3>2. \A i \in 1 .. Len(served') : served'[i].to <= pos'
          BY <2>1, <2>5, <2>7
    <3> QED
        BY <2>4, <2>5, <3>1, <3>2 DEF IInv, InOrder
  <2>6. CASE served' = Append(served, Piece(pos, q))
    <3>1. /\ served' \in Seq(Pieces) /\ InOrder(served') /\ Len(served') = Len(served) + 1
          /\ \A i \in 1 .. Len(served) : served'[i] = served[i]
          /\ served'[Len(served) + 1] = Piece(pos, q)
      <4>1. Piece(pos, q).from <= Piece(pos, q).to
            BY <2>2, <2>7
      <4>2. \A i \in 1 .. Len(served) : served[i].to < Piece(pos, q).from
            BY <2>2, <2>3
      <4>3. InOrder(served)
            BY DEF IInv
      <4> QED
          BY <2>2, <2>6, <2>7, <4>1, <4>2, <4>3, AppendInOrder
    <3>2. TypeOK'
          BY <1>0, <1>7, <2>1, <2>2, <3>1 DEF Follow, TypeOK
    <3>3. \A i \in 1 .. Len(served') : served'[i].to <= pos'
      <4>1. Piece(pos, q).to <= q
            BY <2>2, <2>7
      <4>2. \A i \in 1 .. Len(served') : served'[i].to <= q
            BY <2>7, <3>1, <4>1, AppendBounded
      <4> QED
          BY <2>1, <4>2
    <3> QED
        BY <2>4, <3>1, <3>2, <3>3 DEF IInv, InOrder
  <2> QED
      BY <2>1, <2>5, <2>6
<1>8. ASSUME End PROVE IInv'
  <2>1. TypeOK'
        BY <1>0, <1>8 DEF End, TypeOK, Phases
  <2> QED
      BY <1>8, <2>1 DEF End, IInv, InOrder
<1>9. CASE UNCHANGED vars
      BY <1>9 DEF vars, IInv, TypeOK, InOrder
<1> QED
    BY <1>1, <1>2, <1>3, <1>4, <1>5, <1>6, <1>7, <1>8, <1>9 DEF Next

\* What is served, what waits to be served and what the reader will read follow
\* each other in the file, at every step of tail and of its stream.
THEOREM InductiveInvariant == Spec => []IInv
<1>1. Init => IInv
      BY InitIInv
<1>2. IInv /\ [Next]_vars => IInv'
      BY NextIInv
<1> QED
    BY <1>1, <1>2, PTL DEF Spec

\* tail serves no byte of the log twice or out of order.
THEOREM ServedInOrderCorrect == Spec => []ServedInOrder
<1>1. IInv => ServedInOrder
      BY DEF IInv, ServedInOrder
<1> QED
    BY <1>1, InductiveInvariant, PTL

----------------------------------------------------------------------------
(* OnlyGap.  Its invariant follows a byte from the first reader's lines,   *)
(* over the lines waiting to be served, to what is served.                 *)

\* Byte k is in a line that waits to be served.
Waiting(k) == \E j \in 1 .. Len(lines) : lines[j].from <= k /\ k <= lines[j].to

\* Byte k is not before the first byte that is served or, if there is none yet, that
\* will be.
InHistory(k) ==
    \/ served # <<>> /\ k >= served[1].from
    \/ served = <<>> /\ lines # <<>> /\ k >= lines[1].from

\* While the first reader reads, it keeps every byte; then what is left of the history
\* has no hole; then only what was written before the stat is missing.
GapInv ==
    /\ phase = "read" => \A k \in 1 .. pos : Waiting(k)
    /\ phase \in {"stat", "history"} => \A k \in 1 .. readEnd : InHistory(k) => Served(k) \/ Waiting(k)
    /\ OnlyGap

\* A byte in a piece of an ordered sequence is in a piece of its last lines, unless it
\* is before all of them.
LEMMA LastLinesCover ==
    ASSUME NEW seq \in Seq(Pieces), InOrder(seq), NEW k \in Nat,
           NEW i \in 1 .. Len(seq), seq[i].from <= k, k <= seq[i].to,
           LastLines(seq) # <<>>, k >= LastLines(seq)[1].from
    PROVE  \E j \in 1 .. Len(LastLines(seq)) :
               LastLines(seq)[j].from <= k /\ k <= LastLines(seq)[j].to
<1> DEFINE skip == IF Len(seq) > TailLines THEN Len(seq) - TailLines ELSE 0
           last == SubSeq(seq, skip + 1, Len(seq))
<1>1. skip \in 0 .. Len(seq)
      BY TailAssumption
<1>2. /\ last \in Seq(Pieces)
      /\ Len(last) = Len(seq) - skip
      /\ \A j \in 1 .. Len(last) : last[j] = seq[skip + j]
      BY <1>1
<1>3. LastLines(seq) = last
      BY DEF LastLines
<1> HIDE DEF skip, last
<1>4. Len(last) \in Nat \ {0} /\ 1 \in 1 .. Len(last) /\ last[1] = seq[skip + 1]
  <2>1. last # <<>>
        BY <1>3
  <2> QED
      BY <1>2, <2>1
<1>5. skip + 1 \in 1 .. Len(seq) /\ Len(seq) \in Nat
      BY <1>1, <1>2, <1>4
<1>6. i > skip
  <2>1. SUFFICES ASSUME ~(i > skip) PROVE FALSE
        OBVIOUS
  <2>2. i < skip + 1
        BY <1>1, <2>1
  <2>3. seq[i].to < seq[skip + 1].from
        BY <1>5, <2>2 DEF InOrder
  <2>4. seq[skip + 1].from <= k
        BY <1>3, <1>4
  <2>5. seq[i].to \in Nat /\ seq[skip + 1].from \in Nat
        BY <1>5, PositionsType
  <2> QED
      BY <2>3, <2>4, <2>5
<1>7. i - skip \in 1 .. Len(last) /\ last[i - skip] = seq[i]
  <2>1. i - skip \in 1 .. Len(last) /\ skip + (i - skip) = i
        BY <1>1, <1>2, <1>5, <1>6
  <2> QED
      BY <1>2, <2>1
<1> QED
    BY <1>3, <1>7

\* The first reader: a line is kept with all its bytes.
LEMMA ReadLineGap ==
    ASSUME IInv, GapInv, ReadLine
    PROVE  GapInv'
<1>0. /\ phase = "read" /\ phase' = phase /\ file' = file /\ served' = served
      /\ pos \in Nat /\ lines \in Seq(Pieces)
      BY DEF ReadLine, IInv, TypeOK
<1>1. PICK q \in 1 .. Len(file) :
           EndsLine(pos, q) /\ lines' = Append(lines, Piece(pos, q)) /\ pos' = q
      BY DEF ReadLine
<1>2. /\ pos < q /\ Piece(pos, q) \in Pieces
      /\ Piece(pos, q).from = pos + 1 /\ Piece(pos, q).to = q
      BY <1>1, ReadsForward DEF IInv
<1>3. /\ Len(lines') = Len(lines) + 1 /\ Len(lines) \in Nat
      /\ \A i \in 1 .. Len(lines) : i \in 1 .. Len(lines') /\ lines'[i] = lines[i]
      /\ Len(lines) + 1 \in 1 .. Len(lines') /\ lines'[Len(lines) + 1] = Piece(pos, q)
      BY <1>0, <1>1, <1>2
<1>4. ASSUME NEW k \in 1 .. q PROVE Waiting(k)'
  <2>1. CASE k <= pos
    <3>1. Waiting(k)
          BY <1>0, <2>1 DEF GapInv
    <3> QED
        BY <1>3, <3>1 DEF Waiting
  <2>2. CASE pos < k
    <3>1. pos + 1 <= k /\ k <= q
          BY <1>0, <2>2
    <3> QED
        BY <1>2, <1>3, <3>1 DEF Waiting
  <2> QED
      BY <1>0, <2>1, <2>2
<1> QED
    BY <1>0, <1>1, <1>4 DEF GapInv, OnlyGap

\* The end of the file: the last lines have every byte from their first on.
LEMMA ReadEndGap ==
    ASSUME IInv, GapInv, ReadEnd
    PROVE  GapInv'
<1>0. /\ phase = "read" /\ phase' = "stat" /\ served' = served /\ served = <<>>
      /\ pos \in Nat /\ readEnd' = pos /\ lines' = LastLines(lines)
      /\ lines \in Seq(Pieces) /\ InOrder(lines)
      BY DEF ReadEnd, IInv, TypeOK
<1>1. ASSUME NEW k \in 1 .. pos, InHistory(k)' PROVE Waiting(k)'
  <2>1. lines' # <<>> /\ k >= lines'[1].from
        BY <1>0, <1>1 DEF InHistory
  <2>2. PICK i \in 1 .. Len(lines) : lines[i].from <= k /\ k <= lines[i].to
        BY <1>0 DEF GapInv, Waiting
  <2> QED
      BY <1>0, <2>1, <2>2, LastLinesCover DEF Waiting
<1> QED
    BY <1>0, <1>1 DEF GapInv, OnlyGap

\* A line of history is served: its bytes wait no longer.
LEMMA YieldHistoryGap ==
    ASSUME IInv, GapInv, YieldHistory
    PROVE  GapInv'
<1>0. /\ phase = "history" /\ phase' = phase /\ readEnd' = readEnd /\ readEnd \in Nat
      /\ served \in Seq(Pieces) /\ lines \in Seq(Pieces) /\ lines # <<>>
      BY DEF YieldHistory, IInv, TypeOK
<1>1. /\ Len(lines) \in Nat /\ 1 \in 1 .. Len(lines) /\ Head(lines) = lines[1]
      /\ Len(lines') = Len(lines) - 1
      /\ \A j \in 1 .. Len(lines) : j # 1 => j - 1 \in 1 .. Len(lines') /\ lines'[j - 1] = lines[j]
      BY <1>0 DEF YieldHistory
<1>2. /\ Len(served) \in Nat /\ Len(served') = Len(served) + 1 /\ served' # <<>>
      /\ \A i \in 1 .. Len(served) : i \in 1 .. Len(served') /\ served'[i] = served[i]
      /\ Len(served) + 1 \in 1 .. Len(served') /\ served'[Len(served) + 1] = lines[1]
      BY <1>0, <1>1 DEF YieldHistory
<1>3. ASSUME NEW k \in 1 .. readEnd, InHistory(k)' PROVE InHistory(k)
  <2>1. k >= served'[1].from
        BY <1>2, <1>3 DEF InHistory
  <2>2. CASE served = <<>>
        BY <1>0, <1>2, <2>1, <2>2 DEF InHistory
  <2>3. CASE served # <<>>
    <3>1. 1 \in 1 .. Len(served)
          BY <1>0, <2>3
    <3> QED
        BY <1>2, <2>1, <2>3, <3>1 DEF InHistory
  <2> QED
      BY <2>2, <2>3
<1>4. ASSUME NEW k \in 1 .. readEnd, InHistory(k)' PROVE Served(k)' \/ Waiting(k)'
  <2>1. Served(k) \/ Waiting(k)
        BY <1>0, <1>3, <1>4 DEF GapInv
  <2>2. CASE Served(k)
        BY <1>2, <2>2 DEF Served
  <2>3. CASE Waiting(k)
    <3>1. PICK j \in 1 .. Len(lines) : lines[j].from <= k /\ k <= lines[j].to
          BY <2>3 DEF Waiting
    <3>2. CASE j = 1
          BY <1>2, <3>1, <3>2 DEF Served
    <3>3. CASE j # 1
          BY <1>1, <3>1, <3>3 DEF Waiting
    <3> QED
        BY <3>2, <3>3
  <2> QED
      BY <2>1, <2>2, <2>3
<1> QED
    BY <1>0, <1>4 DEF GapInv, OnlyGap

\* The second reader starts at the length taken: the bytes between the two readers are
\* the gap, the bytes before are served.
LEMMA OpenAndSeekGap ==
    ASSUME IInv, GapInv, OpenAndSeek
    PROVE  GapInv'
<1>0. /\ phase = "history" /\ phase' = "follow" /\ pos' = offset /\ lines = <<>>
      /\ readEnd \in Nat /\ offset \in Nat
      /\ UNCHANGED <<file, lines, offset, served, readEnd>>
      BY DEF OpenAndSeek, SeekTarget, IInv, TypeOK
<1>1. ASSUME NEW k \in 1 .. offset, served # <<>>, k >= served[1].from
      PROVE  Served(k) \/ (readEnd < k /\ k <= offset)
  <2>1. CASE k <= readEnd
    <3>1. Served(k) \/ Waiting(k)
          BY <1>0, <1>1, <2>1 DEF GapInv, InHistory
    <3> QED
        BY <1>0, <3>1 DEF Waiting
  <2> QED
      BY <1>0, <2>1
<1>2. \A k : Served(k)' <=> Served(k)
      BY <1>0 DEF Served
<1> QED
    BY <1>0, <1>1, <1>2 DEF GapInv, OnlyGap

\* A read of the second reader passes over no text that it does not serve.
LEMMA FollowGap ==
    ASSUME IInv, GapInv, Follow
    PROVE  GapInv'
<1>0. /\ phase = "follow" /\ phase' = phase /\ pos \in Nat /\ served \in Seq(Pieces)
      /\ UNCHANGED <<file, lines, offset, readEnd>>
      BY DEF Follow, IInv, TypeOK
<1>1. PICK q \in 1 .. Len(file) :
           /\ EndsLine(pos, q) /\ pos' = q
           /\ served' = IF Yields(Piece(pos, q)) THEN Append(served, Piece(pos, q)) ELSE served
      BY DEF Follow
<1>2. /\ pos < q /\ Piece(pos, q) \in Pieces
      /\ Piece(pos, q).from = pos + 1 /\ Piece(pos, q).to = q
      BY <1>1, ReadsForward DEF IInv
<1>3. SUFFICES ASSUME NEW k \in 1 .. q, file[k] = "text", served' # <<>>, k >= served'[1].from
               PROVE  Served(k)' \/ (readEnd < k /\ k <= offset)
      BY <1>0, <1>1 DEF GapInv, OnlyGap
<1>4. CASE ~Yields(Piece(pos, q))
  <2>1. served' = served /\ pos + 1 = q /\ file[q] = "newline"
        BY <1>1, <1>2, <1>4 DEF Yields, Blank
  <2>2. k # q
        BY <1>3, <2>1
  <2>3. k \in 1 .. pos
        BY <1>0, <2>1, <2>2
  <2>4. Served(k) \/ (readEnd < k /\ k <= offset)
        BY <1>0, <1>3, <2>1, <2>3 DEF GapInv, OnlyGap
  <2> QED
      BY <2>1, <2>4 DEF Served
<1>5. CASE Yields(Piece(pos, q))
  <2>1. /\ Len(served) \in Nat /\ Len(served') = Len(served) + 1
        /\ \A i \in 1 .. Len(served) : i \in 1 .. Len(served') /\ served'[i] = served[i]
        /\ Len(served) + 1 \in 1 .. Len(served') /\ served'[Len(served) + 1] = Piece(pos, q)
        BY <1>0, <1>1, <1>2, <1>5
  <2>2. CASE pos < k
    <3>1. pos + 1 <= k /\ k <= q
          BY <1>0, <2>2
    <3> QED
        BY <1>2, <2>1, <3>1 DEF Served
  <2>3. CASE k <= pos
    <3>1. k \in 1 .. pos
          BY <1>0, <2>3
    <3>2. served # <<>>
      <4>1. SUFFICES ASSUME served = <<>> PROVE FALSE
            OBVIOUS
      <4>2. served'[1].from = pos + 1
            BY <1>2, <2>1, <4>1
      <4> QED
          BY <1>0, <1>3, <2>3, <4>2
    <3>3. k >= served[1].from
      <4>1. 1 \in 1 .. Len(served)
            BY <1>0, <3>2
      <4> QED
          BY <1>3, <2>1, <4>1
    <3>4. Served(k) \/ (readEnd < k /\ k <= offset)
          BY <1>0, <1>3, <3>1, <3>2, <3>3 DEF GapInv, OnlyGap
    <3> QED
        BY <2>1, <3>4 DEF Served
  <2> QED
      BY <1>0, <2>2, <2>3
<1> QED
    BY <1>4, <1>5

\* A write past the readers, or no step at all, changes nothing for the bytes read.
LEMMA GapKept ==
    ASSUME GapInv, pos \in Nat, readEnd \in Nat,
           UNCHANGED <<phase, pos, lines, offset, served, readEnd>>,
           \A k \in 1 .. pos : file'[k] = file[k]
    PROVE  GapInv'
<1>1. ASSUME phase = "read", NEW k \in 1 .. pos PROVE Waiting(k)'
  <2>1. Waiting(k)
        BY <1>1 DEF GapInv
  <2> QED
      BY <2>1 DEF Waiting
<1>2. ASSUME phase \in {"stat", "history"}, NEW k \in 1 .. readEnd, InHistory(k)'
      PROVE  Served(k)' \/ Waiting(k)'
  <2>1. InHistory(k) => Served(k) \/ Waiting(k)
        BY <1>2 DEF GapInv
  <2> QED
      BY <1>2, <2>1 DEF InHistory, Served, Waiting
<1>3. ASSUME phase = "follow", NEW k \in 1 .. pos,
             file'[k] = "text", served # <<>>, k >= served[1].from
      PROVE  Served(k)' \/ (readEnd < k /\ k <= offset)
  <2>1. Served(k) \/ (readEnd < k /\ k <= offset)
        BY <1>3 DEF GapInv, OnlyGap
  <2> QED
      BY <2>1 DEF Served
<1> QED
    BY <1>1, <1>2, <1>3 DEF GapInv, OnlyGap

\* A follower misses no text but what was written between the first reader's end of file
\* and the stat (log_tailer.rs, tail).
THEOREM OnlyGapCorrect == Spec => []OnlyGap
<1>1. Init => GapInv
      BY DEF Init, GapInv, OnlyGap
<1>2. ASSUME IInv, GapInv, [Next]_vars PROVE GapInv'
  <2>0. pos \in Nat /\ readEnd \in Nat
        BY <1>2 DEF IInv, TypeOK
  <2>1. ASSUME NEW b \in Bytes, Write(b) PROVE GapInv'
    <3>1. UNCHANGED <<phase, pos, lines, offset, served, readEnd>>
          BY <2>1 DEF Write
    <3>2. \A k \in 1 .. pos : file'[k] = file[k]
      <4>1. file \in Seq(Bytes) /\ pos \in Nat /\ pos <= Len(file) /\ file' = Append(file, b)
            BY <1>2, <2>1 DEF Write, IInv, TypeOK
      <4> QED
          BY <4>1
    <3> QED
        BY <1>2, <2>0, <3>1, <3>2, GapKept
  <2>2. CASE Stat
    <3>1. phase = "stat" /\ phase' = "history" /\ UNCHANGED <<lines, served, readEnd>>
          BY <2>2 DEF Stat
    <3>2. ASSUME NEW k \in 1 .. readEnd, InHistory(k)' PROVE Served(k)' \/ Waiting(k)'
      <4>1. InHistory(k) => Served(k) \/ Waiting(k)
            BY <1>2, <3>1 DEF GapInv
      <4> QED
          BY <3>1, <3>2, <4>1 DEF InHistory, Served, Waiting
    <3> QED
        BY <3>1, <3>2 DEF GapInv, OnlyGap
  <2>3. CASE End
        BY <2>3 DEF End, GapInv, OnlyGap
  <2>4. CASE UNCHANGED vars
        BY <1>2, <2>0, <2>4, GapKept DEF vars
  <2> QED
      BY <1>2, <2>1, <2>2, <2>3, <2>4, ReadLineGap, ReadEndGap, YieldHistoryGap, OpenAndSeekGap,
         FollowGap DEF Next
<1>3. GapInv => OnlyGap
      BY DEF GapInv
<1> QED
    BY <1>1, <1>2, <1>3, InductiveInvariant, PTL DEF Spec

=============================================================================
