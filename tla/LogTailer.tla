----------------------------- MODULE LogTailer -----------------------------
(***************************************************************************)
(* LogTailer::tail (adapters/runtime/log_tailer.rs) against a container    *)
(* that keeps writing: read the file to its end, take its length, serve    *)
(* the last lines of what was read, then follow the file from that length. *)
(* Each of these is an await, and the container may write in between; it   *)
(* may also write part of a line.                                          *)
(*                                                                         *)
(* The file is a sequence of bytes, of which only "newline" is told apart  *)
(* from the others.  What is read or served is a piece of the file, given  *)
(* by the positions of its first and last byte.                            *)
(***************************************************************************)
EXTENDS Naturals, Sequences

CONSTANTS
    TailLines, \* lines of history asked for (100 unless the caller says)
    MaxBytes   \* bound: how much the container writes

Bytes  == {"text", "newline"}
Pieces == [from : Nat, to : Nat]
Phases == {"read", "stat", "history", "follow", "ended"}

ASSUME TailAssumption == TailLines \in Nat /\ MaxBytes \in Nat

VARIABLES
    file,     \* what the container has written
    phase,    \* where the call, and then its stream, stands
    pos,      \* bytes the open reader has consumed
    lines,    \* lines read and not served yet
    offset,   \* byte_offset
    served,   \* what the stream has yielded so far
    \* history
    readEnd   \* pos when the first reader met the end of the file

vars == <<file, phase, pos, lines, offset, served, readEnd>>

----------------------------------------------------------------------------
\* Slip: a reader that waits for the whole line.
EndsWholeLine(p, q) ==
    /\ q \in (p + 1) .. Len(file)
    /\ file[q] = "newline" /\ \A k \in (p + 1) .. (q - 1) : file[k] # "newline"

\* read_line, next_line: from byte p + 1 to the next newline or, if there is
\* none yet, to the end of the file.
EndsLine(p, q) ==
    /\ q \in (p + 1) .. Len(file)
    /\ \A k \in (p + 1) .. (q - 1) : file[k] # "newline"
    /\ file[q] = "newline" \/ q = Len(file)

Piece(p, q) == [from |-> p + 1, to |-> q]

\* A line with nothing before its newline.
Blank(piece) == piece.from = piece.to /\ file[piece.from] = "newline"

\* existing.len().saturating_sub(n), skip
LastLines(seq) ==
    LET skip == IF Len(seq) > TailLines THEN Len(seq) - TailLines ELSE 0
    IN  SubSeq(seq, skip + 1, Len(seq))

\* The container writes one more byte.
Write(b) ==
    /\ Len(file) < MaxBytes
    /\ file' = Append(file, b)
    /\ UNCHANGED <<phase, pos, lines, offset, served, readEnd>>

\* read_all_inner: the next line.
ReadLine ==
    /\ phase = "read"
    /\ \E q \in 1 .. Len(file) :
          /\ EndsLine(pos, q)
          /\ lines' = Append(lines, Piece(pos, q))
          /\ pos' = q
    /\ UNCHANGED <<file, phase, offset, served, readEnd>>

\* read_all_inner meets the end of the file; the last lines are kept.
ReadEnd ==
    /\ phase = "read" /\ pos = Len(file)
    /\ phase'   = "stat"
    /\ lines'   = LastLines(lines)
    /\ readEnd' = pos
    /\ UNCHANGED <<file, pos, offset, served>>

\* metadata(path).len()
Stat ==
    /\ phase = "stat"
    /\ phase'  = "history"
    /\ offset' = Len(file)
    /\ UNCHANGED <<file, pos, lines, served, readEnd>>

\* The stream yields a line of history.
YieldHistory ==
    /\ phase = "history" /\ lines # <<>>
    /\ served' = Append(served, Head(lines))
    /\ lines'  = Tail(lines)
    /\ UNCHANGED <<file, phase, pos, offset, readEnd>>

\* Slip: a new reader that is not moved.
StartOfFile == 0

\* Where the second reader is moved to.
SeekTarget == offset

\* The history is served: open the file again and seek.
OpenAndSeek ==
    /\ phase = "history" /\ lines = <<>>
    /\ phase' = "follow"
    /\ pos'   = SeekTarget
    /\ UNCHANGED <<file, lines, offset, served, readEnd>>

\* Slip: a line without its newline is read and not yielded.
YieldsWholeLine(piece) == file[piece.to] = "newline" /\ ~Blank(piece)

\* Blank lines are not yielded.
Yields(piece) == ~Blank(piece)

\* read_line in the poll loop.  At the end of the file there is nothing to
\* read: sleep and try again.
Follow ==
    /\ phase = "follow"
    /\ \E q \in 1 .. Len(file) :
          /\ EndsLine(pos, q)
          /\ served' = IF Yields(Piece(pos, q)) THEN Append(served, Piece(pos, q)) ELSE served
          /\ pos' = q
    /\ UNCHANGED <<file, phase, lines, offset, readEnd>>

\* An I/O error ends the call or the stream, or the client goes away.
End ==
    /\ phase # "ended"
    /\ phase' = "ended"
    /\ UNCHANGED <<file, pos, lines, offset, served, readEnd>>

\* The container has written something when tail is called.
Init ==
    /\ file \in UNION {[1 .. n -> Bytes] : n \in 0 .. MaxBytes}
    /\ phase = "read"
    /\ pos = 0 /\ lines = <<>> /\ offset = 0 /\ served = <<>> /\ readEnd = 0

Next ==
    \/ \E b \in Bytes : Write(b)
    \/ ReadLine \/ ReadEnd \/ Stat \/ YieldHistory \/ OpenAndSeek \/ Follow \/ End

Spec == Init /\ [][Next]_vars

\* The client polls the stream, and the poll loop goes round every 250 ms.
FairSpec == Spec /\ WF_vars(ReadLine \/ ReadEnd \/ Stat \/ YieldHistory \/ OpenAndSeek \/ Follow)

----------------------------------------------------------------------------
(* Properties *)

\* Every variable has its type; no position is past the end of the file.
TypeOK ==
    /\ file \in Seq(Bytes)
    /\ phase \in Phases
    /\ pos \in 0 .. Len(file) /\ offset \in 0 .. Len(file) /\ readEnd \in 0 .. Len(file)
    /\ lines \in Seq(Pieces) /\ served \in Seq(Pieces)

\* Pieces of the file in the order of the file, none overlapping another.
InOrder(seq) ==
    /\ \A i \in 1 .. Len(seq) : seq[i].from <= seq[i].to
    /\ \A i, j \in 1 .. Len(seq) : i < j => seq[i].to < seq[j].from

\* No byte is served twice or out of order, however the container's writes fall
\* between the reads, the stat and the seek of the two readers.
ServedInOrder == InOrder(served)

Served(k) == \E i \in 1 .. Len(served) : served[i].from <= k /\ k <= served[i].to

\* The only text a follower misses, once its stream has begun, is what the
\* container wrote after the first reader met the end of the file and before
\* the length was taken: everything else from the first byte served on to the
\* reader's position has been served.
OnlyGap ==
    phase = "follow" =>
        \A k \in 1 .. pos :
            /\ file[k] = "text"
            /\ served # <<>> /\ k >= served[1].from
            => Served(k) \/ (readEnd < k /\ k <= offset)

\* A follower gets every byte of text written after the length was taken, a
\* line not finished yet included, unless the stream ends.
FollowerCatchesUp ==
    \A k \in 1 .. MaxBytes :
        (phase = "follow" /\ k \in (offset + 1) .. Len(file) /\ file[k] = "text")
            ~> (phase = "ended" \/ Served(k))

\* The inductive invariant of ServedInOrder: what is served, what is waiting to
\* be served and what the open reader will read follow each other in the file.
IInv ==
    /\ TypeOK
    /\ InOrder(served) /\ InOrder(lines)
    /\ \A i \in 1 .. Len(served), j \in 1 .. Len(lines) : served[i].to < lines[j].from
    /\ phase \in {"read", "stat"} => served = <<>>
    /\ phase = "read" => \A j \in 1 .. Len(lines) : lines[j].to <= pos
    /\ phase \in {"stat", "history"} => \A j \in 1 .. Len(lines) : lines[j].to <= readEnd
    /\ phase = "history" => readEnd <= offset /\ \A i \in 1 .. Len(served) : served[i].to <= readEnd
    /\ phase = "follow" => lines = <<>> /\ \A i \in 1 .. Len(served) : served[i].to <= pos

=============================================================================
