------------------------------ MODULE IrcReader ------------------------------
(***************************************************************************)
(* The line reader (src/ellidri-reader/src/lib.rs) over a stream of bytes  *)
(* that arrives in pieces.  A byte is one of CR, LF, "@", "x" (any other)  *)
(* and "z" (one that makes its line invalid UTF-8).  One step is one turn  *)
(* of the loop of read_line, which takes what the BufReader has, or fills  *)
(* it with what has arrived.                                               *)
(***************************************************************************)
EXTENDS Integers, Sequences, SequencesExt

CONSTANTS MessageMax,    \* IrcReader::message_max
          MaxTagLength, MaxReadPerMessage,
          BufferSize     \* capacity of the BufReader

ASSUME ReaderAssumption ==
    /\ MessageMax \in Nat \ {0} /\ MaxTagLength \in Nat
    /\ MaxReadPerMessage \in Nat \ {0} /\ BufferSize \in Nat \ {0}

Byte == {"CR", "LF", "@", "x", "z"}
Ends == {"CR", "LF"}

VARIABLES wire,       \* bytes sent and not yet read
          closed,     \* the peer will send nothing more
          available,  \* bytes in the BufReader
          bytes,      \* the line so far
          n           \* ReadInfo

readerVars == <<wire, closed, available, bytes, n>>

NewRead == [read |-> 0, limit |-> 0, count |-> 0]

\* The limit that the first byte of a line sets.
Limit(b) == MessageMax + IF b = "@" THEN MaxTagLength ELSE 0

Abuse   == n.count >= MaxReadPerMessage

\* Mutant: one byte too many.
TooLongByOne == 0 < n.limit /\ n.limit < n.read

TooLong == 0 < n.limit /\ n.limit <= n.read

\* Mutant: a read waits until the buffer is full or the peer closes.
FillWhole == IF available # <<>> THEN {available}
             ELSE IF Len(wire) >= BufferSize THEN {SubSeq(wire, 1, BufferSize)}
             ELSE IF closed THEN {wire} ELSE {}

\* What poll_fill_buf may return: the buffer if it is not empty, else any part of what was
\* sent (it waits if there is none), else nothing at the end of the stream.
Fill == IF available # <<>> THEN {available}
        ELSE IF wire # <<>> THEN {SubSeq(wire, 1, k) : k \in 1 .. Min({BufferSize, Len(wire)})}
        ELSE IF closed THEN {<<>>} ELSE {}

\* The index of the first CR or LF (memchr2), or 0.
FirstEnd(s) == SelectInSeq(s, LAMBDA b : b \in Ends)

\* Mutant: everything up to the end of a CR LF pair is dropped, whatever follows the CR.
Used2(s) == IF FirstEnd(s) = 0 THEN Len(s) ELSE Min({FirstEnd(s) + 1, Len(s)})

\* How much of the buffer a turn consumes: a line end and the LF that follows it.
Used(s) ==
    LET i == FirstEnd(s)
    IN  IF i = 0 THEN Len(s) ELSE IF i < Len(s) /\ s[i + 1] = "LF" THEN i + 1 ELSE i

\* Mutant: the limit depends on the last byte that was buffered.
LimitOfLast(s) == IF n.limit = 0 /\ s # <<>> THEN Limit(Last(s)) ELSE n.limit

LimitOf(s) == IF n.limit = 0 /\ s # <<>> THEN Limit(s[1]) ELSE n.limit

\* The line is read, or the stream has ended.
Done(s) == FirstEnd(s) # 0 \/ s = <<>>

\* One turn of read_line with s in the buffer.  A line that is read ends the call: its
\* bytes are in bytes' and its length, with what was skipped, in n'.read.
read_line(s) ==
    /\ ~Abuse /\ ~TooLong
    /\ s \in Fill
    /\ wire' = IF available = <<>> THEN SubSeq(wire, Len(s) + 1, Len(wire)) ELSE wire
    /\ available' = SubSeq(s, Used(s) + 1, Len(s))
    /\ bytes' = bytes \o (IF FirstEnd(s) = 0 THEN s ELSE SubSeq(s, 1, FirstEnd(s)))
    /\ n' = [read  |-> n.read + Used(s),
             limit |-> LimitOf(s),
             count |-> n.count + IF Done(s) THEN 0 ELSE 1]
    /\ UNCHANGED closed

Utf8(line) == \A i \in DOMAIN line : line[i] # "z"

\* The next call of read_message starts a line.
next_line == bytes' = <<>> /\ n' = NewRead

\* What one more byte does to <<the lines that have ended, the line that is open>>.
Advance(lines, b) ==
    IF b \notin Ends THEN <<lines[1], Append(lines[2], b)>>
    ELSE IF lines[2] = <<>> THEN lines
    ELSE <<Append(lines[1], lines[2]), <<>>>>

\* The same, of every prefix of a stream.
LinesUpTo(s) ==
    LET lines[i \in 0 .. Len(s)] ==
          IF i = 0 THEN << <<>>, <<>> >> ELSE Advance(lines[i - 1], s[i])
    IN  lines

\* The lines of a stream: what its line ends separate, without empty ones.
LinesOf(s) ==
    LET whole == LinesUpTo(s)[Len(s)]
    IN  IF whole[2] = <<>> THEN whole[1] ELSE Append(whole[1], whole[2])

=============================================================================
