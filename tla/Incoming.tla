------------------------------ MODULE Incoming ------------------------------
(***************************************************************************)
(* The reading branch of a connection (`incoming` in src/src/net.rs): the  *)
(* line reader, the handling of a line with its replies, and the rate      *)
(* limiter that makes the reader wait.  What a handler does is any         *)
(* sequence of the calls that handlers make on their ReplyBuffer; Network  *)
(* has what they do to the shared state.                                   *)
(***************************************************************************)
EXTENDS IrcReader, ReplyBuffer, RateLimit

CONSTANTS Streams,     \* what a peer may send
          MaxReplies   \* bound on the messages of one handler

ASSUME OnePoint == 1 \in Points

ASSUME StreamsAssumption == Streams \subseteq Seq(Byte)

VARIABLES phase,     \* "read", "handle", "send" or "ended"
          rb,        \* the ReplyBuffer of the line being handled
          labelled,  \* that line has a label
          stream,    \* history: what the peer sends on this connection
          handled    \* history: the lines handled so far, without line ends

branchVars == <<phase, rb, labelled, stream, handled>>
inVars == <<readerVars, rateVars, branchVars>>

\* A line without its line end, of which read_line leaves one byte.
Content(line) == IF line # <<>> /\ Last(line) \in Ends THEN Front(line) ELSE line

NoReplies == ReplyBuffer_new(FALSE)

IncomingInit ==
    /\ stream \in Streams
    /\ wire = stream /\ closed = FALSE /\ available = <<>> /\ bytes = <<>> /\ n = NewRead
    /\ RateInit
    /\ phase = "read" /\ rb = NoReplies /\ labelled = FALSE /\ handled = <<>>

peer_close ==
    /\ phase # "ended" /\ wire = <<>> /\ ~closed
    /\ closed' = TRUE
    /\ UNCHANGED <<wire, available, bytes, n, rateVars, branchVars>>

\* A part of a line.
read_part ==
    /\ phase = "read" /\ Awake
    /\ \E s \in Fill : ~Done(s) /\ read_line(s)
    /\ UNCHANGED <<rateVars, branchVars>>

\* A line, which may have a label if it has tags, or what is left at the end of the stream.
read_message ==
    /\ phase = "read" /\ Awake
    /\ \E s \in Fill : Done(s) /\ read_line(s)
    /\ Utf8(bytes') /\ n'.read # 0
    /\ phase' = "handle"
    /\ labelled' \in IF IsPrefix(<<"@">>, bytes') THEN BOOLEAN ELSE {FALSE}
    /\ rb' = ReplyBuffer_new(labelled')
    /\ handled' = IF Content(bytes') = <<>> THEN handled ELSE Append(handled, Content(bytes'))
    /\ UNCHANGED <<rateVars, stream>>

\* A line that is not UTF-8, and the end of the stream, end the branch.
read_fails ==
    /\ phase = "read" /\ Awake
    /\ \E s \in Fill : Done(s) /\ read_line(s)
    /\ ~Utf8(bytes') \/ n'.read = 0
    /\ phase' = "ended"
    /\ UNCHANGED <<rateVars, rb, labelled, stream, handled>>

\* Too many reads for a line, or too long a line, end it too.
read_refused ==
    /\ phase = "read" /\ Awake
    /\ Abuse \/ TooLong
    /\ phase' = "ended"
    /\ UNCHANGED <<readerVars, rateVars, rb, labelled, stream, handled>>

\* A line that is no message costs one point; so do blank lines.  A message with too many
\* tags costs some, and its reply is dropped.
handle_nothing(p) ==
    /\ phase = "handle" /\ rb.buf = <<>>
    /\ Content(bytes) = <<>> => p = 1
    /\ charge(p)
    /\ next_line
    /\ phase' = "read" /\ rb' = NoReplies /\ labelled' = FALSE
    /\ UNCHANGED <<wire, closed, available, stream, handled>>

\* A handler writes a reply, or starts the batch of its replies.
handler_reply ==
    /\ phase = "handle" /\ Content(bytes) # <<>> /\ Len(rb.buf) < MaxReplies
    /\ rb' = tagged_message(rb, "reply") \/ rb' = lr_batch_begin(rb)
    /\ UNCHANGED <<readerVars, rateVars, phase, labelled, stream, handled>>

\* The handler is done.  (The replies to a request that is refused before it reaches one
\* are a single message, for which lr_end does nothing.)
handler_end ==
    /\ phase = "handle" /\ Content(bytes) # <<>>
    /\ rb' = lr_end(rb)
    /\ phase' = "send"
    /\ UNCHANGED <<readerVars, rateVars, labelled, stream, handled>>

\* The handler removed the client, which ends the connection.
handler_removes ==
    /\ phase = "handle" /\ Content(bytes) # <<>>
    /\ phase' = "ended" /\ rb' = NoReplies
    /\ UNCHANGED <<readerVars, rateVars, labelled, stream, handled>>

\* The replies are queued and the line is charged for.
send(p) ==
    /\ phase = "send"
    /\ charge(p)
    /\ next_line
    /\ phase' = "read" /\ rb' = NoReplies /\ labelled' = FALSE
    /\ UNCHANGED <<wire, closed, available, stream, handled>>

time_passes == phase = "read" /\ Tick /\ UNCHANGED <<readerVars, branchVars>>

IncomingNext ==
    \/ peer_close \/ time_passes
    \/ read_part \/ read_message \/ read_fails \/ read_refused
    \/ handler_reply \/ handler_end \/ handler_removes
    \/ \E p \in Points : handle_nothing(p) \/ send(p)

\* Fairness: the task runs when it can, a handler returns, and delays end.  Peers need not
\* send or close.
IncomingFairness ==
    /\ WF_inVars(read_part \/ read_message \/ read_fails \/ read_refused)
    /\ WF_inVars(handler_end)
    /\ WF_inVars(\E p \in Points : handle_nothing(p) \/ send(p))
    /\ WF_inVars(time_passes /\ ~Awake)

IncomingSpec == IncomingInit /\ [][IncomingNext]_inVars /\ IncomingFairness

-----------------------------------------------------------------------------
(* Properties *)

\* The state of the reader fits the Rust types, and a line never takes more memory than
\* its limit and one buffer, whatever the peer sends.
ReaderBounded ==
    /\ n.count <= MaxReadPerMessage
    /\ n.read <= MessageMax + MaxTagLength - 1 + BufferSize
    /\ Len(bytes) <= n.read
    /\ Len(available) <= BufferSize

\* However the stream is cut into pieces, the lines handled are the first lines of the
\* stream, whole and in order: a CR and its LF in two reads, a line end at the end of a
\* buffer or the end of the stream neither join, split, lose nor repeat one.
LinesHandledInOrder == IsPrefix(handled, LinesOf(stream))

\* A line is refused for its length only if it is as long as the limit of its own first
\* byte, and for its number of reads only if it came in that many pieces.
RefusedForCause ==
    phase = "read" /\ (Abuse \/ TooLong) =>
        LET line == LinesOf(stream)[Len(handled) + 1]
        IN  /\ IsPrefix(bytes, line)
            /\ Len(line) >= IF TooLong THEN Limit(line[1]) ELSE MaxReadPerMessage

\* The replies to a labelled message, whatever calls the handler made: the label is on the
\* first message and nowhere else (an ACK if there is no reply), a batch that it opened
\* encloses all the others and is closed by the last; without a label there is neither.
\* lr_end never finds a second batch open, which would panic and take the task down.
LabelledResponse ==
    /\ phase = "handle" => ~lr_end_panics(rb)
    /\ phase = "send" =>
        LET buf == rb.buf
        IN  /\ \A i \in DOMAIN buf : buf[i].label <=> labelled /\ i = 1
            /\ labelled => buf # <<>>
            /\ \A i \in DOMAIN buf :
                  LET inside == buf[1].kind = "BATCH+" /\ 1 < i /\ i < Len(buf)
                  IN  /\ buf[i].batch = IF inside THEN 0 ELSE NoBatch
                      /\ buf[i].kind = "BATCH-" <=> buf[1].kind = "BATCH+" /\ i = Len(buf)

\* Everything the peer sent is read and handled, unless the connection ends: the limiter's
\* waits all end, and no combination of pieces leaves a complete line in the buffers.
InputConsumed ==
    <>[](phase = "ended" \/ (phase = "read" /\ wire = <<>> /\ available = <<>>))

=============================================================================
