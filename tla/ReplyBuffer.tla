----------------------------- MODULE ReplyBuffer -----------------------------
(***************************************************************************)
(* The replies to one message (ReplyBuffer, ellidri-tokens/src/buffers.rs) *)
(* with the label of the message and the batch of a labelled response.  A  *)
(* message in the buffer keeps its kind and its label and batch tags; the  *)
(* label itself is kept apart from the buffer by the code (a thread-local) *)
(* and is opaque.                                                          *)
(***************************************************************************)
EXTENDS Integers, Sequences

CONSTANT NoBatch  \* Option::None

ASSUME BatchAssumption == NoBatch \notin Int

ReplyBuffer_new(has_label) == [buf |-> <<>>, batch |-> NoBatch, has_label |-> has_label]

\* Mutant: the label stays for the next message.
tagged_message_again(rb, kind) ==
    [rb EXCEPT !.buf = Append(@, [kind |-> kind, label |-> rb.has_label, batch |-> rb.batch])]

\* tagged_message, and message, prefixed_message and reply, which call it.
tagged_message(rb, kind) ==
    [rb EXCEPT !.buf = Append(@, [kind |-> kind, label |-> rb.has_label, batch |-> rb.batch]),
               !.has_label = FALSE]

new_batch(rb) == [rb EXCEPT !.batch = IF @ = NoBatch THEN 0 ELSE @ + 1]

\* Mutant: every call opens a batch.
lr_batch_begin_again(rb) ==
    [new_batch(rb) EXCEPT
        !.buf = Append(@, [kind |-> "BATCH+", label |-> rb.has_label, batch |-> NoBatch]),
        !.has_label = FALSE]

\* The first call opens a batch that carries the label, if no reply has used it.
lr_batch_begin(rb) ==
    IF rb.has_label
    THEN [new_batch(rb) EXCEPT
             !.buf = Append(@, [kind |-> "BATCH+", label |-> TRUE, batch |-> NoBatch]),
             !.has_label = FALSE]
    ELSE rb

\* The batch is left before the message that ends it is written.
batch_end(rb) ==
    IF rb.batch = NoBatch THEN rb
    ELSE tagged_message([rb EXCEPT !.batch = IF @ = 0 THEN NoBatch ELSE @ - 1], "BATCH-")

\* lr_end panics when ending one batch leaves another open.
lr_end_panics(rb) == batch_end(rb).batch # NoBatch

lr_end(rb) ==
    IF ~rb.has_label /\ rb.batch = NoBatch THEN rb
    ELSE LET ended == batch_end(rb)
         IN  [(IF ended.buf = <<>> THEN tagged_message(ended, "ACK") ELSE ended)
                 EXCEPT !.has_label = FALSE]

=============================================================================
