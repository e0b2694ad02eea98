------------------------------ MODULE Message ------------------------------
(***************************************************************************)
(* Lines: how they are read (ellidri-tokens/src/message.rs) and written    *)
(* (buffers.rs), and the relaying of PRIVMSG, NOTICE and TAGMSG            *)
(* (message_build, src/src/state/v1.rs).  An Option<&str> that is None or  *)
(* Some("") is <<>> where the code treats the two alike.                   *)
(***************************************************************************)
EXTENDS Strings

CONSTANTS ParamsLength,  \* PARAMS_LENGTH
          NoMessage      \* Option::None

\* It is 15.
ASSUME ParamsAssumption == ParamsLength \in Nat /\ ParamsLength >= 2

-----------------------------------------------------------------------------
(* Reading *)

parse_word(s) ==
    LET halves == split2(s, Space)
        words  == non_empty([i \in DOMAIN halves |-> trim(halves[i])])
    IN  [word |-> IF Len(words) < 1 THEN <<>> ELSE words[1],
         rest |-> IF Len(words) < 2 THEN <<>> ELSE words[2]]

parse_tags(buf) ==
    IF starts_with(buf, "@")
    THEN [parse_word(buf) EXCEPT !.word = Tail(@)]
    ELSE [word |-> <<>>, rest |-> buf]

\* A prefix is <<>> if there is none, else the only element of a sequence.
parse_prefix(buf) ==
    IF starts_with(buf, ":")
    THEN [parse_word(buf) EXCEPT !.word = <<Tail(@)>>]
    ELSE [word |-> <<>>, rest |-> trim_start(buf)]

\* Mutant: a parameter with a colon is the last only if there is room for no other.
next_param_late(st) ==
    IF st.rest = <<>> THEN st
    ELSE IF starts_with(st.rest, ":") /\ Len(st.params) = ParamsLength - 1
    THEN [rest |-> <<>>, params |-> Append(st.params, Tail(st.rest))]
    ELSE [rest |-> parse_word(st.rest).rest, params |-> Append(st.params, parse_word(st.rest).word)]

\* One turn of the loop over the parameters: what is left of the line, and what they are.
next_param(st) ==
    IF st.rest = <<>> THEN st
    ELSE IF starts_with(st.rest, ":")
    THEN [rest |-> <<>>, params |-> Append(st.params, Tail(st.rest))]
    ELSE [rest |-> parse_word(st.rest).rest, params |-> Append(st.params, parse_word(st.rest).word)]

parse_params(buf) ==
    LET after[k \in 0 .. ParamsLength] ==
          IF k = 0 THEN [rest |-> buf, params |-> <<>>] ELSE next_param(after[k - 1])
    IN  after[ParamsLength].params

parse(s) ==
    LET tags    == parse_tags(trim_start(s))
        prefix  == parse_prefix(tags.rest)
        command == parse_word(prefix.rest)
    IN  IF trim_start(s) = <<>> \/ Contains(s, "NUL") \/ command.word = <<>> THEN NoMessage
        ELSE [tags    |-> tags.word,
              prefix  |-> prefix.word,
              command |-> command.word,
              params  |-> parse_params(command.rest)]

Tag_parse(item) ==
    LET halves == split2(item, "=")
    IN  [key |-> halves[1], value |-> IF Len(halves) = 1 THEN <<>> ELSE halves[2]]

\* What stands between tags.
Semicolon == ";"

\* The tags of a message.
tags_of(s) ==
    LET items == split(s, Semicolon)
        named == {i \in DOMAIN items :
                    items[i] # <<>> /\ items[i][1] # "=" /\ ~IsPrefix(<<"+", "=">>, items[i])}
    IN  [n \in 1 .. Cardinality(named) |-> Tag_parse(Pick(items, named)[n])]

is_client(tag) == starts_with(tag.key, "+")

tag_escape(c) == CASE c = ":" -> Semicolon [] c = "s" -> Space [] c = "r" -> "CR" [] c = "n" -> "LF"
                   [] OTHER -> c

unescape_value(value) ==
    FoldLeft(LAMBDA r, c : IF c = "\\" /\ ~r.escape THEN [r EXCEPT !.escape = TRUE]
                           ELSE [res |-> Append(r.res, IF r.escape THEN tag_escape(c) ELSE c),
                                 escape |-> FALSE],
             [res |-> <<>>, escape |-> FALSE], value).res

-----------------------------------------------------------------------------
(* Writing *)

\* Mutant: backslashes are written as they are.
escaped_not_backslash(c) ==
    CASE c = Semicolon -> <<"\\", ":">> [] c = Space -> <<"\\", "s">> [] c = "CR" -> <<"\\", "r">>
      [] c = "LF" -> <<"\\", "n">> [] OTHER -> <<c>>

escaped(c) ==
    CASE c = Semicolon -> <<"\\", ":">> [] c = Space -> <<"\\", "s">> [] c = "CR" -> <<"\\", "r">>
      [] c = "LF" -> <<"\\", "n">> [] c = "\\" -> <<"\\", "\\">> [] OTHER -> <<c>>

write_escaped(value) == FoldLeft(LAMBDA w, c : w \o escaped(c), <<>>, value)

\* A TagBuffer starts as an @; it is empty while it is nothing else.
raw_tag(buf, s) == (IF Len(buf) = 1 THEN buf ELSE Append(buf, Semicolon)) \o s
tag(buf, key, value) == raw_tag(buf, key \o <<"=">> \o write_escaped(value))

\* Only the tags of clients are written again.
tagged_message(client_tags) ==
    LET items == split(client_tags, Semicolon)
    IN  FoldLeft(raw_tag, <<"@">>,
                 Pick(items, {i \in DOMAIN items :
                                starts_with(items[i], "+") /\ ~IsPrefix(<<"+", "=">>, items[i])}))

\* Mutant: the space after the tags is not counted.
save_tag_len_short(buf) == IF Last(buf) = "@" THEN 0 ELSE Len(buf)

save_tag_len(buf) == IF Last(buf) = "@" THEN 0 ELSE Len(buf) + 1

prefixed_command(buf, prefix, command) ==
    (IF Len(buf) = 1 THEN <<>> ELSE Append(buf, Space))
        \o (IF prefix = <<>> THEN <<>> ELSE <<":">> \o prefix \o <<Space>>) \o command

param(buf, p) == IF trim(p) = <<>> THEN buf ELSE buf \o <<Space>> \o trim(p)
trailing_param(buf, p) == buf \o <<Space, ":">> \o p
MessageBuffer_drop(buf) == buf \o <<"CR", "LF">>

-----------------------------------------------------------------------------
(* Relaying *)

\* A MessageQueueItem: the text, and where it starts for clients without message-tags.
message_build(client_tags, full_name, command, target, content, msgid, time) ==
    LET tagged == tag(tag(tagged_message(client_tags), <<"msgid">>, msgid), <<"time">>, time)
        head   == param(prefixed_command(tagged, full_name, command), target)
    IN  [buf   |-> MessageBuffer_drop(IF content = <<>> THEN head ELSE trailing_param(head, content)),
         start |-> save_tag_len(tagged)]

\* What a client is sent: Client::send and MessageQueueItem::as_ref.
sent(item, has_message_tags) == IF has_message_tags THEN item.buf ELSE From(item.buf, item.start)

=============================================================================
