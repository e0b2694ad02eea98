-------------------------------- MODULE Text --------------------------------
(***************************************************************************)
(* The text that clients send, character by character, and the algorithms  *)
(* that read it: lines that are relayed, values of tags, MODE queries and  *)
(* mask lists.  Each behaviour follows one of these jobs; its properties   *)
(* hold in every state, that is for every text up to a bound.              *)
(***************************************************************************)
EXTENDS Message, ModeQuery, MaskSet

CONSTANTS Heads,      \* how the lines that are relayed begin
          LineChars, TagChars, ModeChars, ModeParams,
          MaxLine, MaxTag, MaxModes   \* bounds on what is typed

VARIABLES job,     \* "relay", "tag", "modes" or "masks"
          text,    \* what was typed
          params   \* of a MODE query

textVars == <<job, text, params, maskVars>>

ASSUME TextAssumption ==
    /\ Heads \subseteq Seq(STRING) /\ LineChars \cup TagChars \cup ModeChars \subseteq STRING
    /\ ModeParams \subseteq Seq(Seq(STRING))

\* The reader ends a line at its first CR or LF; a line with a NUL is no message, and is left
\* out here.
ASSUME LineAssumption ==
    /\ LineChars \cap {"NUL", "CR", "LF"} = {}
    /\ \A h \in Heads : \A i \in DOMAIN h : h[i] \notin {"NUL", "CR", "LF"}

\* Lines begin with a command, perhaps after tags and a prefix, and a space after each.
ASSUME HeadAssumption ==
    \A h \in Heads :
        LET words == split(h, Space)
            n     == Len(words) - 1
        IN  /\ n \in 1 .. 3 /\ words[n + 1] = <<>> /\ \A i \in 1 .. n : words[i] # <<>>
            /\ words[n][1] \notin {"@", ":"}
            /\ n = 2 => words[1][1] \in {"@", ":"}
            /\ n = 3 => words[1][1] = "@" /\ words[2][1] = ":"

\* The parameters of a query are single words, fewer than a line has (the modes are one).
ASSUME QueryAssumption ==
    \A given \in ModeParams :
        /\ Len(given) < ParamsLength
        /\ \A n \in DOMAIN given : \A i \in DOMAIN given[n] :
              /\ given[n][i] \notin {"NUL", "CR", "LF"} /\ given[n][i] # Space
              /\ i = 1 => given[n][i] # ":"

FullName == <<"n">>
MsgId    == <<"d">>
Now      == <<"t">>

TextInit ==
    /\ MaskInit
    /\ \/ job = "relay" /\ text \in Heads /\ params = <<>>
       \/ job = "modes" /\ text = <<>> /\ params \in ModeParams
       \/ job \in {"tag", "masks"} /\ text = <<>> /\ params = <<>>

\* How many characters follow the head of a line.
Typed == Len(text) - Max({Len(h) : h \in {h \in Heads : IsPrefix(h, text)}})

type_char(c) ==
    /\ \/ job = "relay" /\ c \in LineChars /\ Typed < MaxLine
       \/ job = "tag" /\ c \in TagChars /\ Len(text) < MaxTag
       \/ job = "modes" /\ c \in ModeChars /\ Len(text) < MaxModes
    /\ text' = Append(text, c)
    /\ UNCHANGED <<job, params, maskVars>>

change_list(mask) ==
    /\ job = "masks"
    /\ insert(mask) \/ remove(mask)
    /\ UNCHANGED <<job, text, params>>

TextNext ==
    \/ \E c \in LineChars \cup TagChars \cup ModeChars : type_char(c)
    \/ \E mask \in Masks : change_list(mask)

TextSpec == TextInit /\ [][TextNext]_textVars

-----------------------------------------------------------------------------
(* Relaying *)

\* The names that Nickname and ChannelName accept, of the characters used here.
IsName(s) == s # <<>> /\ \A i \in DOMAIN s : s[i] \notin {Space, Comma, ":", "+", "@"}

Target(m)  == IF Len(m.params) < 1 THEN <<>> ELSE m.params[1]
Content(m) == IF m.command = <<"TAGMSG">> \/ Len(m.params) < 2 THEN <<>> ELSE m.params[2]

\* Request::new makes a message to a user or a channel of it.
IsRelayed(m) ==
    /\ m # NoMessage
    /\ IsName(Target(m))
    /\ m.command = <<"TAGMSG">> \/ (m.command = <<"PRIVMSG">> /\ Content(m) # <<>>)

\* What the server makes of message m.
Relayed(m) == message_build(m.tags, FullName, m.command, Target(m), Content(m), MsgId, Now)

\* A recipient without tags, and one with tags, read what m says.
ReadPlain(m, read) ==
    read = [tags |-> <<>>, prefix |-> <<FullName>>, command |-> m.command,
            params |-> <<Target(m)>> \o IF Content(m) = <<>> THEN <<>> ELSE <<Content(m)>>]
ReadTagged(m, read) ==
    /\ ReadPlain(m, [read EXCEPT !.tags = <<>>])
    /\ tags_of(read.tags) =
          Pick(tags_of(m.tags), {i \in DOMAIN tags_of(m.tags) : is_client(tags_of(m.tags)[i])}) \o
          << [key |-> <<"msgid">>, value |-> MsgId], [key |-> <<"time">>, value |-> Now] >>

ReadByAll(m, item) ==
    /\ ReadTagged(m, parse(sent(item, TRUE)))
    /\ ReadPlain(m, parse(sent(item, FALSE))) /\ ~starts_with(sent(item, FALSE), Space)

Kept(m) == IsRelayed(m) => ReadByAll(m, Relayed(m))

\* What a client writes in PRIVMSG, NOTICE or TAGMSG is what the others read: the same target
\* and content, from the full name of the author, for recipients with tags (who read the
\* author's client tags, then those of the server, and none that only servers may set) and
\* for those without (who are sent the message from where its tags end).
RelayKeepsMessage == job = "relay" => Kept(parse(Append(text, "LF")))

\* The colons that start a word of s.
Colons(s) == {i \in DOMAIN s : s[i] = ":" /\ (i = 1 \/ s[i - 1] = Space)}

\* The words of s up to the first such colon, and what follows it.
ParamsIn(s) ==
    IF Colons(s) = {} THEN non_empty(split(s, Space))
    ELSE Append(non_empty(split(SubSeq(s, 1, Min(Colons(s)) - 1), Space)),
                trim_end(From(s, Min(Colons(s)))))

\* The words of a line are its parameters, by definition: the text after the command up to
\* the first colon that starts a word is cut at its spaces, and what follows that colon is
\* one more parameter, up to the limit on their number.
ParamsByDefinition ==
    LET all == ParamsIn(From(text, Len(text) - Typed))
    IN  job = "relay" =>
            parse(Append(text, "LF")).params = SubSeq(all, 1, Min({ParamsLength, Len(all)}))

\* A value written in a tag is read back as it was, whatever characters it has, and
\* disturbs no other tag.
TagValueKept ==
    job = "tag" /\ text # <<>> =>
        LET buf  == tag(tag(<<"@">>, <<"k">>, text), <<"time">>, Now)
            read == tags_of(parse_tags(buf \o <<Space, "x">>).word)
        IN  /\ Len(read) = 2
            /\ read[1].key = <<"k">> /\ unescape_value(read[1].value) = text
            /\ read[2] = [key |-> <<"time">>, value |-> Now]

-----------------------------------------------------------------------------
(* MODE queries *)

\* The sign in force at a place of the query: the last one before it, or +.
SignAt(i) ==
    LET before == {j \in 1 .. i : text[j] \in Signs}
    IN  before = {} \/ text[Max(before)] = "+"

\* A letter that has a parameter: all the modes with one, but l only when it is set.
HasParam(i) == text[i] \in {"k", "b", "e", "I", "o", "h", "v"} \/ (text[i] = "l" /\ SignAt(i))

\* Every letter is one change with the sign in force at its place, and the parameters that
\* are not empty go, in their order, to the letters that have one: none is skipped, used
\* twice or given to a letter that has none, whatever unknown letters and letters whose
\* parameter is missing stand between.  A query is a default mode of the configuration if it
\* is made of known letters that need no parameter.
QueryByDefinition ==
    job = "modes" =>
        LET changes == channel_query(text, params)
            users   == user_query(text)
            letters == {i \in DOMAIN text : text[i] \notin Signs}
            given   == non_empty(params)
            At(i)   == Cardinality({j \in letters : j <= i})
            Nth(i)  == Cardinality({j \in letters : j <= i /\ HasParam(j)})
        IN  /\ Len(changes) = Cardinality(letters) /\ Len(users) = Cardinality(letters)
            /\ is_channel_mode_string(text) <=>
                  \A i \in letters : text[i] \in SimpleModes \cup ListModes
                                      \/ (text[i] \in {"k", "l"} /\ ~SignAt(i))
            /\ \A i \in letters :
                  LET c == changes[At(i)]
                  IN  /\ c.mode = text[i] /\ users[At(i)].mode = text[i]
                      /\ c.kind # "get" => c.value = SignAt(i)
                      /\ users[At(i)].value = SignAt(i)
                      /\ IF HasParam(i) /\ Nth(i) <= Len(given)
                         THEN c.kind = "change" /\ c.param = given[Nth(i)]
                         ELSE c.param = IF text[i] = "k" /\ ~SignAt(i) THEN <<"*">> ELSE <<>>

\* Whichever changes of a query are applied, the query that the members of the channel are
\* sent reads as exactly these changes.  (The parameters here are single words: one with a
\* space or a leading colon, which only the last parameter of a line can be, is cut.)
NoticeReadsAsApplied ==
    job = "modes" =>
        LET changes == channel_query(text, params)
        IN  \A applied \in SUBSET {i \in DOMAIN changes : changes[i].kind = "change"} :
                LET list   == Pick(changes, applied)
                    w      == Written(list)
                    notice == FoldLeft(param, <<"MODE">>, <<w.modes>> \o w.params)
                    heard  == parse(MessageBuffer_drop(notice)).params
                IN  list # <<>> => channel_query(Head(heard), Tail(heard)) = list

=============================================================================
