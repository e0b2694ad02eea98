----------------------------- MODULE ModeQuery -----------------------------
(***************************************************************************)
(* MODE queries (ellidri-tokens/src/mode.rs): how letters, signs and       *)
(* parameters become changes, and how the server writes the changes it     *)
(* applied (cmd_mode_channel_set).  A change is its letter, value and      *)
(* parameter; a query that only lists masks, and an error, are changes     *)
(* with a kind of their own.                                               *)
(***************************************************************************)
EXTENDS Strings

Signs       == {"+", "-"}
SimpleModes == {"i", "m", "n", "s", "t"}
ListModes   == {"b", "e", "I"}
MemberModes == {"o", "h", "v"}

\* SimpleQuery: the letters with their signs.
SimpleQuery(modes) ==
    FoldLeft(LAMBDA q, c : IF c \in Signs THEN [q EXCEPT !.value = (c = "+")]
                           ELSE [q EXCEPT !.items = Append(@, [value |-> q.value, mode |-> c])],
             [value |-> TRUE, items |-> <<>>], modes).items

Change(kind, mode, value, param) ==
    [kind |-> kind, mode |-> mode, value |-> value, param |-> param]

\* Mutant: a mode takes a parameter also when it is turned off.
TakesBoth(value, mode) == mode \in {"k", "l"} \cup ListModes \cup MemberModes

\* The letter asks params.next().
Takes(value, mode) ==
    mode \in {"k"} \cup ListModes \cup MemberModes \/ (mode = "l" /\ value)

\* What a letter means when a parameter is there, and when there is none.
WithParam(value, mode, param) == Change("change", mode, value, param)
WithoutParam(value, mode) ==
    IF mode \in SimpleModes \cup {"l"} /\ ~Takes(value, mode) THEN Change("change", mode, value, <<>>)
    ELSE IF mode = "k" /\ ~value THEN Change("change", mode, value, <<"*">>)
    ELSE IF mode \in ListModes THEN Change("get", mode, FALSE, <<>>)
    ELSE IF Takes(value, mode) THEN Change("missing", mode, value, <<>>)
    ELSE Change("unknown", mode, value, <<>>)

\* The changes of a query; empty parameters do not count.
channel_query(modes, params) ==
    FoldLeft(LAMBDA q, item :
                IF Takes(item.value, item.mode) /\ q.params # <<>>
                THEN [params |-> Tail(q.params),
                      out |-> Append(q.out, WithParam(item.value, item.mode, Head(q.params)))]
                ELSE [q EXCEPT !.out = Append(@, WithoutParam(item.value, item.mode))],
             [params |-> non_empty(params), out |-> <<>>],
             SimpleQuery(modes)).out

is_channel_mode_string(modes) ==
    \A i \in DOMAIN channel_query(modes, <<>>) :
        channel_query(modes, <<>>)[i].kind \in {"change", "get"}

\* The changes of a query on a user.
user_query(modes) ==
    LET items == SimpleQuery(modes)
    IN  [i \in DOMAIN items |->
            LET value == items[i].value
                mode  == items[i].mode
            IN  Change(IF mode = "i" \/ (mode = "o" /\ ~value) THEN "change"
                       ELSE IF mode \in {"a", "o"} THEN "unchangeable" ELSE "unknown",
                       mode, value, <<>>)]

\* Mutant: the sign is written only where the query had one.
WriteChangeOnce(w, c) ==
    [modes  |-> w.modes \o (IF w.modes = <<>> THEN <<IF c.value THEN "+" ELSE "-">> ELSE <<>>)
                        \o <<c.mode>>,
     params |-> IF c.param = <<>> THEN w.params ELSE Append(w.params, c.param),
     last   |-> c.value]

\* applied_modes and applied_modeparams after one more change.
WriteChange(w, c) ==
    [modes  |-> w.modes \o (IF w.last # c.value \/ w.modes = <<>>
                            THEN <<IF c.value THEN "+" ELSE "-">> ELSE <<>>) \o <<c.mode>>,
     params |-> IF c.param = <<>> THEN w.params ELSE Append(w.params, c.param),
     last   |-> c.value]

Written(changes) ==
    FoldLeft(WriteChange, [modes |-> <<>>, params |-> <<>>, last |-> TRUE], changes)

=============================================================================
