------------------------------- MODULE Strings -------------------------------
(***************************************************************************)
(* What the code uses of Rust's str.  A string is a sequence of            *)
(* characters; a word no part of which matters may be one character.       *)
(***************************************************************************)
EXTENDS Integers, Sequences, FiniteSets, SequencesExt

\* Rust's trim also removes tabs and other white space of Unicode, which do not end a word
\* (message.rs:16-19); texts with these are left out.
Space      == " "
Whitespace == {Space, "CR", "LF"}

\* The n-th number of I, and what s has at the places I, in their order.
Ordinal(I, n) == CHOOSE i \in I : Cardinality({j \in I : j <= i}) = n
Pick(s, I)    == [n \in 1 .. Cardinality(I) |-> s[Ordinal(I, n)]]

\* filter(|w| !w.is_empty())
non_empty(words) == Pick(words, {i \in DOMAIN words : words[i] # <<>>})

starts_with(s, c) == s # <<>> /\ s[1] = c

\* What is left after the first k characters.
From(s, k) == SubSeq(s, k + 1, Len(s))

\* find, with the length when there is no such character.
Until(s, c) ==
    LET i == SelectInSeq(s, LAMBDA x : x = c) IN IF i = 0 THEN Len(s) ELSE i - 1

\* splitn(2, c)
split2(s, c) ==
    IF Until(s, c) = Len(s) THEN <<s>>
    ELSE <<SubSeq(s, 1, Until(s, c)), From(s, Until(s, c) + 1)>>

\* split(c) cuts s at every c.  A piece starts after the first a characters, where a is 0
\* or the place of a c, and ends before the next c.
Starts(s, c) == {a \in 0 .. Len(s) : a = 0 \/ s[a] = c}
End(s, c, a) == Min({b \in a .. Len(s) : b = Len(s) \/ s[b + 1] = c})
Piece(s, c, a) == SubSeq(s, a + 1, End(s, c, a))

split(s, c) ==
    [n \in 1 .. Cardinality(Starts(s, c)) |-> Piece(s, c, Ordinal(Starts(s, c), n))]

trim_end(s) ==
    SubSeq(s, 1, SelectLastInSeq(s, LAMBDA c : c \notin Whitespace))

trim_start(s) == Reverse(trim_end(Reverse(s)))
trim(s) == trim_start(trim_end(s))

=============================================================================
