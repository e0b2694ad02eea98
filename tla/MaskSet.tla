------------------------------ MODULE MaskSet ------------------------------
(***************************************************************************)
(* The mask lists of a channel (MaskSet) and the matching of names against *)
(* masks (match_mask), src/src/util.rs.  A MaskSet is one string with      *)
(* commas.  match_mask cuts its text at byte offsets, which panics inside  *)
(* a character of several bytes.                                           *)
(***************************************************************************)
EXTENDS Strings, Bags

CONSTANTS Wide,      \* characters of more than one byte
          MaskChars, MaxMask,   \* the masks that MODE may be given
          Names,     \* the names that lists are matched against
          MaxRaw     \* bound on the length of a list

VARIABLES raw,
          listed   \* history: the masks on the list, with how often they were put there

maskVars == <<raw, listed>>

Masks == BoundedSeq(MaskChars, MaxMask) \ {<<>>}

ASSUME MaskAssumption ==
    /\ MaskChars \subseteq STRING /\ MaxMask \in Nat /\ MaxRaw \in Nat
    /\ Names \subseteq Seq(STRING) \ {<<>>}

-----------------------------------------------------------------------------
(* match_mask *)

\* <<how many stars were skipped, text up to the next star, the rest of the mask>>
scan_chunk(mask) ==
    LET stars == Min({k \in 0 .. Len(mask) : k = Len(mask) \/ mask[k + 1] # "*"})
    IN  <<stars, Piece(mask, "*", stars), From(mask, End(mask, "*", stars))>>

\* The chunk matches the beginning of the text.
match_chunk(chunk, s) ==
    Len(chunk) <= Len(s) /\ \A i \in DOMAIN chunk : chunk[i] \in {"?", s[i]}

\* Mutant: a chunk at the end of the mask may leave some of the text over.
FitsAnywhere(chunk, mask, s) == match_chunk(chunk, s)

\* The chunk matches here, and leaves nothing over if it is the last.
Fits(chunk, mask, s) ==
    match_chunk(chunk, s) /\ (Len(chunk) = Len(s) \/ mask # <<>>)

\* The state of the loop: what is left of mask and text, and the answer once there is one.
Matching(mask, s) == [mask |-> mask, s |-> s, answer |-> "none"]
Answer(st, answer) == [st EXCEPT !.answer = answer]

\* One turn of the loop.
Turn(st) ==
    LET s       == st.s
        scanned == scan_chunk(st.mask)
        star    == scanned[1] > 0
        chunk   == scanned[2]
        rest    == scanned[3]
        \* after the first k characters of the text, which the star stands for
        places  == {k \in 0 .. Len(s) : Fits(chunk, rest, From(s, k))}
        \* the loop tries every byte offset up to the first place, or to the end
        panics  == \E i \in 1 .. Min(places \cup {Len(s)}) : s[i] \in Wide
    IN  IF st.mask = <<>> THEN Answer(st, IF s = <<>> THEN "yes" ELSE "no")
        ELSE IF star /\ chunk = <<>> THEN Answer(st, "yes")
        ELSE IF 0 \in places THEN Matching(rest, From(s, Len(chunk)))
        ELSE IF ~star THEN Answer(st, "no")
        ELSE IF panics THEN Answer(st, "panic")
        ELSE IF places = {} THEN Answer(st, "no")
        ELSE Matching(rest, From(s, Min(places) + Len(chunk)))

\* The loop after k turns; every turn takes some of the mask, or ends it.
Turns(mask, s) ==
    LET turns[k \in 0 .. Len(mask) + 1] ==
          IF k = 0 THEN Matching(mask, s)
          ELSE IF turns[k - 1].answer = "none" THEN Turn(turns[k - 1]) ELSE turns[k - 1]
    IN  turns

match_mask(mask, s) == Turns(mask, s)[Len(mask) + 1].answer

\* Whether a mask matches a text, by definition: the text can be cut into one part for
\* every character of the mask, any text for `*`, one character for `?`.
Glob(mask, s) ==
    \E at \in [1 .. Len(mask) + 1 -> 0 .. Len(s)] :
        /\ at[1] = 0 /\ at[Len(mask) + 1] = Len(s)
        /\ \A i \in DOMAIN mask :
              IF mask[i] = "*" THEN at[i] <= at[i + 1]
              ELSE at[i + 1] = at[i] + 1 /\ mask[i] \in {"?", s[at[i + 1]]}

Globs == [mask \in Masks |-> {s \in Names : Glob(mask, s)}]

-----------------------------------------------------------------------------
(* MaskSet *)

\* What stands between the masks of a list, where they start, and the mask that starts there.
Comma         == ","
Places(list)  == Starts(list, Comma)
Mask(list, a) == Piece(list, Comma, a)

is_match(s) ==
    LET hits == {a \in Places(raw) : match_mask(Mask(raw, a), s) # "no"}
    IN  IF hits = {} THEN "no" ELSE match_mask(Mask(raw, Min(hits)), s)

\* What a list has on it: its masks and how often each of them occurs.
Parts(list) ==
    [m \in {Mask(list, a) : a \in Places(list)} \ {<<>>} |->
        Cardinality({a \in Places(list) : Mask(list, a) = m})]

insert(mask) ==
    /\ Len(raw) + Len(mask) < MaxRaw
    /\ IF \E a \in Places(raw) : Mask(raw, a) = mask
       THEN UNCHANGED maskVars
       ELSE /\ raw' = (IF raw = <<>> THEN raw ELSE Append(raw, Comma)) \o mask
            /\ listed' = listed (+) Parts(mask)

\* Mutant: the comma before the mask goes too.
remove_both(mask) ==
    LET same  == {a \in Places(raw) : Mask(raw, a) = mask}
        start == Min(same)
        after == start + Len(mask) + 1
    IN  IF same = {} THEN UNCHANGED maskVars
        ELSE /\ raw' = SubSeq(raw, 1, start - 1) \o From(raw, after)
             /\ listed' = listed (-) SetToBag({mask})

\* The first piece that is the mask, with the comma after it if there is one.
remove(mask) ==
    LET same  == {a \in Places(raw) : Mask(raw, a) = mask}
        start == Min(same)
        end   == start + Len(mask)
        after == IF end < Len(raw) THEN end + 1 ELSE end
    IN  IF same = {} THEN UNCHANGED maskVars
        ELSE /\ raw' = SubSeq(raw, 1, start) \o From(raw, after)
             /\ listed' = listed (-) SetToBag({mask})

MaskInit == raw = <<>> /\ listed = EmptyBag
MaskNext == \E mask \in Masks : insert(mask) \/ remove(mask)

MaskSpec == MaskInit /\ [][MaskNext]_maskVars

-----------------------------------------------------------------------------
(* Properties *)

\* The list is what was put on it and not removed, neither joined to a neighbour nor lost,
\* whatever commas removals leave behind and masks contain.
ListIsKept == Parts(raw) = listed

\* A name is on a list exactly if some mask of the list matches it by the definition of
\* masks.  The one exception: a text with a multi-byte character may make a mask with a
\* star panic instead.
MatchesByDefinition ==
    \A s \in Names :
        LET panics == (\E i \in DOMAIN s : s[i] \in Wide) /\ (\E i \in DOMAIN raw : raw[i] = "*")
            on_list == \E mask \in BagToSet(listed) : s \in Globs[mask]
        IN  \/ is_match(s) = IF on_list THEN "yes" ELSE "no"
            \/ is_match(s) = "panic" /\ panics

=============================================================================
