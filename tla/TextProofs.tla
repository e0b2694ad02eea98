----------------------------- MODULE TextProofs -----------------------------
(***************************************************************************)
(* Proofs about Text, second part: what is written in a message is read    *)
(* from it, for texts of every length.  In order: tags; the parameters of  *)
(* a line; tags and lines that are written again; relayed messages; the    *)
(* words of a line; notices of MODE changes.                               *)
(***************************************************************************)
EXTENDS StringProofs

-----------------------------------------------------------------------------
(* Tags *)

LEMMA LacksCat ==
    ASSUME NEW u \in Seq(Char), NEW v \in Seq(Char), NEW c
    PROVE  Lacks(u \o v, c) <=> Lacks(u, c) /\ Lacks(v, c)
<1>1. u \o v \in Seq(Char) /\ Len(u \o v) = Len(u) + Len(v)
      /\ (\A i \in 1 .. Len(u) : (u \o v)[i] = u[i])
      /\ \A i \in 1 .. Len(v) : (u \o v)[Len(u) + i] = v[i]
  OBVIOUS
<1> DEFINE w == u \o v
<1> HIDE DEF w
<1>2. w \in Seq(Char) /\ Len(w) = Len(u) + Len(v) /\ Len(u) \in Nat /\ Len(v) \in Nat
      /\ (\A i \in 1 .. Len(u) : w[i] = u[i])
      /\ \A i \in 1 .. Len(v) : w[Len(u) + i] = v[i]
  BY <1>1 DEF w
<1>3. ASSUME Lacks(w, c) PROVE Lacks(u, c) /\ Lacks(v, c)
  BY <1>2, <1>3 DEF Lacks
<1>4. ASSUME Lacks(u, c), Lacks(v, c) PROVE Lacks(w, c)
  <2> SUFFICES ASSUME NEW i \in 1 .. Len(w) PROVE w[i] # c
    BY DEF Lacks
  <2>1. CASE i <= Len(u)
    BY <1>2, <1>4, <2>1 DEF Lacks
  <2>2. CASE ~(i <= Len(u))
    <3>1. i - Len(u) \in 1 .. Len(v) /\ Len(u) + (i - Len(u)) = i
      BY <1>2, <2>2
    <3> DEFINE j == i - Len(u)
    <3>2. j \in 1 .. Len(v) /\ w[i] = w[Len(u) + j]
      BY <3>1
    <3> HIDE DEF j
    <3> QED BY <1>2, <1>4, <3>2 DEF Lacks
  <2> QED BY <2>1, <2>2
<1> QED BY <1>3, <1>4 DEF w

LEMMA LacksOne == ASSUME NEW c, NEW d, c # d PROVE Lacks(<<c>>, d)
BY DEF Lacks

LEMMA CutIsCat ==
    ASSUME NEW u \in Seq(Char), NEW c \in Char, NEW v \in Seq(Char)
    PROVE  Cut(u, c, v) = (u \o <<c>>) \o v
BY AppendIsConcat DEF Cut

LEMMA LacksCut ==
    ASSUME NEW u \in Seq(Char), NEW c \in Char, NEW v \in Seq(Char), NEW d, c # d
    PROVE  Lacks(Cut(u, c, v), d) <=> Lacks(u, d) /\ Lacks(v, d)
<1>1. <<c>> \in Seq(Char) /\ u \o <<c>> \in Seq(Char)
  OBVIOUS
<1> DEFINE w == u \o <<c>>
<1>2. Lacks(w, d) <=> Lacks(u, d)
  BY <1>1, LacksCat, LacksOne
<1>3. w \in Seq(Char) /\ Cut(u, c, v) = w \o v
  BY <1>1, CutIsCat
<1> HIDE DEF w
<1> QED BY <1>2, <1>3, LacksCat

LEMMA Past ==
    ASSUME NEW a \in Nat, NEW b \in Nat, NEW i \in 1 .. a + 1 + b, ~(i <= a), i # a + 1
    PROVE  i - (a + 1) \in 1 .. b /\ a + 1 + (i - (a + 1)) = i /\ a + 1 + 1 + (i - (a + 1)) = i + 1
OBVIOUS

LEMMA ShiftCut ==
    ASSUME NEW u \in Seq(Char), NEW t \in Seq(Char), NEW c \in Char, NEW v \in Seq(Char),
           NEW x, IsCut(x, u, c, v), NEW y, IsCut(y, t, c, v), Len(u) = Len(t) + 1,
           \A i \in 1 .. Len(t) : t[i] = u[i + 1]
    PROVE  Tail(x) = y
<1> DEFINE p == Len(t)
           q == Len(v)
<1>1. p \in Nat /\ q \in Nat /\ Len(u) = p + 1
  OBVIOUS
<1>2. /\ x \in Seq(Char) /\ Len(x) = (p + 1) + 1 + q /\ x[(p + 1) + 1] = c
      /\ (\A i \in 1 .. p + 1 : x[i] = u[i]) /\ \A i \in 1 .. q : x[(p + 1) + 1 + i] = v[i]
  BY <1>1 DEF IsCut
<1>3. /\ y \in Seq(Char) /\ Len(y) = p + 1 + q /\ y[p + 1] = c
      /\ (\A i \in 1 .. p : y[i] = t[i]) /\ \A i \in 1 .. q : y[p + 1 + i] = v[i]
  BY DEF IsCut
<1>4. \A i \in 1 .. p : t[i] = u[i + 1]
  OBVIOUS
<1> HIDE DEF p, q
<1>5. x # <<>> /\ Len(x) - 1 = Len(y)
  BY <1>1, <1>2, <1>3
<1>6. Tail(x) \in Seq(Char) /\ Len(Tail(x)) = Len(y) /\ \A i \in 1 .. Len(y) : Tail(x)[i] = x[i + 1]
  BY <1>2, <1>5
<1>7. ASSUME NEW i \in 1 .. Len(y) PROVE x[i + 1] = y[i]
  <2>0. i \in 1 .. p + 1 + q
    BY <1>3
  <2>1. CASE i <= p
    <3>1. i \in 1 .. p /\ i + 1 \in 1 .. p + 1
      BY <1>1, <2>0, <2>1
    <3> QED BY <1>2, <1>3, <1>4, <3>1
  <2>2. CASE i = p + 1
    BY <1>2, <1>3, <2>2
  <2>3. CASE ~(i <= p) /\ i # p + 1
    <3> DEFINE j == i - (p + 1)
    <3>1. j \in 1 .. q /\ p + 1 + j = i /\ p + 1 + 1 + j = i + 1
      BY <1>1, <2>0, <2>3, Past
    <3> HIDE DEF j
    <3> QED BY <1>2, <1>3, <3>1
  <2> QED BY <2>1, <2>2, <2>3
<1> QED BY <1>3, <1>6, <1>7

LEMMA TailCut ==
    ASSUME NEW u \in Seq(Char), u # <<>>, NEW c \in Char, NEW v \in Seq(Char)
    PROVE  /\ Tail(u) \in Seq(Char) /\ Len(Tail(u)) = Len(u) - 1
           /\ Tail(Cut(u, c, v)) = Cut(Tail(u), c, v)
<1>1. Tail(u) \in Seq(Char) /\ Len(Tail(u)) = Len(u) - 1 /\ Len(Tail(u)) + 1 = Len(u)
      /\ \A i \in 1 .. Len(Tail(u)) : Tail(u)[i] = u[i + 1]
  OBVIOUS
<1>2. IsCut(Cut(u, c, v), u, c, v) /\ IsCut(Cut(Tail(u), c, v), Tail(u), c, v)
  BY <1>1, CutIsCut
<1>3. Len(u) = Len(Tail(u)) + 1
  BY <1>1
<1>4. Tail(Cut(u, c, v)) = Cut(Tail(u), c, v)
  <2> DEFINE t == Tail(u)
             x == Cut(u, c, v)
             y == Cut(t, c, v)
  <2>1. t \in Seq(Char) /\ Len(u) = Len(t) + 1 /\ IsCut(x, u, c, v) /\ IsCut(y, t, c, v)
    BY <1>1, <1>2, <1>3
  <2>2. \A i \in 1 .. Len(t) : t[i] = u[i + 1]
    BY <1>1
  <2> HIDE DEF t, x, y
  <2>3. Tail(x) = y
    BY <2>1, <2>2, ShiftCut
  <2> QED BY <2>3 DEF x, y, t
<1> QED BY <1>1, <1>4

\* The buffer of a TagBuffer with these tags.
TagBuf(buf, x) ==
    /\ buf \in Seq(Char) /\ buf # <<>> /\ buf[1] = "@" /\ Lacks(buf, Space)
    /\ x \in Seq(Seq(Char))
    /\ IF x = <<>> THEN Len(buf) = 1 ELSE Len(buf) > 1 /\ Splits(Tail(buf), Semicolon, x)

TagItem(s) == s \in Seq(Char) /\ s # <<>> /\ Lacks(s, Semicolon) /\ Lacks(s, Space)

LEMMA RawTagFacts ==
    ASSUME NEW buf, NEW x, TagBuf(buf, x), NEW s, TagItem(s)
    PROVE  TagBuf(raw_tag(buf, s), Append(x, s))
<1>1. /\ buf \in Seq(Char) /\ buf # <<>> /\ buf[1] = "@" /\ Lacks(buf, Space)
      /\ x \in Seq(Seq(Char)) /\ s \in Seq(Char) /\ s # <<>> /\ Lacks(s, Semicolon) /\ Lacks(s, Space)
      /\ Len(buf) \in Nat \ {0} /\ Len(s) \in Nat \ {0}
  BY DEF TagBuf, TagItem
<1>2. Append(x, s) \in Seq(Seq(Char)) /\ Append(x, s) # <<>> /\ Append(x, s) = x \o <<s>>
  BY <1>1, AppendIsConcat
<1>3. Splits(s, Semicolon, <<s>>) /\ <<s>> \in Seq(Seq(Char))
  BY <1>1, SplitWhole DEF Lacks
<1>4. CASE x = <<>>
  <2> DEFINE b == buf \o s
  <2>1. Len(buf) = 1 /\ raw_tag(buf, s) = b
    BY <1>4 DEF TagBuf, raw_tag
  <2>2. b \in Seq(Char) /\ Len(b) > 1 /\ b[1] = "@" /\ Tail(b) = s
    <3>1. /\ b \in Seq(Char) /\ Len(b) = Len(buf) + Len(s) /\ (\A i \in 1 .. Len(buf) : b[i] = buf[i])
          /\ \A i \in 1 .. Len(s) : b[Len(buf) + i] = s[i]
      BY <1>1
    <3> HIDE DEF b
    <3>2. /\ b \in Seq(Char) /\ Len(b) = 1 + Len(s) /\ b[1] = "@"
          /\ \A i \in 1 .. Len(s) : b[1 + i] = s[i]
      BY <1>1, <2>1, <3>1
    <3>3. Len(b) > 1 /\ b # <<>>
      BY <1>1, <3>2
    <3>4. Tail(b) \in Seq(Char) /\ Len(Tail(b)) = Len(s) /\ \A i \in 1 .. Len(s) : Tail(b)[i] = b[i + 1]
      BY <1>1, <3>2, <3>3
    <3>5. \A i \in 1 .. Len(s) : i + 1 = 1 + i
      OBVIOUS
    <3>6. Tail(b) = s
      BY <1>1, <3>2, <3>4, <3>5
    <3> QED BY <3>2, <3>3, <3>6
  <2>3. Lacks(b, Space)
    BY <1>1, LacksCat
  <2>4. Append(x, s) = <<s>>
    BY <1>4
  <2> HIDE DEF b
  <2>5. b # <<>>
    BY <2>2
  <2> QED BY <1>2, <1>3, <2>1, <2>2, <2>3, <2>4, <2>5 DEF TagBuf
<1>5. CASE x # <<>>
  <2> DEFINE b == Cut(buf, Semicolon, s)
  <2>1. Len(buf) > 1 /\ Splits(Tail(buf), Semicolon, x)
    BY <1>5 DEF TagBuf
  <2>2. raw_tag(buf, s) = b
    <3> DEFINE l == Len(buf)
    <3>0. l \in Nat /\ l > 1
      BY <1>1, <2>1
    <3>1. Len(buf) # 1
      <4> HIDE DEF l
      <4>1. l # 1
        BY <3>0
      <4> QED BY <4>1 DEF l
    <3> QED BY <3>1, Zenon DEF raw_tag, Cut
  <2>3. Semicolon \in Char /\ Semicolon # Space
    BY SpecialChars DEF Char
  <2>4. b \in Seq(Char) /\ Len(b) > 1 /\ b[1] = "@"
    <3>1. b \in Seq(Char) /\ Len(b) = Len(buf) + 1 + Len(s) /\ \A i \in 1 .. Len(buf) : b[i] = buf[i]
      BY <1>1, <2>3, CutFacts
    <3> HIDE DEF b
    <3>2. buf \in Seq(Char) /\ Len(buf) > 0 /\ buf[1] = "@" /\ s \in Seq(Char)
      BY <1>1
    <3>3. Len(b) > 1
      BY <3>1, <3>2
    <3>4. 1 \in 1 .. Len(buf)
      BY <3>2
    <3>5. b[1] = buf[1]
      BY <3>1, <3>4
    <3> QED BY <3>1, <3>2, <3>3, <3>5
  <2>5. Lacks(b, Space)
    BY <1>1, <2>3, LacksCut
  <2>6. Tail(buf) \in Seq(Char) /\ Tail(b) = Cut(Tail(buf), Semicolon, s)
    BY <1>1, <2>3, TailCut
  <2>7. Splits(Tail(b), Semicolon, x \o <<s>>)
    BY <1>1, <1>3, <2>1, <2>3, <2>6, SplitCut
  <2> HIDE DEF b
  <2>8. b # <<>>
    BY <2>4
  <2> QED BY <1>2, <2>2, <2>4, <2>5, <2>7, <2>8 DEF TagBuf
<1> QED BY <1>4, <1>5

LEMMA EmptyTagBuf == TagBuf(<<"@">>, <<>>)
<1>1. "@" # Space /\ "@" \in Char
  BY SpecialChars DEF Char, Whitespace
<1> QED BY <1>1, LacksOne DEF TagBuf

\* The items that Message::tags does not pass over.
Named == {x \in Seq(Char) : x # <<>> /\ x[1] # "=" /\ ~IsPrefix(<<"+", "=">>, x)}

LEMMA TagsOf ==
    ASSUME NEW s \in Seq(Char), NEW items \in Seq(Seq(Char)), Splits(s, Semicolon, items)
    PROVE  tags_of(s) = [n \in 1 .. Len(Sift(items, Named)) |-> Tag_parse(Sift(items, Named)[n])]
<1>1. Starts(s, Semicolon) \in SUBSET Nat
  BY DEF Starts
<1>2. split(s, Semicolon) = items
  BY <1>1, SplitIs
<1> DEFINE I == {i \in DOMAIN items :
                    items[i] # <<>> /\ items[i][1] # "=" /\ ~IsPrefix(<<"+", "=">>, items[i])}
<1>3. I = Sifted(items, Named)
  BY DEF Sifted, Named
<1>4. Sift(items, Named) \in Seq(Seq(Char))
  BY SiftFacts
<1>5. Len(Sift(items, Named)) = Cardinality(I) /\ Sift(items, Named) = Pick(items, I)
  <2>1. I \in SUBSET (1 .. Len(items)) /\ Len(items) \in Nat
    OBVIOUS
  <2>2. Cardinality(I) \in Nat
    BY <2>1, OrdinalsAscend
  <2> HIDE DEF I
  <2>3. Len(Pick(items, I)) = Cardinality(I)
    BY <2>2 DEF Pick
  <2> QED BY <1>3, <2>3 DEF Sift
<1>6. tags_of(s) = [n \in 1 .. Cardinality(I) |-> Tag_parse(Pick(items, I)[n])]
  BY <1>2, Zenon DEF tags_of
<1> QED BY <1>5, <1>6

LEMMA TagParsed ==
    ASSUME NEW key \in Seq(Char), NEW v \in Seq(Char), Lacks(key, "=")
    PROVE  Tag_parse(key \o <<"=">> \o v) = [key |-> key, value |-> v]
<1>1. "=" \in Char
  BY DEF Char
<1>2. key \o <<"=">> \o v = Cut(key, "=", v)
  BY <1>1, CutIsCat
<1>3. split2(Cut(key, "=", v), "=") = <<key, v>>
  BY <1>1, Split2Cut
<1> DEFINE h == <<key, v>>
<1>4. Len(h) = 2 /\ h[1] = key /\ h[2] = v
  OBVIOUS
<1> HIDE DEF h
<1>5. split2(key \o <<"=">> \o v, "=") = h
  BY <1>2, <1>3 DEF h
<1> DEFINE item == key \o <<"=">> \o v
<1> HIDE DEF item
<1>6. split2(item, "=") = h
  BY <1>5 DEF item
<1>7. Tag_parse(item) = [key |-> key, value |-> v]
  <2>1. Len(h) # 1
    BY <1>4
  <2> QED BY <1>4, <1>6, <2>1, Zenon DEF Tag_parse
<1> QED BY <1>7 DEF item

LEMMA WordReplaced ==
    ASSUME NEW b, NEW r, NEW p, p = [word |-> b, rest |-> r], NEW t
    PROVE  p.word = b /\ p.rest = r /\ [p EXCEPT !.word = t] = [word |-> t, rest |-> r]
OBVIOUS

LEMMA TailWord ==
    ASSUME NEW b, NEW r, NEW p, p = [word |-> b, rest |-> r]
    PROVE  /\ p.word = b /\ p.rest = r
           /\ [p EXCEPT !.word = Tail(@)] = [word |-> Tail(b), rest |-> r]
           /\ [p EXCEPT !.word = <<Tail(@)>>] = [word |-> <<Tail(b)>>, rest |-> r]
<1> DEFINE t == Tail(p.word)
<1>1. p.word = b /\ p.rest = r
  OBVIOUS
<1>2. t = Tail(b)
  BY <1>1
<1>3. [p EXCEPT !.word = t] = [word |-> t, rest |-> r]
      /\ [p EXCEPT !.word = <<t>>] = [word |-> <<t>>, rest |-> r]
  <2> HIDE DEF t
  <2> QED BY WordReplaced
<1>4. [p EXCEPT !.word = Tail(@)] = [word |-> t, rest |-> r]
  BY <1>3, Zenon
<1>5. [p EXCEPT !.word = <<Tail(@)>>] = [word |-> <<t>>, rest |-> r]
  BY <1>3, Zenon
<1> HIDE DEF t
<1> QED BY <1>1, <1>2, <1>4, <1>5

LEMMA TagBufRead ==
    ASSUME NEW buf, NEW x, TagBuf(buf, x), buf[Len(buf)] \notin Whitespace, NEW v \in Seq(Char)
    PROVE  /\ parse_tags(Cut(buf, Space, v)) = [word |-> Tail(buf), rest |-> trim(v)]
           /\ starts_with(Cut(buf, Space, v), "@")
<1>1. buf \in Seq(Char) /\ buf # <<>> /\ buf[1] = "@" /\ Lacks(buf, Space)
  BY DEF TagBuf
<1>2. Trimmed(buf)
  <2>1. "@" \notin Whitespace
    BY SpecialChars
  <2> QED BY <1>1, <2>1 DEF Trimmed
<1>3. trim(buf) = buf
  BY <1>1, <1>2, TrimOfTrimmed
<1> DEFINE w == Cut(buf, Space, v)
<1>4. parse_word(w) = [word |-> buf, rest |-> trim(v)]
  BY <1>1, <1>3, WordCut
<1>5. IsCut(w, buf, Space, v)
  BY <1>1, SpaceIsChar, CutIsCut
<1> HIDE DEF w
<1>6. w # <<>> /\ w[1] = "@"
  <2>1. Len(buf) \in Nat \ {0} /\ Len(v) \in Nat /\ 1 \in 1 .. Len(buf)
    BY <1>1
  <2>2. Len(w) = Len(buf) + 1 + Len(v) /\ w[1] = buf[1] /\ w \in Seq(Char)
    BY <1>5, <2>1 DEF IsCut
  <2> QED BY <1>1, <2>1, <2>2
<1>7. starts_with(w, "@")
  BY <1>6 DEF starts_with
<1>8. parse_tags(w) = [word |-> Tail(buf), rest |-> trim(v)]
  <2>1. parse_tags(w) = [parse_word(w) EXCEPT !.word = Tail(@)]
    BY <1>7, Zenon DEF parse_tags
  <2> QED BY <1>4, <2>1, TailWord
<1> QED BY <1>7, <1>8 DEF w

LEMMA WriteOne ==
    ASSUME NEW c \in Char, escaped(c) = <<c>>
    PROVE  write_escaped(<<c>>) = <<c>>
<1> DEFINE s == <<c>>
<1>1. s \in Seq(Char) /\ Len(s) = 1 /\ s[1] = c
  OBVIOUS
<1> HIDE DEF s
<1>2. PICK h \in [0 .. Len(s) -> Chars] : /\ h[0] = <<>>
                                          /\ \A i \in 1 .. Len(s) : h[i] = h[i - 1] \o escaped(s[i])
                                          /\ write_escaped(s) = h[Len(s)]
  BY <1>1, WriteFold
<1>3. h[1] = <<>> \o <<c>>
  <2>1. 1 \in 1 .. Len(s) /\ 1 - 1 = 0
    BY <1>1
  <2>2. h[1] = h[1 - 1] \o escaped(s[1])
    BY <1>2, <2>1
  <2> QED BY <1>1, <1>2, <2>1, <2>2
<1>4. <<>> \o <<c>> = <<c>>
  OBVIOUS
<1> QED BY <1>1, <1>2, <1>3, <1>4 DEF s

\* A tag with this key and this value.
TagText(key, v) == key \o <<"=">> \o v

TagKey(key) ==
    /\ key \in Seq(Char) /\ key # <<>> /\ Lacks(key, "=") /\ Lacks(key, Semicolon) /\ Lacks(key, Space)

LEMMA TagTextFacts ==
    ASSUME NEW key, TagKey(key), NEW v \in Seq(Char), Clean(v)
    PROVE  /\ TagItem(TagText(key, v)) /\ TagText(key, v) \in Seq(Char)
           /\ TagText(key, v)[1] = key[1]
           /\ Tag_parse(TagText(key, v)) = [key |-> key, value |-> v]
           /\ key[1] # "+" => TagText(key, v) \in Named
<1>1. /\ key \in Seq(Char) /\ key # <<>> /\ Lacks(key, "=") /\ Lacks(key, Semicolon)
      /\ Lacks(key, Space) /\ "=" \in Char
  BY DEF TagKey, Char
<1> DEFINE w == Cut(key, "=", v)
<1>2. TagText(key, v) = w
  BY <1>1, CutIsCat DEF TagText
<1>3. "=" # Semicolon /\ "=" # Space
  BY SpecialChars DEF Whitespace
<1>4. Lacks(v, Semicolon) /\ Lacks(v, Space)
  BY DEF Clean, Lacks, Whitespace
<1>5. Lacks(w, Semicolon) /\ Lacks(w, Space)
  BY <1>1, <1>3, <1>4, LacksCut
<1>6. Tag_parse(w) = [key |-> key, value |-> v]
  BY <1>1, <1>2, TagParsed DEF TagText
<1>7. w \in Seq(Char) /\ w # <<>> /\ w[1] = key[1]
  <2>1. IsCut(w, key, "=", v)
    BY <1>1, CutIsCut
  <2>2. Len(key) \in Nat \ {0} /\ Len(v) \in Nat /\ 1 \in 1 .. Len(key)
    BY <1>1
  <2> HIDE DEF w
  <2>3. Len(w) = Len(key) + 1 + Len(v) /\ w[1] = key[1] /\ w \in Seq(Char)
    BY <2>1, <2>2 DEF IsCut
  <2> QED BY <2>2, <2>3
<1>8. key[1] # "="
  BY <1>1 DEF Lacks
<1> HIDE DEF w
<1>9. key[1] # "+" => w \in Named
  <2>1. IsPrefix(<<"+", "=">>, w) => w[1] = "+"
    <3> DEFINE f == <<"+", "=">>
    <3>1. Len(f) = 2 /\ SubSeq(f, 1, 2)[1] = "+"
      OBVIOUS
    <3> HIDE DEF f
    <3>2. IsPrefix(f, w) => Len(w) >= 2 /\ SubSeq(f, 1, 2) = SubSeq(w, 1, 2)
      BY <3>1, <1>7 DEF IsPrefix
    <3>3. Len(w) >= 2 => SubSeq(w, 1, 2)[1] = w[1]
      BY <1>7
    <3>4. IsPrefix(f, w) => w[1] = "+"
      BY <3>1, <3>2, <3>3
    <3> QED BY <3>4 DEF f
  <2> QED BY <1>7, <1>8, <2>1 DEF Named
<1> QED BY <1>2, <1>5, <1>6, <1>7, <1>9 DEF TagItem

LEMMA TagKeys ==
    /\ TagKey(<<"k">>) /\ TagKey(<<"time">>) /\ TagKey(<<"msgid">>)
    /\ \A c \in {"t", "d"} : write_escaped(<<c>>) = <<c>> /\ Clean(<<c>>) /\ <<c>> \in Seq(Char)
                             /\ c \notin Whitespace
<1>1. ASSUME NEW c \in {"k", "time", "msgid"} PROVE TagKey(<<c>>)
  <2>1. c \in Char /\ c # "="
    BY DEF Char
  <2>2. c # Semicolon /\ c # Space
    BY Zenon DEF Semicolon, Space
  <2>3. Lacks(<<c>>, "=") /\ Lacks(<<c>>, Semicolon) /\ Lacks(<<c>>, Space)
    BY <2>1, <2>2, LacksOne
  <2> QED BY <2>1, <2>3 DEF TagKey
<1>2. ASSUME NEW c \in {"t", "d"} PROVE write_escaped(<<c>>) = <<c>> /\ Clean(<<c>>) /\ <<c>> \in Seq(Char)
                                        /\ c \notin Whitespace
  <2>1. c \in Char /\ c # "CR" /\ c # "LF" /\ c # "\\"
    BY DEF Char
  <2>2. c # Semicolon /\ c # Space
    BY Zenon DEF Semicolon, Space
  <2>3. escaped(c) = <<c>>
    BY <2>1, <2>2 DEF escaped
  <2>4. c \notin Whitespace
    BY <2>1, <2>2 DEF Whitespace
  <2> QED BY <2>1, <2>2, <2>3, <2>4, WriteOne DEF Clean
<1> QED BY <1>1, <1>2

LEMMA TagIs ==
    ASSUME NEW buf, NEW key \in Seq(Char), NEW v \in Seq(Char)
    PROVE  tag(buf, key, v) = raw_tag(buf, TagText(key, write_escaped(v)))
BY DEF tag, TagText

\* The last character of what is written after a TagBuffer.
LEMMA RawTagEnds ==
    ASSUME NEW buf, NEW x, TagBuf(buf, x), NEW s, TagItem(s)
    PROVE  raw_tag(buf, s)[Len(raw_tag(buf, s))] = s[Len(s)]
<1>1. buf \in Seq(Char) /\ s \in Seq(Char) /\ s # <<>> /\ Semicolon \in Char
  BY DEF TagBuf, TagItem, Char
<1> DEFINE b == IF Len(buf) = 1 THEN buf ELSE Append(buf, Semicolon)
<1>2. b \in Seq(Char) /\ raw_tag(buf, s) = b \o s
  BY <1>1 DEF raw_tag
<1> HIDE DEF b
<1>3. Len(b) \in Nat /\ Len(s) \in Nat \ {0} /\ Len(b \o s) = Len(b) + Len(s)
  BY <1>1, <1>2
<1>4. \A i \in 1 .. Len(s) : (b \o s)[Len(b) + i] = s[i]
  BY <1>1, <1>2
<1>5. Len(s) \in 1 .. Len(s)
  BY <1>3
<1>6. (b \o s)[Len(b) + Len(s)] = s[Len(s)]
  BY <1>4, <1>5
<1> QED BY <1>2, <1>3, <1>6

LEMMA TextEnds ==
    ASSUME NEW key \in Seq(Char), NEW c \in Char
    PROVE  TagText(key, <<c>>)[Len(TagText(key, <<c>>))] = c
<1> DEFINE u == key \o <<"=">>
<1>1. "=" \in Char
  BY DEF Char
<1>2. u \in Seq(Char)
  BY <1>1
<1> HIDE DEF u
<1>3. Len(u \o <<c>>) = Len(u) + 1 /\ (u \o <<c>>)[Len(u) + 1] = c
  BY <1>2
<1> QED BY <1>3 DEF TagText, u

LEMMA TagValueIsKept ==
    ASSUME text \in Seq(Char)
    PROVE  TagValueKept
<1> DEFINE E    == write_escaped(text)
           i1   == TagText(<<"k">>, E)
           i2   == TagText(<<"time">>, Now)
           b1   == raw_tag(<<"@">>, i1)
           b2   == raw_tag(b1, i2)
           both == <<i1, i2>>
<1>1. E \in Seq(Char) /\ Clean(E) /\ unescape_value(E) = text
  BY WrittenIsClean, ReadWhatIsWritten
<1>2. Now \in Seq(Char) /\ Clean(Now) /\ write_escaped(Now) = Now
  BY TagKeys DEF Now
<1>3. /\ TagItem(i1) /\ i1 \in Named /\ Tag_parse(i1) = [key |-> <<"k">>, value |-> E]
      /\ TagItem(i2) /\ i2 \in Named /\ Tag_parse(i2) = [key |-> <<"time">>, value |-> Now]
  <2>1. <<"k">>[1] # "+" /\ <<"time">>[1] # "+"
    OBVIOUS
  <2> QED BY <1>1, <1>2, <2>1, TagKeys, TagTextFacts
<1>4. tag(tag(<<"@">>, <<"k">>, text), <<"time">>, Now) = b2
  <2>1. <<"k">> \in Seq(Char) /\ <<"time">> \in Seq(Char)
    BY TagKeys DEF TagKey
  <2> QED BY <1>2, <2>1, TagIs
<1>5. i1 \in Seq(Char) /\ i2 \in Seq(Char) /\ both = Append(Append(<<>>, i1), i2)
  BY <1>3 DEF TagItem
<1>6. i2[Len(i2)] \notin Whitespace
  <2>1. <<"time">> \in Seq(Char) /\ "t" \in Char /\ "t" \notin Whitespace
    BY TagKeys DEF TagKey, Char
  <2> QED BY <2>1, TextEnds DEF Now
<1> HIDE DEF i1, i2, E
<1>7. TagBuf(b1, Append(<<>>, i1))
  BY <1>3, EmptyTagBuf, RawTagFacts
<1>8. TagBuf(b2, both)
  BY <1>3, <1>5, <1>7, RawTagFacts
<1>9. b2[Len(b2)] \notin Whitespace
  BY <1>3, <1>6, <1>7, RawTagEnds
<1> HIDE DEF b2
<1>10. parse_tags(b2 \o <<Space, "x">>).word = Tail(b2)
  <2>1. b2 \in Seq(Char) /\ <<"x">> \in Seq(Char)
    BY <1>8 DEF TagBuf, Char
  <2>2. b2 \o <<Space, "x">> = Cut(b2, Space, <<"x">>)
    <3>1. Space \in Char /\ "x" \in Char
      BY DEF Char
    <3> QED BY <2>1, <3>1 DEF Cut
  <2>3. parse_tags(Cut(b2, Space, <<"x">>)) = [word |-> Tail(b2), rest |-> trim(<<"x">>)]
    BY <1>8, <1>9, <2>1, TagBufRead
  <2>4. parse_tags(Cut(b2, Space, <<"x">>)).word = Tail(b2)
    <3> DEFINE p == parse_tags(Cut(b2, Space, <<"x">>))
               t == Tail(b2)
               r == trim(<<"x">>)
    <3>1. p = [word |-> t, rest |-> r]
      BY <2>3
    <3> HIDE DEF p, t, r
    <3>2. p.word = t
      BY <3>1
    <3> QED BY <3>2 DEF p, t
  <2> QED BY <2>2, <2>4, Zenon
<1>11. Sift(both, Named) = both
  <2>1. both \in Seq(Seq(Char)) /\ \A i \in 1 .. Len(both) : both[i] \in Named
    BY <1>3, <1>5
  <2> HIDE DEF both
  <2> QED BY <2>1, SiftAll
<1>12. tags_of(Tail(b2)) = [n \in 1 .. 2 |-> Tag_parse(both[n])]
  <2>1. both \in Seq(Seq(Char)) /\ Len(both) = 2 /\ both # <<>>
    BY <1>5
  <2> HIDE DEF both
  <2> DEFINE t == Tail(b2)
  <2>2. Splits(t, Semicolon, both) /\ t \in Seq(Char)
    BY <1>8, <2>1 DEF TagBuf
  <2> HIDE DEF t
  <2>3. tags_of(t) = [n \in 1 .. Len(Sift(both, Named)) |-> Tag_parse(Sift(both, Named)[n])]
    BY <2>1, <2>2, TagsOf
  <2> QED BY <1>11, <2>1, <2>3 DEF t
<1> DEFINE read == tags_of(Tail(b2))
<1>13. Len(read) = 2 /\ read[1] = [key |-> <<"k">>, value |-> E]
       /\ read[2] = [key |-> <<"time">>, value |-> Now]
  BY <1>3, <1>12
<1> HIDE DEF read
<1>14. read[1].key = <<"k">> /\ unescape_value(read[1].value) = text
  BY <1>1, <1>13
<1> QED BY <1>4, <1>10, <1>13, <1>14 DEF TagValueKept, read

-----------------------------------------------------------------------------
(* Words *)

\* A line, or a part of one: NUL is nowhere, and a line ends only at its end.
OneLine(s) ==
    /\ s \in Seq(Char) /\ Lacks(s, "NUL")
    /\ \A i \in 1 .. Len(s) : s[i] \in {"CR", "LF"} => i = Len(s)

PartAt(t, s, a) ==
    /\ t \in Seq(Char) /\ a \in Nat /\ a + Len(t) <= Len(s)
    /\ \A i \in 1 .. Len(t) : t[i] = s[a + i]

LEMMA PartOfLine ==
    ASSUME NEW s, OneLine(s), NEW t, NEW a, PartAt(t, s, a)
    PROVE  OneLine(t)
<1>1. /\ s \in Seq(Char) /\ t \in Seq(Char) /\ a \in Nat /\ a + Len(t) <= Len(s)
      /\ (\A i \in 1 .. Len(t) : t[i] = s[a + i]) /\ Len(s) \in Nat /\ Len(t) \in Nat
      /\ \A i \in 1 .. Len(s) : s[i] # "NUL" /\ (s[i] \in {"CR", "LF"} => i = Len(s))
  BY DEF OneLine, PartAt, Lacks
<1>2. ASSUME NEW i \in 1 .. Len(t)
      PROVE  t[i] # "NUL" /\ (t[i] \in {"CR", "LF"} => i = Len(t))
  <2>1. a + i \in 1 .. Len(s) /\ (a + i = Len(s) => i = Len(t))
    BY <1>1
  <2> QED BY <1>1, <2>1
<1> QED BY <1>1, <1>2 DEF OneLine, Lacks

LEMMA TrimOfLine ==
    ASSUME NEW s, OneLine(s)
    PROVE  OneLine(trim(s)) /\ Trimmed(trim(s)) /\ OneLine(trim_start(s))
           /\ (trim_start(s) # <<>> => trim_start(s)[1] \notin Whitespace)
<1>1. s \in Seq(Char)
  BY DEF OneLine
<1>2. OneLine(trim(s)) /\ Trimmed(trim(s))
  <2>1. PICK a \in Nat : trim(s) \in Seq(Char) /\ Trims(s, a, trim(s))
    BY <1>1, TrimFacts
  <2>2. PartAt(trim(s), s, a) /\ Trimmed(trim(s))
    BY <2>1 DEF Trims, PartAt
  <2> QED BY <2>2, PartOfLine
<1>3. OneLine(trim_start(s)) /\ (trim_start(s) # <<>> => trim_start(s)[1] \notin Whitespace)
  <2>1. PICK a \in 0 .. Len(s) : /\ trim_start(s) = From(s, a)
                                 /\ a < Len(s) => s[a + 1] \notin Whitespace
    BY <1>1, TrimStartFacts
  <2> DEFINE t == trim_start(s)
  <2>2. t \in Seq(Char) /\ Len(t) = Len(s) - a /\ \A i \in 1 .. Len(s) - a : t[i] = s[a + i]
    BY <1>1, <2>1, FromFacts
  <2> HIDE DEF t
  <2>3. Len(s) \in Nat /\ a \in Nat
    BY <1>1
  <2>4. PartAt(t, s, a)
    BY <2>2, <2>3 DEF PartAt
  <2>5. t # <<>> => t[1] \notin Whitespace
    <3>1. t # <<>> => Len(t) > 0
      BY <2>2
    <3>2. Len(t) > 0 => 1 \in 1 .. Len(s) - a /\ a < Len(s)
      BY <2>2, <2>3
    <3> QED BY <2>1, <2>2, <3>1, <3>2
  <2> QED BY <2>4, <2>5, PartOfLine DEF t
<1> QED BY <1>2, <1>3

Started(s) == s # <<>> => s[1] \notin Whitespace

LEMMA LacksPart ==
    ASSUME NEW s, NEW t, NEW a, PartAt(t, s, a), s \in Seq(Char), NEW c, Lacks(s, c)
    PROVE  Lacks(t, c)
<1> SUFFICES ASSUME NEW i \in 1 .. Len(t) PROVE t[i] # c
  BY DEF Lacks
<1>1. t \in Seq(Char) /\ a \in Nat /\ a + Len(t) <= Len(s) /\ t[i] = s[a + i]
  BY DEF PartAt
<1>2. a + i \in 1 .. Len(s)
  BY <1>1
<1> QED BY <1>1, <1>2 DEF Lacks

\* What trim leaves of a text that does not start with white space.
LEMMA TrimStarted ==
    ASSUME NEW s \in Seq(Char), s # <<>>, s[1] \notin Whitespace
    PROVE  trim(s) # <<>> /\ trim(s)[1] = s[1]
<1>1. PICK a \in Nat : trim(s) \in Seq(Char) /\ Trims(s, a, trim(s))
  BY TrimFacts
<1> DEFINE t == trim(s)
<1> HIDE DEF t
<1>2. /\ t \in Seq(Char) /\ a + Len(t) <= Len(s) /\ (\A i \in 1 .. Len(t) : t[i] = s[a + i])
      /\ \A i \in 1 .. Len(s) : i <= a \/ a + Len(t) < i => s[i] \in Whitespace
  BY <1>1 DEF t, Trims
<1>3. Len(s) \in Nat \ {0} /\ Len(t) \in Nat /\ 1 \in 1 .. Len(s)
  BY <1>2
<1>4. ~(1 <= a) /\ ~(a + Len(t) < 1)
  BY <1>2, <1>3
<1>5. a = 0 /\ 1 \in 1 .. Len(t) /\ a + 1 = 1
  BY <1>3, <1>4
<1>6. t # <<>> /\ t[1] = s[1]
  BY <1>2, <1>5
<1> QED BY <1>6 DEF t

LEMMA WordFacts ==
    ASSUME NEW s, OneLine(s), Started(s)
    PROVE  /\ OneLine(parse_word(s).word) /\ Trimmed(parse_word(s).word)
           /\ Lacks(parse_word(s).word, Space)
           /\ OneLine(parse_word(s).rest) /\ Trimmed(parse_word(s).rest)
           /\ s = <<>> => parse_word(s) = [word |-> <<>>, rest |-> <<>>]
           /\ s # <<>> => parse_word(s).word # <<>> /\ parse_word(s).word[1] = s[1]
<1>1. s \in Seq(Char)
  BY DEF OneLine
<1>2. OneLine(<<>>) /\ Trimmed(<<>>) /\ trim(<<>>) = <<>>
  <2>1. <<>> \in Seq(Char) /\ OneLine(<<>>) /\ Trimmed(<<>>)
    BY DEF OneLine, Lacks, Trimmed
  <2> QED BY <2>1, TrimOfTrimmed
<1>3. CASE Lacks(s, Space)
  <2> DEFINE t == trim(s)
             e == <<>>
  <2>1. parse_word(s) = [word |-> t, rest |-> e]
    BY <1>1, <1>3, WordWhole
  <2>2. OneLine(t) /\ Trimmed(t)
    BY TrimOfLine
  <2>3. Lacks(t, Space)
    <3>1. PICK a \in Nat : t \in Seq(Char) /\ Trims(s, a, t)
      BY <1>1, TrimFacts
    <3> HIDE DEF t
    <3>2. PartAt(t, s, a)
      BY <3>1 DEF Trims, PartAt
    <3> QED BY <1>1, <1>3, <3>2, LacksPart
  <2>4. s = <<>> => t = e
    BY <1>2
  <2>5. s # <<>> => t # <<>> /\ t[1] = s[1]
    BY <1>1, TrimStarted DEF Started
  <2>6. OneLine(e) /\ Trimmed(e)
    BY <1>2
  <2> DEFINE p == parse_word(s)
  <2> HIDE DEF t, p, e
  <2>7. p.word = t /\ p.rest = e
    BY <2>1 DEF p
  <2>8. e = <<>>
    BY DEF e
  <2> QED BY <2>1, <2>2, <2>3, <2>4, <2>5, <2>6, <2>7, <2>8 DEF p
<1>4. ASSUME NEW u \in Seq(Char), NEW v \in Seq(Char), Lacks(u, Space), s = Cut(u, Space, v)
      PROVE  /\ OneLine(parse_word(s).word) /\ Trimmed(parse_word(s).word)
             /\ Lacks(parse_word(s).word, Space)
             /\ OneLine(parse_word(s).rest) /\ Trimmed(parse_word(s).rest)
             /\ s # <<>> /\ parse_word(s).word # <<>> /\ parse_word(s).word[1] = s[1]
  <2>1. IsCut(s, u, Space, v)
    BY <1>4, SpaceIsChar, CutIsCut
  <2>2. Len(u) \in Nat /\ Len(v) \in Nat /\ Len(s) = Len(u) + 1 + Len(v) /\ s # <<>>
        /\ s[Len(u) + 1] = Space /\ (\A i \in 1 .. Len(u) : s[i] = u[i])
        /\ \A i \in 1 .. Len(v) : s[Len(u) + 1 + i] = v[i]
    BY <2>1 DEF IsCut
  <2>3. s[1] \notin Whitespace /\ Space \in Whitespace
    BY <2>2 DEF Started, Whitespace
  <2>4. Len(u) # 0
    BY <2>2, <2>3
  <2>5. u # <<>> /\ 1 \in 1 .. Len(u) /\ u[1] = s[1]
    BY <2>2, <2>4
  <2>6. PartAt(u, s, 0)
    BY <2>2 DEF PartAt
  <2>7. PartAt(v, s, Len(u) + 1)
    BY <2>2 DEF PartAt
  <2>8. OneLine(u) /\ OneLine(v)
    BY <2>6, <2>7, PartOfLine
  <2> DEFINE t == trim(u)
             r == trim(v)
             p == parse_word(s)
  <2>9. t # <<>> /\ t[1] = s[1]
    BY <2>3, <2>5, TrimStarted
  <2>10. p = [word |-> t, rest |-> r]
    BY <1>4, <2>9, WordCut
  <2>11. OneLine(t) /\ Trimmed(t) /\ OneLine(r) /\ Trimmed(r)
    BY <2>8, TrimOfLine
  <2>12. Lacks(t, Space)
    <3>1. PICK a \in Nat : t \in Seq(Char) /\ Trims(u, a, t)
      BY TrimFacts
    <3> HIDE DEF t
    <3>2. PartAt(t, u, a)
      BY <3>1 DEF Trims, PartAt
    <3> QED BY <1>4, <3>2, LacksPart
  <2> HIDE DEF t, r, p
  <2>13. p.word = t /\ p.rest = r
    BY <2>10
  <2> QED BY <2>2, <2>9, <2>11, <2>12, <2>13 DEF p
<1>5. CASE ~Lacks(s, Space)
  <2>1. PICK u \in Seq(Char), v \in Seq(Char) : Lacks(u, Space) /\ s = Cut(u, Space, v)
    BY <1>1, <1>5, CutOrWhole
  <2> QED BY <1>4, <2>1
<1> QED BY <1>3, <1>5

-----------------------------------------------------------------------------
(* Parameters *)

\* f is what the loop over the parameters has after each turn.
ParamsLoop(f, buf, n) ==
    /\ f[0] = [rest |-> buf, params |-> <<>>]
    /\ \A k \in 1 .. n : f[k] = next_param(f[k - 1])

LEMMA ParamsAre ==
    ASSUME NEW buf
    PROVE  \E f : ParamsLoop(f, buf, ParamsLength) /\ parse_params(buf) = f[ParamsLength].params
<1> DEFINE base == [rest |-> buf, params |-> <<>>]
           Obeys(g, n) == g = [k \in 0 .. n |-> IF k = 0 THEN base ELSE next_param(g[k - 1])]
           T == {n \in Nat : \E g : Obeys(g, n)}
           N == ParamsLength
<1>1. 0 \in T
  <2> DEFINE g == [k \in 0 .. 0 |-> base]
  <2> HIDE DEF base
  <2>1. Obeys(g, 0)
    OBVIOUS
  <2> QED BY <2>1
<1>2. ASSUME NEW n \in Nat, n \in T PROVE n + 1 \in T
  <2> HIDE DEF base
  <2>1. PICK g : Obeys(g, n)
    BY <1>2
  <2> DEFINE h == [k \in 0 .. n + 1 |-> IF k = n + 1 THEN next_param(g[n]) ELSE g[k]]
  <2>2. ASSUME NEW k \in 0 .. n + 1
        PROVE  h[k] = IF k = 0 THEN base ELSE next_param(h[k - 1])
    <3>1. CASE k = n + 1
      BY <3>1
    <3>2. CASE k # n + 1
      <4>1. k \in 0 .. n /\ h[k] = g[k]
        BY <3>2
      <4>2. g[k] = IF k = 0 THEN base ELSE next_param(g[k - 1])
        BY <2>1, <4>1
      <4>3. k # 0 => h[k - 1] = g[k - 1]
        BY <4>1
      <4> QED BY <4>1, <4>2, <4>3
    <3> QED BY <3>1, <3>2
  <2> HIDE DEF h
  <2>3. Obeys(h, n + 1)
    BY <2>2 DEF h
  <2>4. \E f : Obeys(f, n + 1)
    BY <2>3
  <2>5. n + 1 \in Nat
    OBVIOUS
  <2> HIDE DEF Obeys
  <2> QED BY <2>4, <2>5
<1>3. N \in T
  <2> HIDE DEF T
  <2>1. \A n \in Nat : n \in T
    BY <1>1, <1>2, SetInduction
  <2> QED BY <2>1, ParamsAssumption
<1>4. \E g : Obeys(g, N)
  BY <1>3
<1> DEFINE f == CHOOSE g : Obeys(g, N)
<1>5. Obeys(f, N)
  <2> HIDE DEF Obeys
  <2> QED BY <1>4
<1>6. parse_params(buf) = f[N].params
  BY Zenon DEF parse_params
<1> HIDE DEF f
<1>7. f[0] = base
  <2>1. 0 \in 0 .. N
    BY ParamsAssumption
  <2> HIDE DEF base
  <2> QED BY <1>5, <2>1
<1>8. ASSUME NEW k \in 1 .. N PROVE f[k] = next_param(f[k - 1])
  <2>1. k \in 0 .. N /\ k # 0
    BY ParamsAssumption
  <2> HIDE DEF base
  <2> QED BY <1>5, <2>1
<1> QED BY <1>6, <1>7, <1>8 DEF ParamsLoop

\* A parameter that is read from a line.
Param(p) == OneLine(p) /\ (p # <<>> => p[Len(p)] \notin Whitespace)

\* Where the loop is.
Reads(st) ==
    /\ OneLine(st.rest) /\ Trimmed(st.rest)
    /\ st.params \in Seq(Seq(Char)) /\ \A i \in 1 .. Len(st.params) : Param(st.params[i])

LEMMA ColonTail ==
    ASSUME NEW s, OneLine(s), Trimmed(s), s # <<>>
    PROVE  Param(Tail(s)) /\ Tail(s) \in Seq(Char)
<1> DEFINE t == Tail(s)
<1>1. s \in Seq(Char) /\ Len(s) \in Nat \ {0}
  BY DEF OneLine
<1>2. t \in Seq(Char) /\ Len(t) = Len(s) - 1 /\ \A i \in 1 .. Len(s) - 1 : t[i] = s[i + 1]
  BY <1>1
<1> HIDE DEF t
<1>3. \A i \in 1 .. Len(t) : t[i] = s[1 + i]
  BY <1>2
<1>4. PartAt(t, s, 1)
  BY <1>1, <1>2, <1>3 DEF PartAt
<1>5. t # <<>> => t[Len(t)] = s[Len(s)]
  <2>1. t # <<>> => Len(t) > 0
    BY <1>2
  <2>2. Len(t) > 0 => Len(t) \in 1 .. Len(t) /\ 1 + Len(t) = Len(s)
    BY <1>1, <1>2
  <2> QED BY <1>3, <2>1, <2>2
<1>6. s[Len(s)] \notin Whitespace
  BY DEF Trimmed
<1>7. OneLine(t)
  BY <1>4, PartOfLine
<1> QED BY <1>2, <1>5, <1>6, <1>7 DEF Param, t

LEMMA StepRecords ==
    ASSUME NEW r, NEW q, NEW st, st = [rest |-> r, params |-> q]
    PROVE  st.rest = r /\ st.params = q
OBVIOUS

LEMMA ReadsOn ==
    ASSUME NEW st, Reads(st)
    PROVE  /\ Reads(next_param(st))
           /\ \/ next_param(st).params = st.params /\ next_param(st) = st
              \/ \E p : Param(p) /\ p \in Seq(Char) /\ next_param(st).params = Append(st.params, p)
<1>1. OneLine(st.rest) /\ Trimmed(st.rest) /\ st.params \in Seq(Seq(Char))
      /\ \A i \in 1 .. Len(st.params) : Param(st.params[i])
  BY DEF Reads
<1>2. CASE st.rest = <<>>
  <2>1. next_param(st) = st
    BY <1>2, Zenon DEF next_param
  <2> QED BY <2>1
<1>3. ASSUME NEW r, NEW p, OneLine(r), Trimmed(r), Param(p), p \in Seq(Char),
             next_param(st) = [rest |-> r, params |-> Append(st.params, p)]
      PROVE  Reads(next_param(st)) /\ next_param(st).params = Append(st.params, p)
  <2> DEFINE q == Append(st.params, p)
             z == next_param(st)
  <2>1. q \in Seq(Seq(Char)) /\ Len(q) = Len(st.params) + 1 /\ Len(st.params) \in Nat
        /\ (\A i \in 1 .. Len(st.params) : q[i] = st.params[i]) /\ q[Len(st.params) + 1] = p
    BY <1>1, <1>3
  <2> HIDE DEF q, z
  <2>2. z.rest = r /\ z.params = q
    BY <1>3, StepRecords DEF z, q
  <2>3. ASSUME NEW i \in 1 .. Len(q) PROVE Param(q[i])
    <3>1. CASE i = Len(st.params) + 1
      BY <1>3, <2>1, <3>1
    <3>2. CASE i # Len(st.params) + 1
      <4>1. i \in 1 .. Len(st.params)
        BY <2>1, <3>2
      <4> QED BY <1>1, <2>1, <4>1
    <3> QED BY <3>1, <3>2
  <2>4. Reads(z)
    BY <1>3, <2>1, <2>2, <2>3 DEF Reads
  <2> QED BY <2>2, <2>4 DEF z, q
<1>4. CASE st.rest # <<>> /\ starts_with(st.rest, ":")
  <2>1. next_param(st) = [rest |-> <<>>, params |-> Append(st.params, Tail(st.rest))]
    BY <1>4, Zenon DEF next_param
  <2>2. OneLine(<<>>) /\ Trimmed(<<>>)
    BY DEF OneLine, Lacks, Trimmed
  <2>3. Param(Tail(st.rest)) /\ Tail(st.rest) \in Seq(Char)
    BY <1>1, <1>4, ColonTail
  <2> QED BY <1>3, <2>1, <2>2, <2>3
<1>5. CASE st.rest # <<>> /\ ~starts_with(st.rest, ":")
  <2> DEFINE w == parse_word(st.rest)
  <2>1. next_param(st) = [rest |-> w.rest, params |-> Append(st.params, w.word)]
    BY <1>5, Zenon DEF next_param
  <2>2. Started(st.rest)
    BY <1>1 DEF Started, Trimmed
  <2>3. OneLine(w.rest) /\ Trimmed(w.rest) /\ OneLine(w.word) /\ Trimmed(w.word)
    BY <1>1, <2>2, WordFacts
  <2> HIDE DEF w
  <2>4. Param(w.word) /\ w.word \in Seq(Char)
    BY <2>3 DEF Param, Trimmed, OneLine
  <2> QED BY <1>3, <2>1, <2>3, <2>4
<1> QED BY <1>2, <1>4, <1>5

\* Every parameter of a line is read from it.
LEMMA ParamsFacts ==
    ASSUME NEW buf, OneLine(buf), Trimmed(buf)
    PROVE  /\ parse_params(buf) \in Seq(Seq(Char))
           /\ \A i \in 1 .. Len(parse_params(buf)) : Param(parse_params(buf)[i])
<1> DEFINE N == ParamsLength
<1>1. PICK f : ParamsLoop(f, buf, N) /\ parse_params(buf) = f[N].params
  BY ParamsAre
<1> DEFINE K == {k \in Nat : k <= N => Reads(f[k])}
<1>2. 0 \in K
  <2>1. f[0].rest = buf /\ f[0].params = <<>>
    BY <1>1, StepRecords DEF ParamsLoop
  <2>2. Reads(f[0])
    BY <2>1 DEF Reads
  <2> QED BY <2>2
<1>3. ASSUME NEW k \in Nat, k \in K PROVE k + 1 \in K
  <2> SUFFICES ASSUME k + 1 <= N PROVE Reads(f[k + 1])
    OBVIOUS
  <2>1. k + 1 \in 1 .. N /\ (k + 1) - 1 = k /\ k <= N
    BY ParamsAssumption
  <2>2. Reads(f[k])
    BY <1>3, <2>1
  <2>3. f[k + 1] = next_param(f[k])
    BY <1>1, <2>1 DEF ParamsLoop
  <2> QED BY <2>2, <2>3, ReadsOn
<1>4. N \in K
  <2> HIDE DEF K
  <2>1. \A k \in Nat : k \in K
    BY <1>2, <1>3, SetInduction
  <2> QED BY <2>1, ParamsAssumption
<1>5. Reads(f[N])
  BY <1>4, ParamsAssumption
<1> QED BY <1>1, <1>5 DEF Reads

-----------------------------------------------------------------------------
(* Messages *)

LEMMA TagsPartFacts ==
    ASSUME NEW t, OneLine(t), Started(t)
    PROVE  /\ parse_tags(t).word \in Seq(Char) /\ Lacks(parse_tags(t).word, "NUL")
           /\ Lacks(parse_tags(t).word, Space)
           /\ OneLine(parse_tags(t).rest) /\ Started(parse_tags(t).rest)
<1>1. CASE starts_with(t, "@")
  <2> DEFINE w == parse_word(t)
             b == w.word
             r == w.rest
             p == parse_tags(t)
  <2>1. t # <<>>
    BY <1>1 DEF starts_with
  <2>2. OneLine(b) /\ Lacks(b, Space) /\ OneLine(r) /\ Trimmed(r) /\ b # <<>>
    BY <2>1, WordFacts
  <2>3. PICK x, y : w = [word |-> x, rest |-> y]
    BY Zenon DEF parse_word
  <2>4. p = [w EXCEPT !.word = Tail(@)]
    BY <1>1, Zenon DEF parse_tags
  <2> HIDE DEF w, p
  <2>5. b = x /\ r = y /\ p = [word |-> Tail(x), rest |-> y]
    BY <2>3, <2>4, TailWord
  <2> HIDE DEF b, r
  <2>6. p.word = Tail(b) /\ p.rest = r
    <3> DEFINE u == Tail(x)
    <3>1. p = [word |-> u, rest |-> y]
      BY <2>5
    <3> HIDE DEF u
    <3>2. p.word = u /\ p.rest = y
      BY <3>1
    <3> QED BY <2>5, <3>2 DEF u
  <2>7. Tail(b) \in Seq(Char) /\ Lacks(Tail(b), "NUL") /\ Lacks(Tail(b), Space)
    <3> DEFINE u == Tail(b)
    <3>1. b \in Seq(Char) /\ Lacks(b, "NUL")
      BY <2>2 DEF OneLine
    <3>2. /\ u \in Seq(Char) /\ Len(u) = Len(b) - 1 /\ Len(b) \in Nat \ {0}
          /\ \A i \in 1 .. Len(b) - 1 : u[i] = b[i + 1]
      BY <2>2, <3>1
    <3> HIDE DEF u
    <3>3. \A i \in 1 .. Len(u) : u[i] = b[1 + i]
      BY <3>2
    <3>4. PartAt(u, b, 1)
      BY <3>2, <3>3 DEF PartAt
    <3>5. Lacks(u, "NUL") /\ Lacks(u, Space)
      BY <2>2, <3>1, <3>4, LacksPart
    <3> QED BY <3>2, <3>5 DEF u
  <2>8. Started(r)
    BY <2>2 DEF Started, Trimmed
  <2> QED BY <2>2, <2>6, <2>7, <2>8 DEF p
<1>2. CASE ~starts_with(t, "@")
  <2> DEFINE e == <<>>
             p == parse_tags(t)
  <2>1. p = [word |-> e, rest |-> t]
    BY <1>2, Zenon DEF parse_tags
  <2>2. e \in Seq(Char) /\ Lacks(e, "NUL") /\ Lacks(e, Space)
    BY DEF Lacks
  <2> HIDE DEF p, e
  <2>3. p.word = e /\ p.rest = t
    BY <2>1
  <2> QED BY <2>2, <2>3 DEF p
<1> QED BY <1>1, <1>2

LEMMA PrefixPartFacts ==
    ASSUME NEW t, OneLine(t), Started(t)
    PROVE  OneLine(parse_prefix(t).rest) /\ Started(parse_prefix(t).rest)
<1>1. CASE starts_with(t, ":")
  <2> DEFINE w == parse_word(t)
             r == w.rest
             p == parse_prefix(t)
  <2>1. OneLine(r) /\ Trimmed(r)
    BY WordFacts
  <2>2. PICK x, y : w = [word |-> x, rest |-> y]
    BY Zenon DEF parse_word
  <2>3. p = [w EXCEPT !.word = <<Tail(@)>>]
    BY <1>1, Zenon DEF parse_prefix
  <2> HIDE DEF w, p
  <2>4. r = y /\ p = [word |-> <<Tail(x)>>, rest |-> y]
    BY <2>2, <2>3, TailWord
  <2> HIDE DEF r
  <2>5. p.rest = r
    <3> DEFINE u == <<Tail(x)>>
    <3>1. p = [word |-> u, rest |-> y]
      BY <2>4
    <3> HIDE DEF u
    <3> QED BY <2>4, <3>1
  <2>6. Started(r)
    BY <2>1 DEF Started, Trimmed
  <2> QED BY <2>1, <2>5, <2>6 DEF p
<1>2. CASE ~starts_with(t, ":")
  <2> DEFINE r == trim_start(t)
             p == parse_prefix(t)
  <2>1. p = [word |-> <<>>, rest |-> r]
    BY <1>2, Zenon DEF parse_prefix
  <2>2. OneLine(r) /\ Started(r)
    BY TrimOfLine DEF Started
  <2> HIDE DEF p, r
  <2>3. p.rest = r
    BY <2>1
  <2> QED BY <2>2, <2>3 DEF p
<1> QED BY <1>1, <1>2

\* A message has parts that are read from its line.
MessageRead(m) ==
    /\ m.tags \in Seq(Char) /\ Lacks(m.tags, "NUL") /\ Lacks(m.tags, Space)
    /\ m.params \in Seq(Seq(Char)) /\ \A i \in 1 .. Len(m.params) : Param(m.params[i])

LEMMA MessageParts ==
    ASSUME NEW a, NEW b, NEW c, NEW d, NEW m,
           m = [tags |-> a, prefix |-> b, command |-> c, params |-> d]
    PROVE  m.tags = a /\ m.prefix = b /\ m.command = c /\ m.params = d
OBVIOUS

LEMMA ParseFacts ==
    ASSUME NEW s \in Seq(Char), \A i \in 1 .. Len(s) : s[i] \in {"CR", "LF"} => i = Len(s),
           parse(s) # NoMessage
    PROVE  MessageRead(parse(s))
<1> DEFINE t       == trim_start(s)
           tags    == parse_tags(t)
           prefix  == parse_prefix(tags.rest)
           command == parse_word(prefix.rest)
           m       == [tags |-> tags.word, prefix |-> prefix.word, command |-> command.word,
                       params |-> parse_params(command.rest)]
<1>1. parse(s) = IF t = <<>> \/ Contains(s, "NUL") \/ command.word = <<>> THEN NoMessage ELSE m
  BY Zenon DEF parse
<1>2. parse(s) = m /\ ~Contains(s, "NUL")
  BY <1>1
<1>3. OneLine(s)
  <2>1. Lacks(s, "NUL")
    BY <1>2 DEF Contains, Lacks
  <2> QED BY <2>1 DEF OneLine
<1>4. OneLine(t) /\ Started(t)
  BY <1>3, TrimOfLine DEF Started
<1> HIDE DEF t
<1>5. tags.word \in Seq(Char) /\ Lacks(tags.word, "NUL") /\ Lacks(tags.word, Space)
      /\ OneLine(tags.rest) /\ Started(tags.rest)
  BY <1>4, TagsPartFacts
<1> HIDE DEF tags
<1>6. OneLine(prefix.rest) /\ Started(prefix.rest)
  BY <1>5, PrefixPartFacts
<1> HIDE DEF prefix
<1>7. OneLine(command.rest) /\ Trimmed(command.rest)
  BY <1>6, WordFacts
<1> HIDE DEF command
<1> DEFINE d == parse_params(command.rest)
<1>8. d \in Seq(Seq(Char)) /\ \A i \in 1 .. Len(d) : Param(d[i])
  BY <1>7, ParamsFacts
<1> HIDE DEF d
<1>9. m.tags = tags.word /\ m.params = d
  <2> DEFINE a == tags.word
             b == prefix.word
             c == command.word
  <2>1. m = [tags |-> a, prefix |-> b, command |-> c, params |-> d]
    BY DEF d
  <2> HIDE DEF a, b, c, m
  <2>2. m.tags = a /\ m.params = d
    BY <2>1, MessageParts
  <2> QED BY <2>2 DEF a
<1> HIDE DEF m
<1>10. MessageRead(m)
  BY <1>5, <1>8, <1>9 DEF MessageRead
<1> QED BY <1>2, <1>10

-----------------------------------------------------------------------------
(* What is relayed *)

LEMMA CutCat ==
    ASSUME NEW u \in Seq(Char), NEW c \in Char, NEW v \in Seq(Char), NEW w \in Seq(Char)
    PROVE  Cut(u, c, v \o w) = Cut(u, c, v) \o w
<1> DEFINE a == Append(u, c)
<1>1. a \in Seq(Char)
  OBVIOUS
<1> HIDE DEF a
<1>2. (a \o v) \o w = a \o (v \o w)
  BY <1>1, ConcatAssociative
<1> QED BY <1>2 DEF Cut, a

LEMMA CutCut ==
    ASSUME NEW u \in Seq(Char), NEW c \in Char, NEW v \in Seq(Char), NEW d \in Char, NEW w \in Seq(Char)
    PROVE  Cut(Cut(u, c, v), d, w) = Cut(u, c, Cut(v, d, w))
<1> DEFINE a == Append(u, c)
           b == Append(v, d)
           e == <<d>>
           x == a \o v
<1>1. a \in Seq(Char) /\ b \in Seq(Char) /\ e \in Seq(Char)
  OBVIOUS
<1>2. Cut(Cut(u, c, v), d, w) = Append(x, d) \o w /\ Cut(u, c, Cut(v, d, w)) = a \o (b \o w)
  BY DEF Cut
<1>3. \A y \in Seq(Char) : Append(y, d) = y \o e
  BY AppendIsConcat
<1> HIDE DEF a, b, e, x
<1>4. x \in Seq(Char)
  BY <1>1 DEF x
<1>5. b = v \o e /\ Append(x, d) = x \o e
  BY <1>3, <1>4 DEF b
<1>6. x \o e = a \o b
  <2>1. Regroups(a, v, e)
    BY <1>1, CatRegroups
  <2> QED BY <1>5, <2>1 DEF Regroups, x
<1>7. (a \o b) \o w = a \o (b \o w)
  <2>1. Regroups(a, b, w)
    BY <1>1, CatRegroups
  <2> QED BY <2>1 DEF Regroups
<1> QED BY <1>2, <1>5, <1>6, <1>7

LEMMA TrimmedStart ==
    ASSUME NEW s \in Seq(Char), s # <<>>, s[1] \notin Whitespace
    PROVE  trim_start(s) = s
<1>1. PICK a \in 0 .. Len(s) : trim_start(s) = From(s, a) /\ \A i \in 1 .. a : s[i] \in Whitespace
  BY TrimStartFacts
<1>2. a = 0
  <2>1. a # 0 => 1 \in 1 .. a
    OBVIOUS
  <2> QED BY <1>1, <2>1
<1>3. From(s, 0) = s
  <2>1. 0 \in 0 .. Len(s) /\ Len(s) - 0 = Len(s) /\ \A i \in 1 .. Len(s) : 0 + i = i
    OBVIOUS
  <2>2. From(s, 0) \in Seq(Char) /\ Len(From(s, 0)) = Len(s) /\ \A i \in 1 .. Len(s) : From(s, 0)[i] = s[i]
    BY <2>1, FromFacts
  <2> QED BY <2>2
<1> QED BY <1>1, <1>2, <1>3

\* The end of a line.
CrLf == <<"CR", "LF">>

LEMMA TrimDrop ==
    ASSUME NEW t \in Seq(Char), Trimmed(t)
    PROVE  trim(t \o CrLf) = t /\ t \o CrLf \in Seq(Char) /\ CrLf \in Seq(Char)
<1> DEFINE s == t \o CrLf
<1>1. CrLf \in Seq(Char) /\ Len(CrLf) = 2 /\ \A i \in 1 .. 2 : CrLf[i] \in Whitespace
  <2>1. "CR" \in Char /\ "LF" \in Char
    BY DEF Char
  <2> QED BY <2>1 DEF CrLf, Whitespace
<1>2. s \in Seq(Char) /\ Len(s) = Len(t) + 2 /\ Len(t) \in Nat
      /\ (\A i \in 1 .. Len(t) : s[i] = t[i]) /\ \A i \in 1 .. 2 : s[Len(t) + i] = CrLf[i]
  <2>1. ASSUME NEW e \in Seq(Char), e = CrLf
        PROVE  /\ t \o e \in Seq(Char) /\ Len(t \o e) = Len(t) + Len(e) /\ Len(t) \in Nat
               /\ (\A i \in 1 .. Len(t) : (t \o e)[i] = t[i])
               /\ \A i \in 1 .. Len(e) : (t \o e)[Len(t) + i] = e[i]
    BY CatFacts
  <2> QED BY <1>1, <2>1
<1> HIDE DEF s
<1>3. Trims(s, 0, t)
  <2>1. \A i \in 1 .. Len(t) : t[i] = s[0 + i]
    BY <1>2
  <2>2. ASSUME NEW i \in 1 .. Len(s), i <= 0 \/ 0 + Len(t) < i PROVE s[i] \in Whitespace
    <3> DEFINE j == i - Len(t)
    <3>1. j \in 1 .. 2 /\ i = Len(t) + j
      BY <1>2, <2>2
    <3> HIDE DEF j
    <3> QED BY <1>1, <1>2, <3>1
  <2>3. 0 + Len(t) <= Len(s)
    BY <1>2
  <2> QED BY <2>1, <2>2, <2>3 DEF Trims
<1>4. trim(s) = t
  BY <1>2, <1>3, TrimIs
<1> QED BY <1>1, <1>2, <1>4 DEF s

LEMMA CutTrimmed ==
    ASSUME NEW u \in Seq(Char), u # <<>>, u[1] \notin Whitespace, NEW c \in Char,
           NEW v \in Seq(Char), v # <<>>, v[Len(v)] \notin Whitespace
    PROVE  /\ Trimmed(Cut(u, c, v)) /\ Cut(u, c, v) \in Seq(Char) /\ Cut(u, c, v) # <<>>
           /\ Cut(u, c, v)[1] = u[1]
<1> DEFINE w == Cut(u, c, v)
<1>1. IsCut(w, u, c, v)
  BY CutIsCut
<1> HIDE DEF w
<1>2. Len(u) \in Nat \ {0} /\ Len(v) \in Nat \ {0} /\ 1 \in 1 .. Len(u) /\ Len(v) \in 1 .. Len(v)
  OBVIOUS
<1>3. w \in Seq(Char) /\ Len(w) = Len(u) + 1 + Len(v) /\ w[1] = u[1]
      /\ w[Len(u) + 1 + Len(v)] = v[Len(v)]
  BY <1>1, <1>2 DEF IsCut
<1>4. w # <<>>
  BY <1>2, <1>3
<1> QED BY <1>3, <1>4 DEF Trimmed, w

\* A word, as it can be written between spaces.
Word(t) ==
    /\ t \in Seq(Char) /\ t # <<>> /\ Lacks(t, Space) /\ Lacks(t, "NUL") /\ Trimmed(t)

LEMMA WordIs ==
    ASSUME NEW t, Word(t), NEW v \in Seq(Char)
    PROVE  /\ t \in Seq(Char) /\ t # <<>> /\ trim(t) = t /\ t[1] \notin Whitespace /\ t[Len(t)] \notin Whitespace
           /\ parse_word(t) = [word |-> t, rest |-> <<>>]
           /\ parse_word(Cut(t, Space, v)) = [word |-> t, rest |-> trim(v)]
<1>1. t \in Seq(Char) /\ t # <<>> /\ Lacks(t, Space) /\ Trimmed(t)
  BY DEF Word
<1>2. trim(t) = t
  BY <1>1, TrimOfTrimmed
<1>3. parse_word(t) = [word |-> t, rest |-> <<>>]
  BY <1>1, <1>2, WordWhole
<1>4. parse_word(Cut(t, Space, v)) = [word |-> t, rest |-> trim(v)]
  BY <1>1, <1>2, WordCut
<1>5. t[1] \notin Whitespace /\ t[Len(t)] \notin Whitespace
  BY <1>1 DEF Trimmed
<1> QED BY <1>1, <1>2, <1>3, <1>4, <1>5

-----------------------------------------------------------------------------
(* A line with one or two parameters *)

\* The loop has ended.
LEMMA LoopEnds ==
    ASSUME NEW f, NEW buf, ParamsLoop(f, buf, ParamsLength), NEW k \in 0 .. ParamsLength,
           f[k].rest = <<>>
    PROVE  f[ParamsLength] = f[k]
<1> DEFINE N == ParamsLength
           K == {j \in Nat : k <= j /\ j <= N => f[j] = f[k]}
<1>1. 0 \in K
  OBVIOUS
<1>2. ASSUME NEW j \in Nat, j \in K PROVE j + 1 \in K
  <2> DEFINE l == j + 1
  <2> SUFFICES ASSUME k <= l, l <= N PROVE f[l] = f[k]
    OBVIOUS
  <2>1. CASE k = l
    BY <2>1
  <2>2. CASE k # l
    <3>1. k <= j /\ j <= N /\ l \in 1 .. N /\ l - 1 = j
      BY <2>2, ParamsAssumption
    <3>2. f[j] = f[k]
      BY <1>2, <3>1
    <3>3. f[l] = next_param(f[j])
      BY <3>1 DEF ParamsLoop
    <3>4. next_param(f[k]) = f[k]
      BY Zenon DEF next_param
    <3> QED BY <3>2, <3>3, <3>4
  <2> QED BY <2>1, <2>2
<1>3. N \in K /\ N \in Nat
  <2>1. N \in Nat
    BY ParamsAssumption
  <2> HIDE DEF K, N
  <2> QED BY <1>1, <1>2, <2>1, SetInduction
<1> QED BY <1>3, ParamsAssumption

LEMMA FirstParam ==
    ASSUME NEW t, Word(t), ~starts_with(t, ":"), NEW v \in Seq(Char), NEW q
    PROVE  /\ next_param([rest |-> t, params |-> q]) = [rest |-> <<>>, params |-> Append(q, t)]
           /\ next_param([rest |-> Cut(t, Space, v), params |-> q]) =
                [rest |-> trim(v), params |-> Append(q, t)]
<1>1. /\ t \in Seq(Char) /\ t # <<>>
      /\ parse_word(t) = [word |-> t, rest |-> <<>>]
      /\ parse_word(Cut(t, Space, v)) = [word |-> t, rest |-> trim(v)]
  BY WordIs
<1>2. ASSUME NEW s, s # <<>>, ~starts_with(s, ":"), NEW r, parse_word(s) = [word |-> t, rest |-> r]
      PROVE  next_param([rest |-> s, params |-> q]) = [rest |-> r, params |-> Append(q, t)]
  <2> DEFINE st == [rest |-> s, params |-> q]
             w == parse_word(s)
  <2>1. st.rest = s /\ st.params = q
    OBVIOUS
  <2> HIDE DEF st
  <2>2. next_param(st) = [rest |-> w.rest, params |-> Append(q, w.word)]
    BY <1>2, <2>1, Zenon DEF next_param
  <2> HIDE DEF w
  <2>3. w.word = t /\ w.rest = r
    BY <1>2 DEF w
  <2> QED BY <2>2, <2>3 DEF st
<1>3. Cut(t, Space, v) # <<>> /\ ~starts_with(Cut(t, Space, v), ":")
  <2> DEFINE w == Cut(t, Space, v)
  <2>1. IsCut(w, t, Space, v)
    BY <1>1, SpaceIsChar, CutIsCut
  <2> HIDE DEF w
  <2>2. Len(t) \in Nat \ {0} /\ Len(v) \in Nat /\ 1 \in 1 .. Len(t)
    BY <1>1
  <2>3. w \in Seq(Char) /\ Len(w) = Len(t) + 1 + Len(v) /\ w[1] = t[1]
    BY <2>1, <2>2 DEF IsCut
  <2>4. w # <<>>
    BY <2>2, <2>3
  <2> QED BY <1>1, <2>3, <2>4 DEF starts_with, w
<1> DEFINE e == <<>>
<1>4. next_param([rest |-> t, params |-> q]) = [rest |-> e, params |-> Append(q, t)]
  <2> HIDE DEF e
  <2> QED BY <1>1, <1>2 DEF e
<1>5. next_param([rest |-> Cut(t, Space, v), params |-> q]) = [rest |-> trim(v), params |-> Append(q, t)]
  BY <1>1, <1>2, <1>3
<1> QED BY <1>4, <1>5

LEMMA LastParam ==
    ASSUME NEW t \in Seq(Char), NEW q
    PROVE  next_param([rest |-> <<":">> \o t, params |-> q]) = [rest |-> <<>>, params |-> Append(q, t)]
<1> DEFINE s == <<":">> \o t
           st == [rest |-> s, params |-> q]
<1>1. ":" \in Char
  BY DEF Char
<1>2. s # <<>> /\ s[1] = ":" /\ Tail(s) = t
  <2>1. s \in Seq(Char) /\ Len(s) = 1 + Len(t) /\ s[1] = ":" /\ Len(t) \in Nat
        /\ \A i \in 1 .. Len(t) : s[1 + i] = t[i]
    BY <1>1
  <2> HIDE DEF s
  <2>2. s # <<>>
    BY <2>1
  <2>3. Tail(s) \in Seq(Char) /\ Len(Tail(s)) = Len(t) /\ \A i \in 1 .. Len(t) : Tail(s)[i] = s[i + 1]
    BY <2>1, <2>2
  <2>4. \A i \in 1 .. Len(t) : i + 1 = 1 + i
    OBVIOUS
  <2>5. Tail(s) = t
    BY <2>1, <2>3, <2>4
  <2> QED BY <2>1, <2>2, <2>5
<1> HIDE DEF s
<1>3. starts_with(s, ":")
  BY <1>2 DEF starts_with
<1>4. st.rest = s /\ st.params = q
  OBVIOUS
<1> HIDE DEF st
<1>5. next_param(st) = [rest |-> <<>>, params |-> Append(q, Tail(s))]
  BY <1>2, <1>3, <1>4, Zenon DEF next_param
<1> QED BY <1>2, <1>5 DEF s, st

\* What a line has after its command: a target, or a target and a text.
OneParam(t) == Word(t) /\ ~starts_with(t, ":")
TextParam(s) == s \in Seq(Char) /\ s # <<>> /\ s[Len(s)] \notin Whitespace /\ Lacks(s, "NUL")

LEMMA ColonText ==
    ASSUME NEW s, TextParam(s)
    PROVE  /\ Trimmed(<<":">> \o s) /\ <<":">> \o s \in Seq(Char) /\ Lacks(<<":">> \o s, "NUL")
           /\ <<":">> \o s # <<>> /\ (<<":">> \o s)[Len(<<":">> \o s)] \notin Whitespace
<1> DEFINE w == <<":">> \o s
<1>1. s \in Seq(Char) /\ s # <<>> /\ s[Len(s)] \notin Whitespace /\ Lacks(s, "NUL") /\ ":" \in Char
  BY DEF TextParam, Char
<1>2. ":" \notin Whitespace /\ ":" # "NUL"
  BY SpecialChars
<1>3. Len(s) \in Nat \ {0} /\ Len(s) \in 1 .. Len(s)
  BY <1>1
<1>4. w \in Seq(Char) /\ Len(w) = 1 + Len(s) /\ w[1] = ":" /\ \A i \in 1 .. Len(s) : w[1 + i] = s[i]
  BY <1>1
<1>5. Lacks(w, "NUL")
  <2>1. <<":">> \in Seq(Char) /\ Lacks(<<":">>, "NUL")
    BY <1>1, <1>2, LacksOne
  <2> QED BY <1>1, <2>1, LacksCat
<1> HIDE DEF w
<1>6. w[1 + Len(s)] = s[Len(s)] /\ w # <<>>
  BY <1>3, <1>4
<1>7. w[Len(w)] \notin Whitespace
  BY <1>1, <1>4, <1>6
<1> QED BY <1>2, <1>4, <1>5, <1>6, <1>7 DEF w, Trimmed

LEMMA ParamsOne ==
    ASSUME NEW t, OneParam(t)
    PROVE  parse_params(t) = <<t>>
<1> DEFINE N == ParamsLength
<1>1. PICK f : ParamsLoop(f, t, N) /\ parse_params(t) = f[N].params
  BY ParamsAre
<1>2. f[1] = [rest |-> <<>>, params |-> <<t>>]
  <2>1. f[0] = [rest |-> t, params |-> <<>>] /\ f[1] = next_param(f[0])
    <3>1. 1 \in 1 .. N /\ 1 - 1 = 0
      BY ParamsAssumption
    <3>2. f[1] = next_param(f[1 - 1])
      BY <1>1, <3>1 DEF ParamsLoop
    <3>3. f[0] = [rest |-> t, params |-> <<>>]
      BY <1>1 DEF ParamsLoop
    <3> QED BY <3>1, <3>2, <3>3
  <2>2. next_param([rest |-> t, params |-> <<>>]) = [rest |-> <<>>, params |-> Append(<<>>, t)]
    <3>1. Word(t) /\ ~starts_with(t, ":")
      BY DEF OneParam
    <3>2. t \in Seq(Char)
      BY <3>1 DEF Word
    <3> QED BY <3>1, <3>2, FirstParam
  <2>3. Append(<<>>, t) = <<t>>
    OBVIOUS
  <2> QED BY <2>1, <2>2, <2>3
<1>3. f[1].rest = <<>> /\ f[1].params = <<t>>
  BY <1>2, StepRecords
<1>4. f[N] = f[1]
  <2>1. 1 \in 0 .. N
    BY ParamsAssumption
  <2> QED BY <1>1, <1>3, <2>1, LoopEnds
<1> QED BY <1>1, <1>3, <1>4

LEMMA AppendPair ==
    ASSUME NEW a \in Seq(Char), NEW b \in Seq(Char)
    PROVE  Append(<<a>>, b) = <<a, b>>
<1> DEFINE x == <<a>>
           S == Seq(Char)
<1>1. x \in Seq(S)
  OBVIOUS
<1>2. <<a>> \o <<b>> = <<a, b>>
  <2> HIDE DEF x, S
  <2>1. a \in S /\ b \in S
    BY DEF S
  <2> QED BY <2>1, PairIsCat
<1> HIDE DEF x
<1>3. Append(x, b) = x \o <<b>>
  <2>1. b \in S
    OBVIOUS
  <2> HIDE DEF S
  <2> QED BY <1>1, <2>1, AppendIsConcat
<1> QED BY <1>2, <1>3 DEF x

LEMMA ParamsTwo ==
    ASSUME NEW t, OneParam(t), NEW s, TextParam(s)
    PROVE  parse_params(Cut(t, Space, <<":">> \o s)) = <<t, s>>
<1> DEFINE N == ParamsLength
           v == <<":">> \o s
           w == Cut(t, Space, v)
<1>1. PICK f : ParamsLoop(f, w, N) /\ parse_params(w) = f[N].params
  BY ParamsAre
<1>2. /\ f[0] = [rest |-> w, params |-> <<>>] /\ f[1] = next_param(f[0]) /\ f[2] = next_param(f[1])
  <2> HIDE DEF w
  <2>1. 1 \in 1 .. N /\ 1 - 1 = 0 /\ 2 \in 1 .. N /\ 2 - 1 = 1
    BY ParamsAssumption
  <2>2. f[1] = next_param(f[1 - 1]) /\ f[2] = next_param(f[2 - 1])
    BY <1>1, <2>1 DEF ParamsLoop
  <2>3. f[0] = [rest |-> w, params |-> <<>>]
    BY <1>1 DEF ParamsLoop
  <2> QED BY <2>1, <2>2, <2>3
<1>3. v \in Seq(Char) /\ trim(v) = v
  <2>1. v \in Seq(Char) /\ Trimmed(v)
    BY ColonText
  <2> HIDE DEF v
  <2> QED BY <2>1, TrimOfTrimmed
<1>4. s \in Seq(Char) /\ Word(t) /\ ~starts_with(t, ":")
  BY DEF TextParam, OneParam
<1>5. f[1] = [rest |-> v, params |-> <<t>>]
  <2> HIDE DEF v
  <2>1. next_param([rest |-> w, params |-> <<>>]) = [rest |-> trim(v), params |-> Append(<<>>, t)]
    BY <1>3, <1>4, FirstParam
  <2>2. Append(<<>>, t) = <<t>>
    OBVIOUS
  <2> HIDE DEF w
  <2> QED BY <1>2, <1>3, <2>1, <2>2
<1>6. f[2] = [rest |-> <<>>, params |-> <<t, s>>]
  <2>1. next_param([rest |-> v, params |-> <<t>>]) = [rest |-> <<>>, params |-> Append(<<t>>, s)]
    <3>1. ASSUME NEW x \in Seq(Char), x = v, NEW z, z = <<t>>
          PROVE  next_param([rest |-> x, params |-> z]) = [rest |-> <<>>, params |-> Append(z, s)]
      <4>1. next_param([rest |-> <<":">> \o s, params |-> z]) = [rest |-> <<>>, params |-> Append(z, s)]
        BY <1>4, LastParam
      <4>2. x = <<":">> \o s
        BY <3>1
      <4> HIDE DEF v
      <4> QED BY <4>1, <4>2, Zenon
    <3> HIDE DEF v
    <3> QED BY <1>3, <3>1, Zenon
  <2>2. Append(<<t>>, s) = <<t, s>>
    BY <1>4, AppendPair DEF Word
  <2> HIDE DEF v, w
  <2> QED BY <1>2, <1>5, <2>1, <2>2
<1> HIDE DEF w
<1>7. f[2].rest = <<>> /\ f[2].params = <<t, s>>
  BY <1>6, StepRecords
<1>8. f[N] = f[2]
  <2>1. 2 \in 0 .. N
    BY ParamsAssumption
  <2> QED BY <1>1, <1>7, <2>1, LoopEnds
<1> QED BY <1>1, <1>7, <1>8 DEF w

LEMMA ParseParts ==
    ASSUME NEW s \in Seq(Char), s # <<>>, s[1] \notin Whitespace, Lacks(s, "NUL"),
           NEW a, NEW r, parse_tags(s) = [word |-> a, rest |-> r],
           NEW b, NEW p, parse_prefix(r) = [word |-> b, rest |-> p],
           NEW c, NEW q, parse_word(p) = [word |-> c, rest |-> q], c # <<>>
    PROVE  parse(s) = [tags |-> a, prefix |-> b, command |-> c, params |-> parse_params(q)]
<1> DEFINE t       == trim_start(s)
           tags    == parse_tags(t)
           prefix  == parse_prefix(tags.rest)
           command == parse_word(prefix.rest)
           m       == [tags |-> tags.word, prefix |-> prefix.word, command |-> command.word,
                       params |-> parse_params(command.rest)]
<1>1. parse(s) = IF t = <<>> \/ Contains(s, "NUL") \/ command.word = <<>> THEN NoMessage ELSE m
  BY Zenon DEF parse
<1>2. t = s
  BY TrimmedStart
<1>3. ~Contains(s, "NUL")
  BY DEF Contains, Lacks
<1> HIDE DEF t
<1>4. tags.word = a /\ tags.rest = r
  BY <1>2
<1> HIDE DEF tags
<1>5. prefix.word = b /\ prefix.rest = p
  BY <1>4
<1> HIDE DEF prefix
<1>6. command.word = c /\ command.rest = q
  BY <1>5
<1> HIDE DEF command
<1>7. parse(s) = m
  BY <1>1, <1>2, <1>3, <1>6
<1>8. m = [tags |-> a, prefix |-> b, command |-> c, params |-> parse_params(q)]
  BY <1>4, <1>5, <1>6
<1> QED BY <1>7, <1>8

-----------------------------------------------------------------------------
(* The tags that are written again *)

\* A TagBuffer after each of the tags written to it.
LEMMA TaggedFold ==
    ASSUME NEW list \in Seq(Chars)
    PROVE  \E h \in [0 .. Len(list) -> Chars] :
              /\ h[0] = <<"@">>
              /\ \A i \in 1 .. Len(list) : h[i] = raw_tag(h[i - 1], list[i])
              /\ FoldLeft(raw_tag, <<"@">>, list) = h[Len(list)]
<1> DEFINE Next(q, c) == raw_tag(q, c)
           base == <<"@">>
           n == Len(list)
           F(g) == [T \in SUBSET (1 .. n) |->
                      IF T = {} THEN base ELSE Next(g[T \ {Max(T)}], list[Max(T)])]
           g0 == CHOOSE g : g = F(g)
           st == [i \in 1 .. n |-> [q \in Chars |-> Next(q, list[i])]]
<1>1. FoldLeft(raw_tag, <<"@">>, list) = g0[1 .. n]
  <2>1. DOMAIN (list) = 1 .. n
    OBVIOUS
  <2> QED BY <2>1, Zenon DEF FoldLeft, MapThenFoldSet
<1>2. base \in Chars
  <2> "@" \in Char
    BY DEF Char
  <2> QED BY DEF Chars
<1>3. ASSUME NEW q \in Chars, NEW c \in Chars PROVE Next(q, c) \in Chars
  <2>1. q \in Seq(Char) /\ c \in Seq(Char) /\ Semicolon \in Char
    BY DEF Chars, Char
  <2>2. (IF Len(q) = 1 THEN q ELSE Append(q, Semicolon)) \in Seq(Char)
    BY <2>1
  <2> QED BY <2>1, <2>2 DEF Chars, raw_tag
<1>4. st \in [1 .. n -> [Chars -> Chars]] /\ n \in Nat
  <2>1. \A i \in 1 .. n : list[i] \in Chars
    OBVIOUS
  <2> HIDE DEF Next
  <2> QED BY <1>3, <2>1
<1>5. \A i \in 1 .. n, q \in Chars : st[i][q] = Next(q, list[i])
  OBVIOUS
<1> HIDE DEF Next, base, st, n
<1>6. Steps(n, Chars, base, st)
  BY <1>2, <1>4 DEF Steps
<1>7. \E g : g = F(g)
  <2>1. PICK g : IsFold(g, n, Chars, base, st)
    BY <1>6, FoldExists
  <2>2. /\ g \in [SUBSET (1 .. n) -> Chars]
        /\ \A T \in SUBSET (1 .. n) : g[T] = IF T = {} THEN base ELSE st[Max(T)][g[T \ {Max(T)}]]
    BY <2>1 DEF IsFold
  <2>3. ASSUME NEW T \in SUBSET (1 .. n), T # {} PROVE g[T] = Next(g[T \ {Max(T)}], list[Max(T)])
    <3>1. Max(T) \in 1 .. n /\ g[T \ {Max(T)}] \in Chars
      BY <1>4, <2>2, <2>3, MaxIn
    <3> QED BY <1>5, <2>2, <2>3, <3>1
  <2> QED BY <2>2, <2>3
<1>8. g0 = F(g0)
  BY <1>7
<1> HIDE DEF g0
<1>9. g0[{}] = base
  <2> {} \in SUBSET (1 .. n)
    OBVIOUS
  <2> QED BY <1>8
<1>10. ASSUME NEW T \in SUBSET (1 .. n), T # {}, g0[T \ {Max(T)}] \in Chars
       PROVE  g0[T] = st[Max(T)][g0[T \ {Max(T)}]]
  <2>1. Max(T) \in 1 .. n
    BY <1>4, <1>10, MaxIn
  <2> QED BY <1>5, <1>8, <1>10, <2>1
<1>11. FollowsSteps(g0, n, Chars, base, st)
  BY <1>9, <1>10 DEF FollowsSteps
<1>12. PICK h : FoldValues(h, n, Chars, base, st) /\ h[n] = g0[1 .. n]
  BY <1>6, <1>11, FoldRun
<1>13. h \in [0 .. n -> Chars] /\ h[0] = base /\ \A i \in 1 .. n : h[i] = st[i][h[i - 1]]
  BY <1>12 DEF FoldValues
<1>14. \A i \in 1 .. n : h[i] = Next(h[i - 1], list[i])
  <2> \A i \in 1 .. n : h[i - 1] \in Chars
    BY <1>4, <1>13
  <2> QED BY <1>5, <1>13
<1> QED BY <1>1, <1>12, <1>13, <1>14 DEF Next, base, n

\* The tags that clients may set.
Client == {x \in Seq(Char) : starts_with(x, "+") /\ ~IsPrefix(<<"+", "=">>, x)}

\* The buffer of a TagBuffer that tags without NUL were written to.
LEMMA RawTagLacks ==
    ASSUME NEW buf \in Seq(Char), NEW s \in Seq(Char), NEW d, Lacks(buf, d), Lacks(s, d), d # Semicolon
    PROVE  Lacks(raw_tag(buf, s), d)
<1> DEFINE b == IF Len(buf) = 1 THEN buf ELSE Append(buf, Semicolon)
<1>1. Semicolon \in Char
  BY DEF Char
<1>2. b \in Seq(Char) /\ Lacks(b, d)
  <2>1. CASE Len(buf) = 1
    BY <2>1
  <2>2. CASE Len(buf) # 1
    <3>1. Append(buf, Semicolon) = buf \o <<Semicolon>> /\ <<Semicolon>> \in Seq(Char)
      BY <1>1, AppendIsConcat
    <3>2. Lacks(<<Semicolon>>, d)
      BY LacksOne
    <3>3. Lacks(buf \o <<Semicolon>>, d) /\ buf \o <<Semicolon>> \in Seq(Char)
      <4> DEFINE v == <<Semicolon>>
      <4>1. v \in Seq(Char) /\ Lacks(v, d)
        BY <3>1, <3>2
      <4> HIDE DEF v
      <4>2. Lacks(buf \o v, d) /\ buf \o v \in Seq(Char)
        BY <4>1, LacksCat
      <4> QED BY <4>2 DEF v
    <3> QED BY <2>2, <3>1, <3>3
  <2> QED BY <2>1, <2>2
<1>3. raw_tag(buf, s) = b \o s
  BY DEF raw_tag
<1> HIDE DEF b
<1> QED BY <1>2, <1>3, LacksCat

LEMMA PrefixGrows ==
    ASSUME NEW S, NEW list \in Seq(S), NEW i \in Nat, i + 1 <= Len(list)
    PROVE  SubSeq(list, 1, i) \in Seq(S) /\ Append(SubSeq(list, 1, i), list[i + 1]) = SubSeq(list, 1, i + 1)
<1> DEFINE x == SubSeq(list, 1, i)
           j == i + 1
           y == SubSeq(list, 1, j)
<1>1. j \in Nat /\ j \in 1 .. Len(list) /\ list[j] \in S
  OBVIOUS
<1>2. x \in Seq(S) /\ Len(x) = i /\ \A k \in 1 .. i : x[k] = list[k]
  OBVIOUS
<1> HIDE DEF x
<1>3. y \in Seq(S) /\ Len(y) = j /\ \A k \in 1 .. j : y[k] = list[k]
  <2> HIDE DEF j
  <2> QED BY <1>1
<1> HIDE DEF y
<1> DEFINE z == Append(x, list[j])
<1>4. z \in Seq(S) /\ Len(z) = j /\ (\A k \in 1 .. i : z[k] = x[k]) /\ z[j] = list[j]
  BY <1>1, <1>2
<1> HIDE DEF z
<1>5. \A k \in 1 .. j : z[k] = y[k]
  <2> SUFFICES ASSUME NEW k \in 1 .. j PROVE z[k] = y[k]
    OBVIOUS
  <2>1. k = j \/ k \in 1 .. i
    OBVIOUS
  <2> HIDE DEF j
  <2> QED BY <1>2, <1>3, <1>4, <2>1
<1>6. z = y
  <2> HIDE DEF j
  <2> QED BY <1>3, <1>4, <1>5, SeqEqual
<1> QED BY <1>2, <1>6 DEF x, y, z

\* What a tag that is written again may be.
Again(s) == TagItem(s) /\ Lacks(s, "NUL")

LEMMA TagsWritten ==
    ASSUME NEW list \in Seq(Seq(Char)), \A i \in 1 .. Len(list) : Again(list[i])
    PROVE  TagBuf(FoldLeft(raw_tag, <<"@">>, list), list) /\ Lacks(FoldLeft(raw_tag, <<"@">>, list), "NUL")
<1> DEFINE N == Len(list)
           Pre(i) == SubSeq(list, 1, i)
<1>0. list \in Seq(Chars) /\ N \in Nat
  BY DEF Chars
<1>1. PICK h \in [0 .. N -> Chars] :
              /\ h[0] = <<"@">>
              /\ \A i \in 1 .. N : h[i] = raw_tag(h[i - 1], list[i])
              /\ FoldLeft(raw_tag, <<"@">>, list) = h[N]
  BY <1>0, TaggedFold
<1> DEFINE K == {i \in Nat : i <= N => TagBuf(h[i], Pre(i)) /\ Lacks(h[i], "NUL")}
<1>2. 0 \in K
  <2>1. Pre(0) = <<>>
    OBVIOUS
  <2>2. Lacks(<<"@">>, "NUL")
    BY LacksOne
  <2> HIDE DEF Pre
  <2> QED BY <1>1, <2>1, <2>2, EmptyTagBuf
<1>3. ASSUME NEW i \in Nat, i \in K PROVE i + 1 \in K
  <2> SUFFICES ASSUME i + 1 <= N PROVE TagBuf(h[i + 1], Pre(i + 1)) /\ Lacks(h[i + 1], "NUL")
    OBVIOUS
  <2>1. i + 1 \in 1 .. N /\ i <= N /\ (i + 1) - 1 = i
    BY <1>0
  <2>2. TagBuf(h[i], Pre(i)) /\ Lacks(h[i], "NUL")
    BY <1>3, <2>1
  <2>3. h[i + 1] = raw_tag(h[i], list[i + 1])
    BY <1>1, <2>1
  <2>4. Again(list[i + 1]) /\ Append(Pre(i), list[i + 1]) = Pre(i + 1)
    BY <2>1, PrefixGrows
  <2> DEFINE s == list[i + 1]
             p == Pre(i)
  <2>5. TagItem(s) /\ s \in Seq(Char) /\ h[i] \in Seq(Char) /\ Lacks(s, "NUL")
    BY <2>2, <2>4 DEF Again, TagItem, TagBuf
  <2> HIDE DEF s, p, Pre
  <2>6. TagBuf(raw_tag(h[i], s), Append(p, s))
    BY <2>2, <2>5, RawTagFacts DEF p
  <2>7. "NUL" # Semicolon
    BY Zenon DEF Semicolon
  <2>8. Lacks(raw_tag(h[i], s), "NUL")
    BY <2>2, <2>5, <2>7, RawTagLacks
  <2> QED BY <2>3, <2>4, <2>6, <2>8 DEF s, p
<1>4. N \in K
  <2> HIDE DEF K
  <2>1. \A i \in Nat : i \in K
    BY <1>2, <1>3, SetInduction
  <2> QED BY <1>0, <2>1
<1>5. TagBuf(h[N], Pre(N)) /\ Lacks(h[N], "NUL")
  BY <1>0, <1>4
<1>6. Pre(N) = list
  OBVIOUS
<1> QED BY <1>1, <1>5, <1>6

\* Only the tags that clients may set are written again, in their order.
LEMMA TaggedMessage ==
    ASSUME NEW s \in Seq(Char), Lacks(s, "NUL"), Lacks(s, Space)
    PROVE  /\ TagBuf(tagged_message(s), Sift(split(s, Semicolon), Client))
           /\ Lacks(tagged_message(s), "NUL")
<1> DEFINE items == split(s, Semicolon)
           list  == Sift(items, Client)
<1>1. /\ items \in Seq(Seq(Char))
      /\ \A m \in DOMAIN items :
                \E a \in 0 .. Len(s) :
                   /\ items[m] = Piece(s, Semicolon, a)
                   /\ \A i \in DOMAIN items[m] : items[m][i] # Semicolon /\ items[m][i] = s[a + i]
  BY SplitExists
<1>2. tagged_message(s) = FoldLeft(raw_tag, <<"@">>, list)
  <2>1. {i \in DOMAIN items : starts_with(items[i], "+") /\ ~IsPrefix(<<"+", "=">>, items[i])}
          = Sifted(items, Client)
    <3> HIDE DEF items
    <3>1. \A i \in DOMAIN items : items[i] \in Seq(Char)
      BY <1>1
    <3> QED BY <3>1 DEF Sifted, Client
  <2> QED BY <2>1, Zenon DEF tagged_message, Sift
<1> HIDE DEF items
<1>3. ASSUME NEW m \in DOMAIN items PROVE Lacks(items[m], "NUL") /\ Lacks(items[m], Semicolon) /\ Lacks(items[m], Space)
  <2> DEFINE p == items[m]
  <2>1. PICK a \in 0 .. Len(s) : p = Piece(s, Semicolon, a) /\ \A i \in DOMAIN p : p[i] # Semicolon /\ p[i] = s[a + i]
    BY <1>1
  <2> DEFINE e == End(s, Semicolon, a)
  <2>2. e \in a .. Len(s)
    BY EndFacts
  <2>3. p \in Seq(Char) /\ Len(p) = e - a
    BY <2>1, PieceFacts
  <2> HIDE DEF p, e
  <2>4. \A i \in 1 .. Len(p) : i \in DOMAIN p /\ a + i \in 1 .. Len(s)
    BY <2>2, <2>3
  <2>5. \A i \in 1 .. Len(p) : s[a + i] # "NUL" /\ s[a + i] # Space
    BY <2>4 DEF Lacks
  <2>6. \A i \in 1 .. Len(p) : p[i] # "NUL" /\ p[i] # Semicolon /\ p[i] # Space
    BY <2>1, <2>4, <2>5
  <2> QED BY <2>6 DEF Lacks, p
<1>4. list \in Seq(Seq(Char)) /\ (\A m \in 1 .. Len(list) : list[m] \in Client)
  BY <1>1, SiftFacts
<1>5. PICK g : /\ Ascends(g, Len(list), Sifted(items, Client))
               /\ \A m \in 1 .. Len(list) : list[m] = items[g[m]]
  BY <1>1, SiftFacts
<1> HIDE DEF list
<1>6. ASSUME NEW m \in 1 .. Len(list) PROVE Again(list[m])
  <2>1. g[m] \in DOMAIN items
    BY <1>5 DEF Ascends, Sifted
  <2>2. list[m] = items[g[m]] /\ list[m] \in Seq(Char) /\ list[m] # <<>>
    BY <1>4, <1>5 DEF Client, starts_with
  <2> QED BY <1>3, <2>1, <2>2 DEF Again, TagItem
<1>7. TagBuf(FoldLeft(raw_tag, <<"@">>, list), list) /\ Lacks(FoldLeft(raw_tag, <<"@">>, list), "NUL")
  BY <1>4, <1>6, TagsWritten
<1> QED BY <1>2, <1>7 DEF list, items

\* Keeping twice is keeping what both keep.
LEMMA SiftSift ==
    ASSUME NEW S, NEW s \in Seq(S), NEW G, NEW H, H \subseteq G
    PROVE  Sift(Sift(s, G), H) = Sift(s, H)
<1> DEFINE t == Sift(s, G)
           r == Sift(t, H)
           I == Sifted(s, G)
           J == Sifted(t, H)
           K == Sifted(s, H)
           p == Len(t)
           q == Len(r)
<1>1. t \in Seq(S) /\ p \in Nat
  BY SiftFacts
<1>2. PICK g : Ascends(g, p, I) /\ \A m \in 1 .. p : t[m] = s[g[m]]
  BY SiftFacts
<1> HIDE DEF t, p
<1>3. r \in Seq(S) /\ q \in Nat
  BY <1>1, SiftFacts
<1>4. PICK h : Ascends(h, q, J) /\ \A m \in 1 .. q : r[m] = t[h[m]]
  BY <1>1, SiftFacts
<1> HIDE DEF r, q
<1> DEFINE f == [m \in 1 .. q |-> g[h[m]]]
<1>5. /\ g \in [1 .. p -> I]
      /\ \A i \in 1 .. p, j \in 1 .. p : i < j => g[i] < g[j]
      /\ \A x \in I : \E i \in 1 .. p : x = g[i]
  BY <1>2 DEF Ascends
<1>6. /\ h \in [1 .. q -> J]
      /\ \A i \in 1 .. q, j \in 1 .. q : i < j => h[i] < h[j]
      /\ \A x \in J : \E i \in 1 .. q : x = h[i]
  BY <1>4 DEF Ascends
<1>7. J \subseteq 1 .. p /\ \A j \in J : t[j] \in H
  BY <1>1 DEF Sifted, p
<1>8. \A m \in 1 .. q : h[m] \in 1 .. p /\ t[h[m]] \in H
  BY <1>6, <1>7
<1>9. \A m \in 1 .. q : g[h[m]] \in K
  <2> SUFFICES ASSUME NEW m \in 1 .. q PROVE g[h[m]] \in K
    OBVIOUS
  <2>1. g[h[m]] \in I /\ t[h[m]] = s[g[h[m]]]
    BY <1>2, <1>5, <1>8
  <2> QED BY <1>8, <2>1 DEF Sifted
<1>10. f \in [1 .. q -> K] /\ \A m \in 1 .. q : f[m] = g[h[m]]
  BY <1>9
<1> HIDE DEF f
<1>11. \A i \in 1 .. q, j \in 1 .. q : i < j => f[i] < f[j]
  <2> SUFFICES ASSUME NEW i \in 1 .. q, NEW j \in 1 .. q, i < j PROVE f[i] < f[j]
    OBVIOUS
  <2>1. h[i] \in 1 .. p /\ h[j] \in 1 .. p /\ h[i] < h[j]
    BY <1>6, <1>8
  <2> QED BY <1>5, <1>10, <2>1
<1>12. ASSUME NEW x \in K PROVE \E m \in 1 .. q : x = f[m]
  <2>1. x \in I /\ s[x] \in H
    BY DEF Sifted
  <2>2. PICK i \in 1 .. p : x = g[i]
    BY <1>5, <2>1
  <2>3. i \in J
    BY <1>1, <1>2, <2>1, <2>2 DEF Sifted, p
  <2>4. PICK m \in 1 .. q : i = h[m]
    BY <1>6, <2>3
  <2> QED BY <1>10, <2>2, <2>4
<1> HIDE DEF I, J
<1>13. Ascends(f, q, K)
  BY <1>10, <1>11, <1>12 DEF Ascends
<1>14. K \in SUBSET (DOMAIN s)
  BY DEF Sifted
<1>15. Pick(s, K) \in Seq(S) /\ Len(Pick(s, K)) = q /\ \A m \in 1 .. q : Pick(s, K)[m] = s[f[m]]
  <2> HIDE DEF K
  <2> QED BY <1>3, <1>13, <1>14, PickBy
<1>16. \A m \in 1 .. q : r[m] = s[f[m]]
  BY <1>2, <1>4, <1>8, <1>10
<1>17. Pick(s, K) = r
  <2>1. \A m \in 1 .. q : Pick(s, K)[m] = r[m]
    BY <1>15, <1>16
  <2> QED BY <1>3, <1>15, <2>1, SeqEqual DEF q
<1> QED BY <1>17 DEF r, t, K, Sift

-----------------------------------------------------------------------------
(* A line that is written *)

\* What a line has after its tags, before its end.
Body(N, cmd, P) == Cut(N, Space, Cut(cmd, Space, P))

\* The parameters of a line.
ParamsPart(P) == P \in Seq(Char) /\ P # <<>> /\ Trimmed(P) /\ Lacks(P, "NUL")

LEMMA BodyFacts ==
    ASSUME NEW N, Word(N), NEW cmd, Word(cmd), NEW P, ParamsPart(P)
    PROVE  /\ Body(N, cmd, P) \in Seq(Char) /\ Body(N, cmd, P) # <<>> /\ Trimmed(Body(N, cmd, P))
           /\ Lacks(Body(N, cmd, P), "NUL") /\ Body(N, cmd, P)[1] = N[1]
           /\ Cut(cmd, Space, P) \in Seq(Char) /\ Trimmed(Cut(cmd, Space, P))
<1> DEFINE q == Cut(cmd, Space, P)
           w == Cut(N, Space, q)
<1>1. /\ P \in Seq(Char) /\ P # <<>> /\ P[Len(P)] \notin Whitespace /\ Lacks(P, "NUL")
      /\ N \in Seq(Char) /\ N # <<>> /\ N[1] \notin Whitespace /\ Lacks(N, "NUL")
      /\ cmd \in Seq(Char) /\ cmd # <<>> /\ cmd[1] \notin Whitespace /\ Lacks(cmd, "NUL")
  BY DEF ParamsPart, Word, Trimmed
<1>2. Space # "NUL" /\ Space \in Char
  BY Zenon DEF Space, Char
<1>3. Trimmed(q) /\ q \in Seq(Char) /\ q # <<>> /\ Lacks(q, "NUL")
  <2>1. Trimmed(q) /\ q \in Seq(Char) /\ q # <<>>
    BY <1>1, SpaceIsChar, CutTrimmed
  <2>2. Lacks(q, "NUL")
    BY <1>1, <1>2, SpaceIsChar, LacksCut
  <2> QED BY <2>1, <2>2
<1> HIDE DEF q
<1>4. q[Len(q)] \notin Whitespace
  BY <1>3 DEF Trimmed
<1>5. Trimmed(w) /\ w \in Seq(Char) /\ w # <<>> /\ w[1] = N[1]
  BY <1>1, <1>3, <1>4, SpaceIsChar, CutTrimmed
<1>6. Lacks(w, "NUL")
  BY <1>1, <1>2, <1>3, SpaceIsChar, LacksCut
<1> QED BY <1>3, <1>5, <1>6 DEF Body, q, w

LEMMA BodyEnd ==
    ASSUME NEW N, Word(N), NEW cmd, Word(cmd), NEW P, ParamsPart(P), NEW e \in Seq(Char)
    PROVE  Body(N, cmd, P) \o e = Cut(N, Space, Cut(cmd, Space, P) \o e)
<1>1. N \in Seq(Char) /\ Cut(cmd, Space, P) \in Seq(Char)
  BY BodyFacts DEF Word
<1> DEFINE q == Cut(cmd, Space, P)
<1> HIDE DEF q
<1>2. Cut(N, Space, q \o e) = Cut(N, Space, q) \o e
  <2> DEFINE a == Append(N, Space)
  <2>1. a \in Seq(Char) /\ q \in Seq(Char)
    BY <1>1, SpaceIsChar DEF q
  <2> HIDE DEF a
  <2>2. Regroups(a, q, e)
    BY <2>1, CatRegroups
  <2> QED BY <2>2 DEF Regroups, Cut, a
<1> QED BY <1>2 DEF Body, q

\* The prefix of a line is read, whether or not the end of the line has been cut.
LEMMA PrefixRead ==
    ASSUME NEW N, Word(N), N[1] = ":", NEW v \in Seq(Char)
    PROVE  parse_prefix(Cut(N, Space, v)) = [word |-> <<Tail(N)>>, rest |-> trim(v)]
<1> DEFINE w == Cut(N, Space, v)
<1>1. parse_word(w) = [word |-> N, rest |-> trim(v)] /\ N \in Seq(Char) /\ N # <<>>
  BY WordIs
<1>2. starts_with(w, ":")
  <2>1. IsCut(w, N, Space, v)
    BY <1>1, SpaceIsChar, CutIsCut
  <2>2. Len(N) \in Nat \ {0} /\ Len(v) \in Nat /\ 1 \in 1 .. Len(N)
    BY <1>1
  <2> HIDE DEF w
  <2>3. w \in Seq(Char) /\ Len(w) = Len(N) + 1 + Len(v) /\ w[1] = N[1]
    BY <2>1, <2>2 DEF IsCut
  <2>4. w # <<>>
    BY <2>2, <2>3
  <2> QED BY <2>3, <2>4 DEF starts_with
<1> HIDE DEF w
<1>3. parse_prefix(w) = [parse_word(w) EXCEPT !.word = <<Tail(@)>>]
  BY <1>2, Zenon DEF parse_prefix
<1>4. parse_prefix(w) = [word |-> <<Tail(N)>>, rest |-> trim(v)]
  BY <1>1, <1>3, TailWord
<1> QED BY <1>4 DEF w

\* What trimming leaves of a line that ends, or that does not.
LEMMA TrimEither ==
    ASSUME NEW t \in Seq(Char), Trimmed(t), NEW e \in {<<>>, CrLf}
    PROVE  trim(t \o e) = t /\ t \o e \in Seq(Char) /\ e \in Seq(Char)
<1>1. CASE e = CrLf
  BY <1>1, TrimDrop
<1>2. CASE e = <<>>
  <2>1. t \o <<>> = t
    OBVIOUS
  <2> QED BY <1>2, <2>1, TrimOfTrimmed
<1> QED BY <1>1, <1>2

LEMMA BodyRead ==
    ASSUME NEW N, Word(N), N[1] = ":", NEW cmd, Word(cmd), NEW P, ParamsPart(P), NEW e \in {<<>>, CrLf}
    PROVE  /\ parse_prefix(Body(N, cmd, P) \o e) = [word |-> <<Tail(N)>>, rest |-> Cut(cmd, Space, P)]
           /\ parse_word(Cut(cmd, Space, P)) = [word |-> cmd, rest |-> P]
<1> DEFINE q == Cut(cmd, Space, P)
           v == q \o e
<1>1. q \in Seq(Char) /\ Trimmed(q)
  BY BodyFacts
<1>2. trim(v) = q /\ v \in Seq(Char) /\ e \in Seq(Char)
  <2> HIDE DEF q
  <2> QED BY <1>1, TrimEither
<1>3. Body(N, cmd, P) \o e = Cut(N, Space, v)
  BY <1>2, BodyEnd
<1> HIDE DEF v
<1>4. parse_prefix(Cut(N, Space, v)) = [word |-> <<Tail(N)>>, rest |-> trim(v)]
  BY <1>2, PrefixRead
<1>5. parse_word(q) = [word |-> cmd, rest |-> trim(P)]
  <2>1. P \in Seq(Char)
    BY DEF ParamsPart
  <2> QED BY <2>1, WordIs
<1>6. trim(P) = P
  BY TrimOfTrimmed DEF ParamsPart
<1> QED BY <1>2, <1>3, <1>4, <1>5, <1>6 DEF q

\* A line without tags.
LEMMA PlainRead ==
    ASSUME NEW N, Word(N), N[1] = ":", NEW cmd, Word(cmd), NEW P, ParamsPart(P)
    PROVE  /\ parse(Body(N, cmd, P) \o CrLf) =
                [tags |-> <<>>, prefix |-> <<Tail(N)>>, command |-> cmd, params |-> parse_params(P)]
           /\ ~starts_with(Body(N, cmd, P) \o CrLf, Space)
<1> DEFINE b == Body(N, cmd, P)
           s == b \o CrLf
           e == <<>>
           q == Cut(cmd, Space, P)
           B == <<Tail(N)>>
<1>1. b \in Seq(Char) /\ b # <<>> /\ Trimmed(b) /\ Lacks(b, "NUL") /\ b[1] = ":"
  BY BodyFacts
<1>2. parse_prefix(s) = [word |-> B, rest |-> q] /\ parse_word(q) = [word |-> cmd, rest |-> P]
  BY BodyRead
<1>3. CrLf \in Seq(Char) /\ Lacks(CrLf, "NUL")
  <2>1. CrLf \in Seq(Char)
    BY <1>1, TrimDrop
  <2>2. Lacks(CrLf, "NUL")
    BY DEF CrLf, Lacks
  <2> QED BY <2>1, <2>2
<1>4. s \in Seq(Char) /\ s # <<>> /\ s[1] = ":" /\ Lacks(s, "NUL")
  <2> DEFINE z == CrLf
  <2> HIDE DEF b, z
  <2>0. z \in Seq(Char) /\ Lacks(z, "NUL")
    BY <1>3 DEF z
  <2>1. ASSUME NEW w, w = b \o z PROVE w \in Seq(Char) /\ Len(w) = Len(b) + Len(z) /\ w[1] = b[1]
    <3>1. b \o z \in Seq(Char) /\ Len(b \o z) = Len(b) + Len(z) /\ \A i \in 1 .. Len(b) : (b \o z)[i] = b[i]
      BY <1>1, <2>0, CatFacts
    <3>2. 1 \in 1 .. Len(b)
      BY <1>1
    <3> QED BY <2>1, <3>1, <3>2
  <2>2. Lacks(b \o z, "NUL")
    BY <1>1, <2>0, LacksCat
  <2>3. ASSUME NEW w \in Seq(Char), Len(w) = Len(b) + Len(z) PROVE w # <<>>
    BY <1>1, <2>0, <2>3
  <2>4. b \o z \in Seq(Char) /\ (b \o z)[1] = ":" /\ b \o z # <<>>
    BY <1>1, <2>1, <2>3
  <2> QED BY <2>2, <2>4 DEF z
<1>5. cmd # <<>>
  BY DEF Word
<1> HIDE DEF s, b, q, B
<1>6. ":" # "@" /\ ":" # Space /\ ":" \notin Whitespace
  BY SpecialChars DEF Whitespace
<1>7. parse_tags(s) = [word |-> e, rest |-> s]
  <2>1. ~starts_with(s, "@")
    BY <1>4, <1>6 DEF starts_with
  <2> QED BY <2>1, Zenon DEF parse_tags
<1> HIDE DEF e
<1>8. parse(s) = [tags |-> e, prefix |-> B, command |-> cmd, params |-> parse_params(P)]
  BY <1>2, <1>4, <1>5, <1>6, <1>7, ParseParts
<1>9. ~starts_with(s, Space)
  BY <1>4, <1>6 DEF starts_with
<1> QED BY <1>8, <1>9 DEF s, b, e, B

\* A line with tags.
LEMMA TaggedRead ==
    ASSUME NEW T, NEW x, TagBuf(T, x), T[Len(T)] \notin Whitespace, Lacks(T, "NUL"),
           NEW N, Word(N), N[1] = ":", NEW cmd, Word(cmd), NEW P, ParamsPart(P)
    PROVE  parse(Cut(T, Space, Body(N, cmd, P) \o CrLf)) =
                [tags |-> Tail(T), prefix |-> <<Tail(N)>>, command |-> cmd, params |-> parse_params(P)]
<1> DEFINE b == Body(N, cmd, P)
           v == b \o CrLf
           s == Cut(T, Space, v)
           q == Cut(cmd, Space, P)
           A == Tail(T)
           B == <<Tail(N)>>
<1>1. b \in Seq(Char) /\ b # <<>> /\ Trimmed(b) /\ Lacks(b, "NUL")
  BY BodyFacts
<1>2. parse_prefix(b) = [word |-> B, rest |-> q] /\ parse_word(q) = [word |-> cmd, rest |-> P]
  <2>1. /\ parse_prefix(b \o <<>>) = [word |-> B, rest |-> q]
        /\ parse_word(q) = [word |-> cmd, rest |-> P]
    BY BodyRead
  <2> HIDE DEF b
  <2>2. b \o <<>> = b
    BY <1>1
  <2> HIDE DEF B, q
  <2> QED BY <2>1, <2>2
<1> HIDE DEF b
<1>3. trim(v) = b /\ v \in Seq(Char)
  BY <1>1, TrimDrop
<1>4. Lacks(v, "NUL")
  <2>1. Lacks(CrLf, "NUL")
    BY DEF CrLf, Lacks
  <2> DEFINE z == CrLf
  <2>2. z \in Seq(Char) /\ Lacks(z, "NUL")
    BY <1>1, <2>1, TrimDrop
  <2> HIDE DEF z
  <2>3. Lacks(b \o z, "NUL")
    BY <1>1, <2>2, LacksCat
  <2> QED BY <2>3 DEF z
<1> HIDE DEF v
<1>5. T \in Seq(Char) /\ T # <<>> /\ T[1] = "@"
  BY DEF TagBuf
<1>6. IsCut(s, T, Space, v)
  BY <1>3, <1>5, SpaceIsChar, CutIsCut
<1>7. Lacks(s, "NUL")
  <2>1. Space # "NUL"
    BY Zenon DEF Space
  <2> QED BY <1>3, <1>4, <1>5, <2>1, SpaceIsChar, LacksCut
<1>8. parse_tags(s) = [word |-> A, rest |-> b]
  BY <1>3, TagBufRead
<1> HIDE DEF s
<1>9. s \in Seq(Char) /\ s # <<>> /\ s[1] \notin Whitespace
  <2>1. Len(T) \in Nat \ {0} /\ Len(v) \in Nat /\ 1 \in 1 .. Len(T)
    BY <1>3, <1>5
  <2>2. s \in Seq(Char) /\ Len(s) = Len(T) + 1 + Len(v) /\ s[1] = T[1]
    BY <1>6, <2>1 DEF IsCut
  <2>3. "@" \notin Whitespace
    BY SpecialChars
  <2>4. s # <<>>
    BY <2>1, <2>2
  <2> QED BY <1>5, <2>2, <2>3, <2>4
<1>10. cmd # <<>>
  BY DEF Word
<1> HIDE DEF A, B, q
<1>11. parse(s) = [tags |-> A, prefix |-> B, command |-> cmd, params |-> parse_params(P)]
  BY <1>2, <1>7, <1>8, <1>9, <1>10, ParseParts
<1> QED BY <1>11 DEF s, v, b, A, B

-----------------------------------------------------------------------------
(* message_build *)

\* The parameters that a message to t with content s has, and what is written of them.
ParamsOf(t, s)    == IF s = <<>> THEN <<t>> ELSE <<t, s>>
ParamsWritten(t, s) == IF s = <<>> THEN t ELSE Cut(t, Space, <<":">> \o s)

LEMMA ParamsAreRead ==
    ASSUME NEW t, OneParam(t), NEW s, s = <<>> \/ TextParam(s)
    PROVE  ParamsPart(ParamsWritten(t, s)) /\ parse_params(ParamsWritten(t, s)) = ParamsOf(t, s)
<1>1. Word(t) /\ t \in Seq(Char) /\ t # <<>> /\ Lacks(t, "NUL") /\ Trimmed(t) /\ t[1] \notin Whitespace
  BY DEF OneParam, Word, Trimmed
<1>2. CASE s = <<>>
  <2>1. ParamsWritten(t, s) = t /\ ParamsOf(t, s) = <<t>>
    BY <1>2 DEF ParamsWritten, ParamsOf
  <2>2. ParamsPart(t)
    BY <1>1 DEF ParamsPart
  <2> QED BY <2>1, <2>2, ParamsOne
<1>3. CASE s # <<>>
  <2> DEFINE v == <<":">> \o s
             w == Cut(t, Space, v)
  <2>1. ParamsWritten(t, s) = w /\ ParamsOf(t, s) = <<t, s>>
    BY <1>3 DEF ParamsWritten, ParamsOf
  <2>2. v \in Seq(Char) /\ Lacks(v, "NUL") /\ v # <<>> /\ v[Len(v)] \notin Whitespace
    BY <1>3, ColonText
  <2>3. parse_params(w) = <<t, s>>
    BY <1>3, ParamsTwo
  <2> HIDE DEF v
  <2>4. Trimmed(w) /\ w \in Seq(Char) /\ w # <<>>
    BY <1>1, <2>2, SpaceIsChar, CutTrimmed
  <2>5. Lacks(w, "NUL")
    <3>1. Space # "NUL"
      BY Zenon DEF Space
    <3> QED BY <1>1, <2>2, <3>1, SpaceIsChar, LacksCut
  <2>6. ParamsPart(w)
    BY <2>4, <2>5 DEF ParamsPart
  <2> HIDE DEF w
  <2> QED BY <2>1, <2>3, <2>6
<1> QED BY <1>2, <1>3

\* What is written before the parameters.
LEMMA PrefixedCommand ==
    ASSUME NEW T \in Seq(Char), Len(T) # 1, NEW n \in Seq(Char), n # <<>>, NEW cmd \in Seq(Char)
    PROVE  prefixed_command(T, n, cmd) = Cut(T, Space, Cut(<<":">> \o n, Space, cmd))
<1> DEFINE N == <<":">> \o n
           a == Append(T, Space)
           p == <<Space>>
           b == N \o p
<1>1. N \in Seq(Char) /\ p \in Seq(Char) /\ a \in Seq(Char)
  <2>1. ":" \in Char /\ Space \in Char
    BY DEF Char
  <2> QED BY <2>1
<1>2. prefixed_command(T, n, cmd) = (a \o b) \o cmd
  BY Zenon DEF prefixed_command
<1>3. Cut(N, Space, cmd) = b \o cmd
  <2> HIDE DEF N
  <2>1. Append(N, Space) = N \o p
    BY <1>1
  <2> QED BY <2>1, Zenon DEF Cut
<1> HIDE DEF N, p
<1>4. b \in Seq(Char)
  BY <1>1
<1> HIDE DEF a
<1> HIDE DEF b
<1>5. (a \o b) \o cmd = a \o (b \o cmd)
  <2>1. Regroups(a, b, cmd)
    BY <1>1, <1>4, CatRegroups
  <2> QED BY <2>1 DEF Regroups
<1>6. Cut(T, Space, b \o cmd) = a \o (b \o cmd)
  BY DEF Cut, a
<1> QED BY <1>2, <1>3, <1>5, <1>6 DEF N

LEMMA ParamWritten ==
    ASSUME NEW u \in Seq(Char), NEW t \in Seq(Char), t # <<>>, Trimmed(t)
    PROVE  param(u, t) = Cut(u, Space, t)
<1>1. trim(t) = t
  BY TrimOfTrimmed
<1>2. param(u, t) = (u \o <<Space>>) \o t
  <2> DEFINE r == trim(t)
  <2>1. param(u, t) = IF r = <<>> THEN u ELSE (u \o <<Space>>) \o r
    BY Zenon DEF param
  <2> HIDE DEF r
  <2>2. r = t
    BY <1>1 DEF r
  <2> QED BY <2>1, <2>2
<1> QED BY <1>2, SpaceIsChar, CutIsCat

LEMMA TrailingWritten ==
    ASSUME NEW u \in Seq(Char), NEW s \in Seq(Char)
    PROVE  trailing_param(u, s) = Cut(u, Space, <<":">> \o s)
<1> DEFINE p == <<Space>>
           c == <<":">>
<1>1. p \in Seq(Char) /\ c \in Seq(Char)
  <2>1. ":" \in Char /\ Space \in Char
    BY DEF Char
  <2> QED BY <2>1
<1>2. p \o c = <<Space, ":">>
  <2>1. ":" \in Char /\ Space \in Char
    BY DEF Char
  <2> QED BY <2>1, PairIsCat
<1> HIDE DEF p, c
<1>3. trailing_param(u, s) = (u \o (p \o c)) \o s
  BY <1>2, Zenon DEF trailing_param
<1>4. c \o s \in Seq(Char) /\ p \o c \in Seq(Char)
  BY <1>1, CatFacts
<1>5. Cut(u, Space, c \o s) = (u \o p) \o (c \o s)
  <2> DEFINE v == c \o s
  <2> HIDE DEF v
  <2>1. v \in Seq(Char)
    BY <1>4 DEF v
  <2>2. Cut(u, Space, v) = (u \o p) \o v
    BY <2>1, SpaceIsChar, CutIsCat DEF p
  <2> QED BY <2>2 DEF v
<1>6. (u \o p) \o (c \o s) = u \o (p \o (c \o s))
  <2> DEFINE v == c \o s
  <2> HIDE DEF v
  <2>1. Regroups(u, p, v)
    BY <1>1, <1>4, CatRegroups DEF v
  <2> QED BY <2>1 DEF Regroups, v
<1>7. p \o (c \o s) = (p \o c) \o s
  <2>1. Regroups(p, c, s)
    BY <1>1, CatRegroups
  <2> QED BY <2>1 DEF Regroups
<1>8. u \o ((p \o c) \o s) = (u \o (p \o c)) \o s
  <2> DEFINE v == p \o c
  <2> HIDE DEF v
  <2>1. Regroups(u, v, s)
    BY <1>4, CatRegroups DEF v
  <2> QED BY <2>1 DEF Regroups, v
<1> QED BY <1>3, <1>5, <1>6, <1>7, <1>8 DEF c

\* After the tags, a line is its body.
LEMMA LineWritten ==
    ASSUME NEW T \in Seq(Char), Len(T) # 1, NEW n \in Seq(Char), n # <<>>,
           NEW cmd \in Seq(Char), NEW t, OneParam(t), NEW s, s = <<>> \/ TextParam(s)
    PROVE  (IF s = <<>> THEN param(prefixed_command(T, n, cmd), t)
                        ELSE trailing_param(param(prefixed_command(T, n, cmd), t), s))
              = Cut(T, Space, Body(<<":">> \o n, cmd, ParamsWritten(t, s)))
<1> DEFINE N == <<":">> \o n
           r == Cut(N, Space, cmd)
           u == Cut(T, Space, r)
           h == Cut(u, Space, t)
<1>1. t \in Seq(Char) /\ t # <<>> /\ Trimmed(t)
  BY DEF OneParam, Word
<1>2. N \in Seq(Char)
  <2>1. ":" \in Char
    BY DEF Char
  <2> QED BY <2>1
<1>3. prefixed_command(T, n, cmd) = u
  BY PrefixedCommand
<1> HIDE DEF N
<1>4. r \in Seq(Char)
  BY <1>2, SpaceIsChar, CutFacts
<1>5. ASSUME NEW v \in Seq(Char)
      PROVE  Cut(u, Space, v) = Cut(T, Space, Body(N, cmd, v))
  <2>1. Cut(u, Space, v) = Cut(T, Space, Cut(r, Space, v))
    <3> HIDE DEF r
    <3> QED BY <1>4, SpaceIsChar, CutCut
  <2>2. Cut(r, Space, v) = Cut(N, Space, Cut(cmd, Space, v))
    BY <1>2, SpaceIsChar, CutCut
  <2> QED BY <2>1, <2>2 DEF Body
<1>6. u \in Seq(Char)
  <2> HIDE DEF r
  <2> QED BY <1>4, SpaceIsChar, CutFacts
<1> HIDE DEF r, u
<1>7. param(u, t) = h
  BY <1>1, <1>6, ParamWritten
<1>8. CASE s = <<>>
  <2>1. ParamsWritten(t, s) = t
    BY <1>8 DEF ParamsWritten
  <2>2. h = Cut(T, Space, Body(N, cmd, t))
    BY <1>1, <1>5
  <2> QED BY <1>3, <1>7, <1>8, <2>1, <2>2 DEF N
<1>9. CASE s # <<>>
  <2> DEFINE v == <<":">> \o s
  <2>1. ParamsWritten(t, s) = Cut(t, Space, v)
    BY <1>9 DEF ParamsWritten
  <2>2. v \in Seq(Char) /\ s \in Seq(Char)
    BY <1>9, ColonText DEF TextParam
  <2>3. h \in Seq(Char)
    BY <1>1, <1>6, SpaceIsChar, CutFacts
  <2>4. trailing_param(h, s) = Cut(h, Space, v)
    <3> HIDE DEF h
    <3> QED BY <2>2, <2>3, TrailingWritten
  <2> HIDE DEF v
  <2>5. Cut(h, Space, v) = Cut(u, Space, Cut(t, Space, v)) /\ Cut(t, Space, v) \in Seq(Char)
    <3>1. Cut(t, Space, v) \in Seq(Char)
      BY <1>1, <2>2, SpaceIsChar, CutFacts
    <3>2. Cut(Cut(u, Space, t), Space, v) = Cut(u, Space, Cut(t, Space, v))
      BY <1>1, <1>6, <2>2, SpaceIsChar, CutCut
    <3> QED BY <3>1, <3>2
  <2>6. Cut(u, Space, Cut(t, Space, v)) = Cut(T, Space, Body(N, cmd, Cut(t, Space, v)))
    BY <1>5, <2>5
  <2> HIDE DEF h
  <2> QED BY <1>3, <1>7, <1>9, <2>1, <2>4, <2>5, <2>6 DEF N
<1> QED BY <1>8, <1>9

-----------------------------------------------------------------------------
(* The tags that are read again *)

LEMMA KeyOf ==
    ASSUME NEW item \in Seq(Char), item # <<>>, item[1] # "="
    PROVE  Tag_parse(item).key \in Seq(Char) /\ Tag_parse(item).key # <<>> /\ Tag_parse(item).key[1] = item[1]
<1> DEFINE halves == split2(item, "=")
           w == IF Len(halves) = 1 THEN <<>> ELSE halves[2]
           k == halves[1]
<1>1. Tag_parse(item) = [key |-> k, value |-> w]
  BY Zenon DEF Tag_parse
<1>2. k \in Seq(Char) /\ k # <<>> /\ k[1] = item[1]
  <2>1. CASE Lacks(item, "=")
    <3>1. halves = <<item>>
      BY <2>1, Split2Whole
    <3>2. k = item
      BY <3>1
    <3> QED BY <3>2
  <2>2. ASSUME NEW u \in Seq(Char), NEW v \in Seq(Char), Lacks(u, "="), item = Cut(u, "=", v)
        PROVE  k \in Seq(Char) /\ k # <<>> /\ k[1] = item[1]
    <3>1. "=" \in Char
      BY DEF Char
    <3>2. halves = <<u, v>>
      BY <2>2, <3>1, Split2Cut
    <3>3. k = u
      BY <3>2
    <3> HIDE DEF halves, k
    <3>4. IsCut(item, u, "=", v)
      BY <2>2, <3>1, CutIsCut
    <3>5. Len(u) \in Nat /\ item[Len(u) + 1] = "=" /\ \A i \in 1 .. Len(u) : item[i] = u[i]
      BY <3>4 DEF IsCut
    <3>6. Len(u) # 0
      BY <3>5
    <3>7. u # <<>> /\ 1 \in 1 .. Len(u)
      BY <3>5, <3>6
    <3> QED BY <3>3, <3>5, <3>7
  <2>3. CASE ~Lacks(item, "=")
    <3>1. PICK u \in Seq(Char), v \in Seq(Char) : Lacks(u, "=") /\ item = Cut(u, "=", v)
      BY <2>3, CutOrWhole
    <3> QED BY <2>2, <3>1
  <2> QED BY <2>1, <2>3
<1> HIDE DEF k, w
<1>3. Tag_parse(item).key = k
  BY <1>1
<1> QED BY <1>2, <1>3

\* A tag that is read is a client's if it is written again.
LEMMA ClientKey ==
    ASSUME NEW item \in Named
    PROVE  is_client(Tag_parse(item)) <=> item \in Client
<1>1. item \in Seq(Char) /\ item # <<>> /\ item[1] # "=" /\ ~IsPrefix(<<"+", "=">>, item)
  BY DEF Named
<1>2. Tag_parse(item).key # <<>> /\ Tag_parse(item).key[1] = item[1]
  BY <1>1, KeyOf
<1>3. is_client(Tag_parse(item)) <=> item[1] = "+"
  BY <1>2 DEF is_client, starts_with
<1>4. item \in Client <=> item[1] = "+"
  BY <1>1 DEF Client, starts_with
<1> QED BY <1>3, <1>4

LEMMA ClientIsNamed == Client \subseteq Named
<1> SUFFICES ASSUME NEW x \in Client PROVE x \in Named
  OBVIOUS
<1>1. x \in Seq(Char) /\ x # <<>> /\ x[1] = "+" /\ ~IsPrefix(<<"+", "=">>, x)
  BY DEF Client, starts_with
<1> QED BY <1>1 DEF Named

\* The tags that are read, one for each item that has a name.
Parsed(x) == [n \in 1 .. Len(x) |-> Tag_parse(x[n])]

LEMMA ClientTags ==
    ASSUME NEW s \in Seq(Char)
    PROVE  Pick(tags_of(s), {i \in DOMAIN tags_of(s) : is_client(tags_of(s)[i])})
              = Parsed(Sift(split(s, Semicolon), Client))
<1> DEFINE items == split(s, Semicolon)
           z == Sift(items, Named)
           R == Parsed(z)
           I == {i \in DOMAIN R : is_client(R[i])}
           x == Sift(items, Client)
           n == Cardinality(I)
<1>1. items \in Seq(Seq(Char)) /\ Splits(s, Semicolon, items)
  BY SplitExists
<1>2. tags_of(s) = R
  <2> HIDE DEF items
  <2> QED BY <1>1, TagsOf DEF Parsed
<1> HIDE DEF items
<1>3. z \in Seq(Seq(Char)) /\ \A i \in 1 .. Len(z) : z[i] \in Named
  BY <1>1, SiftFacts
<1> HIDE DEF z
<1>4. DOMAIN R = 1 .. Len(z) /\ \A i \in 1 .. Len(z) : R[i] = Tag_parse(z[i])
  BY DEF Parsed
<1> HIDE DEF R
<1>5. I = Sifted(z, Client)
  <2>1. \A i \in 1 .. Len(z) : is_client(R[i]) <=> z[i] \in Client
    BY <1>3, <1>4, ClientKey
  <2>2. DOMAIN z = 1 .. Len(z)
    BY <1>3
  <2> QED BY <1>4, <2>1, <2>2 DEF Sifted
<1>6. x = Pick(z, I)
  <2>1. Sift(z, Client) = x
    <3>1. \A S : \A y \in Seq(S) : \A G, H : H \subseteq G => Sift(Sift(y, G), H) = Sift(y, H)
      BY SiftSift
    <3> QED BY <1>1, <3>1, ClientIsNamed DEF z
  <2> QED BY <1>5, <2>1 DEF Sift
<1>7. I \in SUBSET (DOMAIN z)
  BY <1>5 DEF Sifted
<1> HIDE DEF x, I
<1>8. Len(x) = n /\ n \in Nat /\ \A m \in 1 .. n : x[m] = z[Ordinal(I, m)]
  BY <1>3, <1>6, <1>7, PickFacts
<1>9. \A m \in 1 .. n : Ordinal(I, m) \in 1 .. Len(z)
  <2>1. I \in SUBSET (1 .. Len(z)) /\ Len(z) \in Nat
    BY <1>3, <1>7
  <2>2. \A m \in 1 .. n : Ordinal(I, m) \in I
    BY <2>1, OrdinalFacts
  <2> QED BY <2>1, <2>2
<1>10. Pick(R, I) = [m \in 1 .. n |-> R[Ordinal(I, m)]]
  BY DEF Pick
<1>11. \A m \in 1 .. n : R[Ordinal(I, m)] = Tag_parse(x[m])
  BY <1>4, <1>8, <1>9
<1>12. Pick(R, I) = [m \in 1 .. n |-> Tag_parse(x[m])]
  BY <1>10, <1>11
<1> QED BY <1>2, <1>8, <1>12 DEF Parsed, x, I, R, items

LEMMA ParsedCat ==
    ASSUME NEW x \in Seq(Seq(Char)), NEW a \in Seq(Char), NEW b \in Seq(Char)
    PROVE  Parsed(Append(Append(x, a), b)) = Parsed(x) \o <<Tag_parse(a), Tag_parse(b)>>
<1> DEFINE S == {Tag_parse(y) : y \in Seq(Char)}
           y == Append(Append(x, a), b)
           n == Len(x)
           p == Parsed(x)
           q == <<Tag_parse(a), Tag_parse(b)>>
           r == Parsed(y)
           t == p \o q
<1>1. y \in Seq(Seq(Char)) /\ Len(y) = n + 2 /\ n \in Nat /\ y[n + 1] = a /\ y[n + 2] = b
      /\ \A i \in 1 .. n : y[i] = x[i]
  OBVIOUS
<1> HIDE DEF y
<1>2. q \in Seq(S) /\ Len(q) = 2 /\ q[1] = Tag_parse(a) /\ q[2] = Tag_parse(b)
  <2>1. Tag_parse(a) \in S /\ Tag_parse(b) \in S
    OBVIOUS
  <2> HIDE DEF S
  <2> QED BY <2>1
<1>3. p \in Seq(S) /\ Len(p) = n /\ \A i \in 1 .. n : p[i] = Tag_parse(x[i])
  <2>0. \A i \in 1 .. n : x[i] \in Seq(Char)
    OBVIOUS
  <2>1. \A i \in 1 .. n : Tag_parse(x[i]) \in S
    BY <2>0
  <2> HIDE DEF S
  <2> QED BY <1>1, <2>1 DEF Parsed
<1>4. r \in Seq(S) /\ Len(r) = n + 2 /\ \A i \in 1 .. n + 2 : r[i] = Tag_parse(y[i])
  <2>1. \A i \in 1 .. n + 2 : Tag_parse(y[i]) \in S
    BY <1>1
  <2> HIDE DEF S, n
  <2> QED BY <1>1, <2>1 DEF Parsed
<1> HIDE DEF p, q, r, S
<1>5. t \in Seq(S) /\ Len(t) = n + 2 /\ (\A i \in 1 .. n : t[i] = p[i]) /\ t[n + 1] = q[1] /\ t[n + 2] = q[2]
  <2>1. t \in Seq(S) /\ IsCat(t, p, q)
    BY <1>2, <1>3, CatIsCat
  <2> HIDE DEF t, n
  <2>2. Len(t) = n + 2 /\ (\A i \in 1 .. n : t[i] = p[i]) /\ \A i \in 1 .. 2 : t[n + i] = q[i]
    BY <1>2, <1>3, <2>1 DEF IsCat
  <2>3. 1 \in 1 .. 2 /\ 2 \in 1 .. 2
    OBVIOUS
  <2> QED BY <2>1, <2>2, <2>3
<1>6. ASSUME NEW i \in 1 .. n + 2 PROVE r[i] = t[i]
  <2> HIDE DEF n, t
  <2>0. i \in 1 .. n \/ i = n + 1 \/ i = n + 2
    BY <1>1
  <2>1. CASE i \in 1 .. n
    BY <1>1, <1>3, <1>4, <1>5, <2>1
  <2>2. CASE i = n + 1
    BY <1>1, <1>2, <1>4, <1>5, <2>2
  <2>3. CASE i = n + 2
    BY <1>1, <1>2, <1>4, <1>5, <2>3
  <2> QED BY <2>0, <2>1, <2>2, <2>3
<1>7. r = t
  <2> HIDE DEF t, n
  <2> QED BY <1>4, <1>5, <1>6, SeqEqual
<1> QED BY <1>7 DEF r, p, q, y

\* Who reads the tags of a line reads the client tags of its author, then those of the server.
LEMMA TagsAreRead ==
    ASSUME NEW s \in Seq(Char), NEW a \in Named, NEW b \in Named, NEW T,
           TagBuf(T, Append(Append(Sift(split(s, Semicolon), Client), a), b))
    PROVE  tags_of(Tail(T)) =
              Pick(tags_of(s), {i \in DOMAIN tags_of(s) : is_client(tags_of(s)[i])})
                 \o <<Tag_parse(a), Tag_parse(b)>>
<1> DEFINE x == Sift(split(s, Semicolon), Client)
           y == Append(Append(x, a), b)
<1>1. x \in Seq(Seq(Char)) /\ \A i \in 1 .. Len(x) : x[i] \in Named
  <2>1. split(s, Semicolon) \in Seq(Seq(Char))
    BY SplitExists
  <2>2. x \in Seq(Seq(Char)) /\ \A i \in 1 .. Len(x) : x[i] \in Client
    BY <2>1, SiftFacts
  <2> QED BY <2>2, ClientIsNamed
<1>2. a \in Seq(Char) /\ b \in Seq(Char)
  BY DEF Named
<1> HIDE DEF x
<1>3. y \in Seq(Seq(Char)) /\ y # <<>> /\ \A i \in 1 .. Len(y) : y[i] \in Named
  <2>1. y \in Seq(Seq(Char)) /\ Len(y) = Len(x) + 2 /\ Len(x) \in Nat /\ y[Len(x) + 1] = a
        /\ y[Len(x) + 2] = b /\ \A i \in 1 .. Len(x) : y[i] = x[i]
    BY <1>1, <1>2
  <2> HIDE DEF y
  <2>2. \A i \in 1 .. Len(y) : i \in 1 .. Len(x) \/ i = Len(x) + 1 \/ i = Len(x) + 2
    BY <2>1
  <2>3. \A i \in 1 .. Len(y) : y[i] \in Named
    BY <1>1, <2>1, <2>2
  <2>4. y # <<>>
    BY <2>1
  <2> QED BY <2>1, <2>3, <2>4
<1>4. Parsed(y) = Parsed(x) \o <<Tag_parse(a), Tag_parse(b)>>
  BY <1>1, <1>2, ParsedCat
<1>5. TagBuf(T, y)
  BY DEF x
<1> HIDE DEF y
<1>6. Splits(Tail(T), Semicolon, y) /\ Tail(T) \in Seq(Char)
  <2>1. T \in Seq(Char) /\ T # <<>> /\ Splits(Tail(T), Semicolon, y)
    BY <1>3, <1>5 DEF TagBuf
  <2> QED BY <2>1
<1>7. Sift(y, Named) = y
  BY <1>3, SiftAll
<1>8. tags_of(Tail(T)) = Parsed(y)
  BY <1>3, <1>6, <1>7, TagsOf DEF Parsed
<1>9. Pick(tags_of(s), {i \in DOMAIN tags_of(s) : is_client(tags_of(s)[i])}) = Parsed(x)
  BY ClientTags DEF x
<1> QED BY <1>4, <1>8, <1>9

-----------------------------------------------------------------------------
(* What is relayed is kept *)

\* What Request::new accepts can be written between the parts of a line.
LEMMA RelayedParts ==
    ASSUME NEW m, MessageRead(m), IsRelayed(m)
    PROVE  /\ OneParam(Target(m)) /\ (Content(m) = <<>> \/ TextParam(Content(m)))
           /\ Word(m.command)
<1>1. m.params \in Seq(Seq(Char)) /\ \A i \in 1 .. Len(m.params) : Param(m.params[i])
  BY DEF MessageRead
<1>2. IsName(Target(m)) /\ m.command \in {<<"TAGMSG">>, <<"PRIVMSG">>}
  BY DEF IsRelayed
<1>3. OneParam(Target(m))
  <2> DEFINE t == Target(m)
  <2>1. t # <<>>
    BY <1>2 DEF IsName
  <2>2. ~(Len(m.params) < 1) /\ t = m.params[1]
    BY <2>1 DEF Target
  <2>3. Param(t)
    <3>1. 1 \in 1 .. Len(m.params)
      BY <1>1, <2>2
    <3> QED BY <1>1, <2>2, <3>1
  <2>4. IsName(t)
    BY <1>2
  <2> HIDE DEF t
  <2>5. /\ t \in Seq(Char) /\ Lacks(t, "NUL") /\ t[Len(t)] \notin Whitespace
        /\ \A i \in 1 .. Len(t) : t[i] \in {"CR", "LF"} => i = Len(t)
    BY <2>1, <2>3 DEF Param, OneLine
  <2>6. \A i \in 1 .. Len(t) : t[i] # Space /\ t[i] # ":"
    <3>1. DOMAIN t = 1 .. Len(t)
      BY <2>5
    <3> QED BY <2>4, <3>1 DEF IsName
  <2>7. 1 \in 1 .. Len(t)
    BY <2>1, <2>5
  <2>8. t[1] \notin Whitespace
    <3>1. ASSUME t[1] \in Whitespace PROVE FALSE
      <4>1. t[1] \in {"CR", "LF"}
        BY <2>6, <2>7, <3>1 DEF Whitespace
      <4>2. 1 = Len(t)
        BY <2>5, <2>7, <4>1
      <4> QED BY <2>5, <3>1, <4>2
    <3> QED BY <3>1
  <2>9. Lacks(t, Space)
    BY <2>6 DEF Lacks
  <2>10. Word(t)
    BY <2>1, <2>5, <2>8, <2>9 DEF Word, Trimmed
  <2>11. ~starts_with(t, ":")
    BY <2>6, <2>7 DEF starts_with
  <2> QED BY <2>10, <2>11 DEF OneParam, t
<1>4. Content(m) = <<>> \/ TextParam(Content(m))
  <2> DEFINE s == Content(m)
  <2> SUFFICES ASSUME s # <<>> PROVE TextParam(s)
    OBVIOUS
  <2>1. ~(Len(m.params) < 2) /\ s = m.params[2]
    BY DEF Content
  <2>2. Param(s)
    <3>1. 2 \in 1 .. Len(m.params)
      BY <1>1, <2>1
    <3> QED BY <1>1, <2>1, <3>1
  <2> HIDE DEF s
  <2> QED BY <2>2 DEF Param, OneLine, TextParam
<1>5. Word(m.command)
  <2>1. ASSUME NEW c \in {"TAGMSG", "PRIVMSG"} PROVE Word(<<c>>)
    <3>1. c \in Char /\ c # "NUL" /\ c # "CR" /\ c # "LF"
      BY DEF Char
    <3>2. c # Space
      BY Zenon DEF Space
    <3> DEFINE w == <<c>>
    <3>3. w \in Seq(Char) /\ w # <<>> /\ Len(w) = 1 /\ w[1] = c
      BY <3>1
    <3>4. Lacks(w, Space) /\ Lacks(w, "NUL")
      BY <3>1, <3>2, LacksOne
    <3> HIDE DEF w
    <3>5. Trimmed(w)
      BY <3>1, <3>2, <3>3 DEF Trimmed, Whitespace
    <3>6. Word(w)
      BY <3>3, <3>4, <3>5 DEF Word
    <3> QED BY <3>6 DEF w
  <2> QED BY <1>2, <2>1
<1> QED BY <1>3, <1>4, <1>5

\* The prefix of the author.
Prefix == <<":">> \o FullName

LEMMA PrefixFacts ==
    /\ FullName \in Seq(Char) /\ FullName # <<>>
    /\ Word(Prefix) /\ Prefix[1] = ":" /\ Tail(Prefix) = FullName
<1> DEFINE w == <<":", "n">>
<1>1. ":" \in Char /\ "n" \in Char
  BY DEF Char
<1>2. Prefix = w
  BY <1>1, PairIsCat DEF Prefix, FullName
<1>3. w \in Seq(Char) /\ w # <<>> /\ Len(w) = 2 /\ w[1] = ":" /\ w[2] = "n" /\ Tail(w) = <<"n">>
  BY <1>1
<1> HIDE DEF w
<1>4. \A d \in {":", "n"} : d # Space /\ d \notin Whitespace /\ d # "NUL"
  BY SpecialChars DEF Whitespace
<1>5. \A i \in 1 .. 2 : w[i] \in {":", "n"}
  <2> \A i \in 1 .. 2 : i = 1 \/ i = 2
    OBVIOUS
  <2> QED BY <1>3
<1>6. Lacks(w, Space) /\ Lacks(w, "NUL")
  BY <1>3, <1>4, <1>5 DEF Lacks
<1>7. Trimmed(w)
  BY <1>3, <1>4 DEF Trimmed
<1>8. Word(w)
  BY <1>3, <1>6, <1>7 DEF Word
<1>9. FullName \in Seq(Char) /\ FullName # <<>> /\ FullName = <<"n">>
  BY <1>1 DEF FullName
<1> QED BY <1>2, <1>3, <1>8, <1>9

\* The tags that the server adds.
MsgIdTag == TagText(<<"msgid">>, MsgId)
TimeTag  == TagText(<<"time">>, Now)

LEMMA ServerTags ==
    /\ MsgIdTag \in Named /\ TimeTag \in Named /\ TagItem(MsgIdTag) /\ TagItem(TimeTag)
    /\ Lacks(MsgIdTag, "NUL") /\ Lacks(TimeTag, "NUL")
    /\ Tag_parse(MsgIdTag) = [key |-> <<"msgid">>, value |-> MsgId]
    /\ Tag_parse(TimeTag) = [key |-> <<"time">>, value |-> Now]
    /\ TimeTag[Len(TimeTag)] \notin Whitespace /\ TimeTag[Len(TimeTag)] # "@"
    /\ \A buf : /\ tag(buf, <<"msgid">>, MsgId) = raw_tag(buf, MsgIdTag)
                /\ tag(buf, <<"time">>, Now) = raw_tag(buf, TimeTag)
<1>1. ASSUME NEW k \in {"msgid", "time"}, NEW c \in {"t", "d"}
      PROVE  /\ TagText(<<k>>, <<c>>) \in Named /\ TagItem(TagText(<<k>>, <<c>>))
             /\ Lacks(TagText(<<k>>, <<c>>), "NUL")
             /\ Tag_parse(TagText(<<k>>, <<c>>)) = [key |-> <<k>>, value |-> <<c>>]
             /\ TagText(<<k>>, <<c>>)[Len(TagText(<<k>>, <<c>>))] = c
             /\ \A buf : tag(buf, <<k>>, <<c>>) = raw_tag(buf, TagText(<<k>>, <<c>>))
  <2>1. TagKey(<<k>>) /\ write_escaped(<<c>>) = <<c>> /\ Clean(<<c>>) /\ <<c>> \in Seq(Char) /\ c \in Char
    <3>1. c \in Char
      BY DEF Char
    <3> QED BY <3>1, TagKeys
  <2>2. <<k>> \in Seq(Char) /\ <<k>>[1] # "+"
    BY <2>1 DEF TagKey
  <2>3. /\ TagText(<<k>>, <<c>>) \in Named /\ TagItem(TagText(<<k>>, <<c>>))
        /\ Tag_parse(TagText(<<k>>, <<c>>)) = [key |-> <<k>>, value |-> <<c>>]
    BY <2>1, <2>2, TagTextFacts
  <2>4. TagText(<<k>>, <<c>>)[Len(TagText(<<k>>, <<c>>))] = c
    BY <2>1, <2>2, TextEnds
  <2>5. \A buf : tag(buf, <<k>>, <<c>>) = raw_tag(buf, TagText(<<k>>, <<c>>))
    BY <2>1, <2>2, TagIs
  <2>6. Lacks(TagText(<<k>>, <<c>>), "NUL")
    <3> DEFINE x == <<k>>
               y == <<"=">>
               z == <<c>>
               u == x \o y
    <3>1. "=" \in Char
      BY DEF Char
    <3>2. x \in Seq(Char) /\ y \in Seq(Char) /\ z \in Seq(Char)
      BY <2>1, <2>2, <3>1
    <3>3. Lacks(x, "NUL") /\ Lacks(y, "NUL") /\ Lacks(z, "NUL")
      BY LacksOne
    <3> HIDE DEF x, y, z
    <3>4. u \in Seq(Char) /\ Lacks(u, "NUL")
      BY <3>2, <3>3, CatFacts, LacksCat
    <3> HIDE DEF u
    <3>5. Lacks(u \o z, "NUL")
      BY <3>2, <3>3, <3>4, LacksCat
    <3> QED BY <3>5 DEF TagText, u, x, y, z
  <2> QED BY <2>3, <2>4, <2>5, <2>6
<1>2. MsgIdTag = TagText(<<"msgid">>, <<"d">>) /\ TimeTag = TagText(<<"time">>, <<"t">>)
      /\ MsgId = <<"d">> /\ Now = <<"t">>
  BY DEF MsgIdTag, TimeTag, MsgId, Now
<1>3. "t" \notin Whitespace /\ "t" # "@"
  BY SpecialChars
<1>4. /\ MsgIdTag \in Named /\ TagItem(MsgIdTag) /\ Lacks(MsgIdTag, "NUL")
      /\ Tag_parse(MsgIdTag) = [key |-> <<"msgid">>, value |-> MsgId]
      /\ \A buf : tag(buf, <<"msgid">>, MsgId) = raw_tag(buf, MsgIdTag)
  BY <1>1, <1>2
<1>5. /\ TimeTag \in Named /\ TagItem(TimeTag) /\ Lacks(TimeTag, "NUL")
      /\ Tag_parse(TimeTag) = [key |-> <<"time">>, value |-> Now]
      /\ TimeTag[Len(TimeTag)] = "t"
      /\ \A buf : tag(buf, <<"time">>, Now) = raw_tag(buf, TimeTag)
  BY <1>1, <1>2
<1> QED BY <1>3, <1>4, <1>5

\* The tags that are written before a message.
Tagged(s) == raw_tag(raw_tag(tagged_message(s), MsgIdTag), TimeTag)

LEMMA TaggedFacts ==
    ASSUME NEW s \in Seq(Char), Lacks(s, "NUL"), Lacks(s, Space)
    PROVE  /\ TagBuf(Tagged(s), Append(Append(Sift(split(s, Semicolon), Client), MsgIdTag), TimeTag))
           /\ Lacks(Tagged(s), "NUL") /\ Tagged(s)[Len(Tagged(s))] \notin Whitespace
           /\ Tagged(s) \in Seq(Char) /\ Len(Tagged(s)) > 1 /\ Last(Tagged(s)) # "@"
<1> DEFINE x == Sift(split(s, Semicolon), Client)
           b == tagged_message(s)
           c == raw_tag(b, MsgIdTag)
           d == raw_tag(c, TimeTag)
           y == Append(x, MsgIdTag)
           z == Append(y, TimeTag)
<1>1. TagBuf(b, x) /\ Lacks(b, "NUL")
  BY TaggedMessage
<1> HIDE DEF b, x
<1>2. TagItem(MsgIdTag) /\ TagItem(TimeTag) /\ Lacks(MsgIdTag, "NUL") /\ Lacks(TimeTag, "NUL")
      /\ MsgIdTag \in Seq(Char) /\ TimeTag \in Seq(Char)
  BY ServerTags DEF TagItem
<1>3. "NUL" # Semicolon
  BY Zenon DEF Semicolon
<1>4. TagBuf(c, y)
  BY <1>1, <1>2, RawTagFacts
<1>5. Lacks(c, "NUL")
  BY <1>1, <1>2, <1>3, RawTagLacks DEF TagBuf
<1> HIDE DEF c
<1>6. y \in Seq(Seq(Char))
  BY <1>4 DEF TagBuf
<1> HIDE DEF y
<1>7. TagBuf(d, z)
  BY <1>2, <1>4, RawTagFacts
<1>8. Lacks(d, "NUL")
  BY <1>2, <1>3, <1>4, <1>5, RawTagLacks DEF TagBuf
<1>9. d[Len(d)] = TimeTag[Len(TimeTag)]
  BY <1>2, <1>4, RawTagEnds
<1>10. z # <<>>
  <2>1. Len(z) = Len(y) + 1 /\ Len(y) \in Nat
    BY <1>2, <1>6
  <2> HIDE DEF z
  <2> QED BY <2>1
<1> HIDE DEF z, d
<1>11. d \in Seq(Char) /\ Len(d) > 1
  BY <1>7, <1>10 DEF TagBuf
<1>12. Last(d) = d[Len(d)]
  BY DEF Last
<1>13. d[Len(d)] \notin Whitespace /\ d[Len(d)] # "@"
  BY <1>9, ServerTags
<1> QED BY <1>7, <1>8, <1>11, <1>12, <1>13 DEF Tagged, z, y, x, d, c, b

\* What a message is made into.
LEMMA RelayedItem ==
    ASSUME NEW m, MessageRead(m), IsRelayed(m)
    PROVE  /\ Relayed(m).buf = Cut(Tagged(m.tags), Space,
                                   Body(Prefix, m.command, ParamsWritten(Target(m), Content(m))) \o CrLf)
           /\ Relayed(m).start = Len(Tagged(m.tags)) + 1
<1> DEFINE t == Target(m)
           s == Content(m)
           c == m.command
           T == Tagged(m.tags)
           h == param(prefixed_command(T, FullName, c), t)
           w == IF s = <<>> THEN h ELSE trailing_param(h, s)
           b == Body(Prefix, c, ParamsWritten(t, s))
           r == MessageBuffer_drop(w)
           n == save_tag_len(T)
<1>1. tag(tag(tagged_message(m.tags), <<"msgid">>, MsgId), <<"time">>, Now) = T
  BY ServerTags DEF Tagged
<1>2. Relayed(m) = [buf |-> r, start |-> n]
  BY <1>1, Zenon DEF Relayed, message_build
<1>3. OneParam(t) /\ (s = <<>> \/ TextParam(s)) /\ Word(c)
  BY RelayedParts
<1>4. T \in Seq(Char) /\ Len(T) > 1 /\ Last(T) # "@"
  BY TaggedFacts DEF MessageRead
<1> HIDE DEF T, t, s, c
<1>5. Len(T) # 1
  <2>1. \A j \in Nat : j > 1 => j # 1
    OBVIOUS
  <2>2. Len(T) \in Nat
    BY <1>4
  <2> QED BY <1>4, <2>1, <2>2
<1>6. c \in Seq(Char)
  BY <1>3 DEF Word
<1>7. w = Cut(T, Space, b)
  BY <1>3, <1>4, <1>5, <1>6, PrefixFacts, LineWritten DEF Prefix
<1>8. b \in Seq(Char)
  BY <1>3, ParamsAreRead, PrefixFacts, BodyFacts
<1> HIDE DEF w, b
<1>9. Cut(T, Space, b) \o CrLf = Cut(T, Space, b \o CrLf)
  <2>1. CrLf \in Seq(Char)
    <3>1. "CR" \in Char /\ "LF" \in Char
      BY DEF Char
    <3> QED BY <3>1 DEF CrLf
  <2> DEFINE e == CrLf
  <2> HIDE DEF e
  <2>2. Cut(T, Space, b \o e) = Cut(T, Space, b) \o e
    BY <1>4, <1>8, <2>1, SpaceIsChar, CutCat DEF e
  <2> QED BY <2>2 DEF e
<1>10. r = Cut(T, Space, b \o CrLf)
  BY <1>7, <1>9 DEF MessageBuffer_drop, CrLf
<1>11. n = Len(T) + 1
  BY <1>4 DEF save_tag_len
<1> HIDE DEF r, n
<1>12. Relayed(m).buf = r /\ Relayed(m).start = n
  BY <1>2
<1> QED BY <1>10, <1>11, <1>12 DEF T, b, t, s, c

LEMMA CutFrom ==
    ASSUME NEW u \in Seq(Char), NEW c \in Char, NEW v \in Seq(Char)
    PROVE  From(Cut(u, c, v), Len(u) + 1) = v
<1> DEFINE w == Cut(u, c, v)
           j == Len(u) + 1
<1>1. IsCut(w, u, c, v)
  BY CutIsCut
<1> HIDE DEF w
<1>2. /\ w \in Seq(Char) /\ Len(w) = j + Len(v) /\ Len(u) \in Nat /\ Len(v) \in Nat
      /\ \A i \in 1 .. Len(v) : w[j + i] = v[i]
  BY <1>1 DEF IsCut
<1>3. j \in 0 .. Len(w) /\ Len(w) - j = Len(v)
  BY <1>2
<1> HIDE DEF j
<1>4. /\ From(w, j) \in Seq(Char) /\ Len(From(w, j)) = Len(w) - j
      /\ \A i \in 1 .. Len(w) - j : From(w, j)[i] = w[j + i]
  BY <1>2, <1>3, FromFacts
<1>5. From(w, j) = v
  BY <1>2, <1>3, <1>4, SeqEqual
<1> QED BY <1>5 DEF w, j

\* Everyone reads what the author wrote.
LEMMA RelayedIsRead ==
    ASSUME NEW m, MessageRead(m), IsRelayed(m)
    PROVE  ReadByAll(m, Relayed(m))
<1> DEFINE t == Target(m)
           s == Content(m)
           c == m.command
           T == Tagged(m.tags)
           P == ParamsWritten(t, s)
           v == Body(Prefix, c, P) \o CrLf
           item == Relayed(m)
           A == Tail(T)
           N == <<FullName>>
           Q == ParamsOf(t, s)
           plain  == [tags |-> <<>>, prefix |-> N, command |-> c, params |-> Q]
           tagged == [tags |-> A, prefix |-> N, command |-> c, params |-> Q]
<1>1. OneParam(t) /\ (s = <<>> \/ TextParam(s)) /\ Word(c)
  BY RelayedParts
<1>2. ParamsPart(P) /\ parse_params(P) = Q
  BY <1>1, ParamsAreRead
<1>3. m.tags \in Seq(Char) /\ Lacks(m.tags, "NUL") /\ Lacks(m.tags, Space)
  BY DEF MessageRead
<1>4. /\ TagBuf(T, Append(Append(Sift(split(m.tags, Semicolon), Client), MsgIdTag), TimeTag))
      /\ Lacks(T, "NUL") /\ T[Len(T)] \notin Whitespace /\ T \in Seq(Char)
  BY <1>3, TaggedFacts
<1>5. item.buf = Cut(T, Space, v) /\ item.start = Len(T) + 1
  BY RelayedItem
<1>6. Word(Prefix) /\ Prefix[1] = ":" /\ Tail(Prefix) = FullName
  BY PrefixFacts
<1>7. v \in Seq(Char)
  <2>1. Body(Prefix, c, P) \in Seq(Char) /\ Trimmed(Body(Prefix, c, P))
    BY <1>1, <1>2, <1>6, BodyFacts
  <2> QED BY <2>1, TrimDrop
<1>8. sent(item, TRUE) = Cut(T, Space, v) /\ sent(item, FALSE) = v
  <2>1. sent(item, TRUE) = item.buf /\ sent(item, FALSE) = From(item.buf, item.start)
    BY DEF sent
  <2>2. From(Cut(T, Space, v), Len(T) + 1) = v
    BY <1>4, <1>7, SpaceIsChar, CutFrom
  <2> HIDE DEF item, T, v
  <2> QED BY <1>5, <2>1, <2>2
<1>9. parse(v) = plain /\ ~starts_with(v, Space)
  <2>1. /\ parse(v) = [tags |-> <<>>, prefix |-> <<Tail(Prefix)>>, command |-> c, params |-> parse_params(P)]
        /\ ~starts_with(v, Space)
    BY <1>1, <1>2, <1>6, PlainRead
  <2> QED BY <1>2, <1>6, <2>1, Zenon
<1>10. parse(Cut(T, Space, v)) = tagged
  <2>1. parse(Cut(T, Space, v)) =
           [tags |-> Tail(T), prefix |-> <<Tail(Prefix)>>, command |-> c, params |-> parse_params(P)]
    <3> HIDE DEF T, P
    <3> QED BY <1>1, <1>2, <1>4, <1>6, TaggedRead DEF T, P
  <2> QED BY <1>2, <1>6, <2>1, Zenon
<1>11. Q = <<t>> \o (IF s = <<>> THEN <<>> ELSE <<s>>)
  <2>1. t \in Seq(Char) /\ (s # <<>> => s \in Seq(Char))
    BY <1>1 DEF OneParam, Word, TextParam
  <2> HIDE DEF t, s
  <2>2. CASE s = <<>>
    <3>1. <<t>> \o <<>> = <<t>>
      OBVIOUS
    <3> QED BY <2>2, <3>1 DEF ParamsOf
  <2>3. CASE s # <<>>
    <3>1. <<t>> \o <<s>> = <<t, s>>
      <4> DEFINE S == Seq(Char)
      <4>1. t \in S /\ s \in S
        BY <2>1, <2>3
      <4> HIDE DEF S
      <4> QED BY <4>1, PairIsCat
    <3> QED BY <2>3, <3>1 DEF ParamsOf
  <2> QED BY <2>2, <2>3
<1>12. tags_of(A) =
          Pick(tags_of(m.tags), {i \in DOMAIN tags_of(m.tags) : is_client(tags_of(m.tags)[i])}) \o
          << [key |-> <<"msgid">>, value |-> MsgId], [key |-> <<"time">>, value |-> Now] >>
  <2>1. MsgIdTag \in Named /\ TimeTag \in Named
        /\ Tag_parse(MsgIdTag) = [key |-> <<"msgid">>, value |-> MsgId]
        /\ Tag_parse(TimeTag) = [key |-> <<"time">>, value |-> Now]
    BY ServerTags
  <2> HIDE DEF T
  <2>2. tags_of(A) =
          Pick(tags_of(m.tags), {i \in DOMAIN tags_of(m.tags) : is_client(tags_of(m.tags)[i])}) \o
          << Tag_parse(MsgIdTag), Tag_parse(TimeTag) >>
    BY <1>3, <1>4, <2>1, TagsAreRead
  <2> QED BY <2>1, <2>2
<1>13. ReadPlain(m, plain)
  <2> HIDE DEF Q, N, t, s
  <2> QED BY <1>11 DEF ReadPlain, N, t, s
<1>14. ReadTagged(m, tagged)
  <2> HIDE DEF A
  <2>1. [tagged EXCEPT !.tags = <<>>] = plain /\ tagged.tags = A
    <3> HIDE DEF Q, N, c
    <3> QED OBVIOUS
  <2> HIDE DEF tagged, plain
  <2>2. ReadPlain(m, [tagged EXCEPT !.tags = <<>>])
    BY <1>13, <2>1
  <2> QED BY <1>12, <2>1, <2>2 DEF ReadTagged
<1> HIDE DEF plain, tagged, v, item, T
<1> QED BY <1>8, <1>9, <1>10, <1>13, <1>14 DEF ReadByAll, item

\* A line that is relayed has no CR or LF before its end.
RelayIInv == TypedIInv /\ (job = "relay" => \A i \in 1 .. Len(text) : text[i] \notin {"CR", "LF"})

LEMMA RelayKept ==
    ASSUME RelayIInv
    PROVE  RelayKeepsMessage
<1> SUFFICES ASSUME job = "relay", IsRelayed(parse(Append(text, "LF")))
             PROVE  ReadByAll(parse(Append(text, "LF")), Relayed(parse(Append(text, "LF"))))
  BY DEF RelayKeepsMessage, Kept
<1> DEFINE s == Append(text, "LF")
           m == parse(s)
<1>1. text \in Seq(Char) /\ \A i \in 1 .. Len(text) : text[i] \notin {"CR", "LF"}
  BY TypedChars DEF RelayIInv
<1>2. s \in Seq(Char) /\ Len(s) = Len(text) + 1 /\ Len(text) \in Nat
      /\ \A i \in 1 .. Len(text) : s[i] = text[i]
  <2>1. "LF" \in Char
    BY DEF Char
  <2> QED BY <1>1, <2>1
<1> HIDE DEF s
<1>3. \A i \in 1 .. Len(s) : s[i] \in {"CR", "LF"} => i = Len(s)
  <2>1. \A i \in 1 .. Len(s) : i = Len(s) \/ i \in 1 .. Len(text)
    BY <1>2
  <2> QED BY <1>1, <1>2, <2>1
<1>4. m # NoMessage
  BY DEF IsRelayed, s
<1>5. MessageRead(m)
  BY <1>2, <1>3, <1>4, ParseFacts
<1>6. IsRelayed(m)
  BY DEF s
<1> HIDE DEF m
<1>7. ReadByAll(m, Relayed(m))
  BY <1>5, <1>6, RelayedIsRead
<1> QED BY <1>7 DEF m, s

\* A message that is relayed is read by all as its author wrote it, whatever the line.
THEOREM MessagesAreRelayedAsWritten == TextSpec => []RelayKeepsMessage
<1>1. TextInit /\ TypedIInv => RelayIInv
  <2> SUFFICES ASSUME TextInit, TypedIInv, job = "relay", NEW i \in 1 .. Len(text)
               PROVE  text[i] \notin {"CR", "LF"}
    BY DEF RelayIInv
  <2>1. text \in Heads /\ DOMAIN text = 1 .. Len(text)
    BY DEF TextInit, TypedIInv
  <2> QED BY <2>1, LineAssumption
<1>2. RelayIInv /\ TypedIInv' /\ [TextNext]_textVars => RelayIInv'
  <2> SUFFICES ASSUME RelayIInv, TypedIInv', [TextNext]_textVars PROVE RelayIInv'
    OBVIOUS
  <2>1. ASSUME NEW c \in LineChars \cup TagChars \cup ModeChars, type_char(c) PROVE RelayIInv'
    <3> SUFFICES ASSUME job' = "relay", NEW i \in 1 .. Len(text') PROVE text'[i] \notin {"CR", "LF"}
      BY DEF RelayIInv
    <3>1. job = "relay" /\ c \in LineChars /\ text' = Append(text, c)
      BY <2>1 DEF type_char
    <3>2. text \in Seq(STRING) /\ \A j \in 1 .. Len(text) : text[j] \notin {"CR", "LF"}
      BY <3>1 DEF RelayIInv, TypedIInv
    <3>3. c \notin {"CR", "LF"} /\ c \in STRING
      BY <3>1, LineAssumption, TextAssumption
    <3>4. Len(text') = Len(text) + 1 /\ Len(text) \in Nat /\ text'[Len(text) + 1] = c
          /\ \A j \in 1 .. Len(text) : text'[j] = text[j]
      BY <3>1, <3>2, <3>3
    <3>5. i = Len(text) + 1 \/ i \in 1 .. Len(text)
      BY <3>4
    <3> QED BY <3>2, <3>3, <3>4, <3>5
  <2>2. ASSUME NEW mask \in Masks, change_list(mask) PROVE RelayIInv'
    BY <2>2 DEF change_list, RelayIInv, TypedIInv
  <2>3. CASE UNCHANGED textVars
    BY <2>3 DEF RelayIInv, TypedIInv, textVars
  <2> QED BY <2>1, <2>2, <2>3 DEF TextNext
<1>3. RelayIInv => RelayKeepsMessage
  BY RelayKept
<1> QED BY <1>1, <1>2, <1>3, TypedInvariance, PTL DEF TextSpec

\* A value that is written in a tag is read back as it was, whatever its characters.
THEOREM TagValuesAreKept == TextSpec => []TagValueKept
<1>1. TypedIInv => TagValueKept
  BY TypedChars, TagValueIsKept
<1> QED BY <1>1, TypedInvariance, PTL

-----------------------------------------------------------------------------
(* The parameters of a line, by definition *)

\* The pieces of two texts with a c between them.
LEMMA SplitOfCut ==
    ASSUME NEW u \in Seq(Char), NEW c \in Char, NEW v \in Seq(Char)
    PROVE  split(Cut(u, c, v), c) = split(u, c) \o split(v, c)
<1> DEFINE x == split(u, c)
           y == split(v, c)
           w == Cut(u, c, v)
<1>1. x \in Seq(Seq(Char)) /\ y \in Seq(Seq(Char)) /\ Splits(u, c, x) /\ Splits(v, c, y)
  BY SplitExists
<1> HIDE DEF x, y
<1>2. Splits(w, c, x \o y)
  BY <1>1, SplitCut
<1>3. x \o y \in Seq(Seq(Char))
  BY <1>1
<1>4. w \in Seq(Char)
  BY CutFacts
<1> HIDE DEF w
<1>5. Starts(w, c) \in SUBSET Nat
  BY <1>4 DEF Starts
<1>6. split(w, c) = x \o y
  BY <1>2, <1>3, <1>4, <1>5, SplitIs
<1> QED BY <1>6 DEF x, y, w

LEMMA SplitOne ==
    ASSUME NEW s \in Seq(Char), NEW c, Lacks(s, c)
    PROVE  split(s, c) = <<s>>
<1>1. Splits(s, c, <<s>>)
  BY SplitWhole DEF Lacks
<1>2. <<s>> \in Seq(Seq(Char)) /\ Starts(s, c) \in SUBSET Nat
  BY DEF Starts
<1> QED BY <1>1, <1>2, SplitIs

\* The words of two texts with a space between them.
Words(s) == non_empty(split(s, Space))

LEMMA WordsOfCut ==
    ASSUME NEW u \in Seq(Char), NEW v \in Seq(Char)
    PROVE  /\ Words(Cut(u, Space, v)) = Words(u) \o Words(v)
           /\ Words(u) \in Seq(Seq(Char)) /\ Words(v) \in Seq(Seq(Char))
<1> DEFINE x == split(u, Space)
           y == split(v, Space)
<1>1. x \in Seq(Seq(Char)) /\ y \in Seq(Seq(Char))
  BY SplitExists
<1>2. split(Cut(u, Space, v), Space) = x \o y
  BY SpaceIsChar, SplitOfCut
<1> HIDE DEF x, y
<1>3. non_empty(x \o y) = non_empty(x) \o non_empty(y)
  BY <1>1, NonEmptyCat
<1>4. non_empty(x) \in Seq(Seq(Char)) /\ non_empty(y) \in Seq(Seq(Char))
  BY <1>1, NonEmptyIsTyped
<1> QED BY <1>2, <1>3, <1>4 DEF Words, x, y

LEMMA WordsOfOne ==
    ASSUME NEW s \in Seq(Char), Lacks(s, Space)
    PROVE  Words(s) = IF s = <<>> THEN <<>> ELSE <<s>>
BY SplitOne, NonEmptyOne DEF Words

\* The first colon that starts a word.
LEMMA ColonFacts ==
    ASSUME NEW s \in Seq(Char), Colons(s) # {}
    PROVE  /\ Min(Colons(s)) \in Colons(s) /\ Min(Colons(s)) \in 1 .. Len(s)
           /\ \A i \in Colons(s) : Min(Colons(s)) <= i
<1>1. Colons(s) \subseteq 1 .. Len(s)
  BY DEF Colons
<1>2. Colons(s) \in SUBSET Nat
  BY <1>1
<1> QED BY <1>1, <1>2, MinFacts

LEMMA MinIs ==
    ASSUME NEW T \in SUBSET Nat, NEW m \in T, \A i \in T : m <= i
    PROVE  Min(T) = m
<1>1. T # {}
  OBVIOUS
<1>2. Min(T) \in T /\ \A y \in T : Min(T) <= y
  BY <1>1, MinFacts
<1>3. Min(T) <= m /\ m <= Min(T) /\ Min(T) \in Nat /\ m \in Nat
  BY <1>2
<1> QED BY <1>3

LEMMA MinMoved ==
    ASSUME NEW C, NEW D \in SUBSET Nat, NEW n \in Nat, D # {}, \A i \in D : n + i \in C,
           \A k \in C : \E i \in D : k = n + i
    PROVE  Min(C) = n + Min(D)
<1>1. Min(D) \in D /\ \A y \in D : Min(D) <= y
  BY MinFacts
<1>2. ASSUME NEW d \in D, d = Min(D) PROVE n + d \in C /\ \A k \in C : n + d <= k
  <2>1. \A y \in D : d <= y
    BY <1>1, <1>2
  <2>2. d \in Nat /\ \A y \in D : y \in Nat
    OBVIOUS
  <2>3. ASSUME NEW k \in C PROVE n + d <= k
    <3>1. PICK i \in D : k = n + i
      OBVIOUS
    <3>2. i \in Nat /\ d <= i
      BY <2>1
    <3> QED BY <2>2, <3>1, <3>2
  <2> QED BY <2>3
<1>3. C \in SUBSET Nat
  <2>1. ASSUME NEW k \in C PROVE k \in Nat
    <3>1. PICK i \in D : k = n + i
      OBVIOUS
    <3> QED BY <3>1
  <2> QED BY <2>1
<1>4. PICK d : d = Min(D)
  OBVIOUS
<1>5. d \in D /\ n + d \in C /\ \A k \in C : n + d <= k
  BY <1>1, <1>2, <1>4
<1>6. Min(C) = n + d
  BY <1>3, <1>5, MinIs
<1> QED BY <1>4, <1>6

\* The colons after a space are those of what comes after it.
LEMMA ColonsOfCut ==
    ASSUME NEW u \in Seq(Char), NEW v \in Seq(Char), Colons(u) = {}
    PROVE  /\ \A i \in Colons(v) : Len(u) + 1 + i \in Colons(Cut(u, Space, v))
           /\ \A k \in Colons(Cut(u, Space, v)) : \E i \in Colons(v) : k = Len(u) + 1 + i
<1> DEFINE w == Cut(u, Space, v)
           n == Len(u) + 1
<1>1. IsCut(w, u, Space, v)
  BY SpaceIsChar, CutIsCut
<1> HIDE DEF w
<1>2. /\ w \in Seq(Char) /\ Len(w) = n + Len(v) /\ w[n] = Space /\ Len(u) \in Nat /\ Len(v) \in Nat
      /\ (\A i \in 1 .. Len(u) : w[i] = u[i]) /\ \A i \in 1 .. Len(v) : w[n + i] = v[i]
  <2>1. Len(u) \in Nat /\ Len(v) \in Nat
    OBVIOUS
  <2> QED BY ONLY <1>1, <2>1 DEF IsCut
<1>3. Space # ":"
  BY SpecialChars DEF Whitespace
<1>4. n = Len(u) + 1
  OBVIOUS
<1> HIDE DEF n
<1>5. ASSUME NEW i \in 1 .. Len(v)
      PROVE  n + i \in Colons(w) <=> i \in Colons(v)
  <2>1. n + i \in 1 .. Len(w) /\ n + i # 1 /\ (n + i) - 1 = n + (i - 1)
    BY <1>2, <1>4
  <2>2. w[n + i] = v[i]
    BY <1>2
  <2>3. i = 1 => w[(n + i) - 1] = Space
    BY <1>2, <1>4, <2>1
  <2>4. i # 1 => w[(n + i) - 1] = v[i - 1]
    <3>1. i # 1 => i - 1 \in 1 .. Len(v)
      OBVIOUS
    <3> QED BY <1>2, <2>1, <3>1
  <2>5. DOMAIN w = 1 .. Len(w) /\ DOMAIN v = 1 .. Len(v)
    BY <1>2
  <2> QED BY <2>1, <2>2, <2>3, <2>4, <2>5 DEF Colons
<1>6. ASSUME NEW k \in Colons(w)
      PROVE  \E i \in Colons(v) : k = n + i
  <2>1. k \in 1 .. Len(w) /\ w[k] = ":" /\ (k = 1 \/ w[k - 1] = Space)
    BY <1>2 DEF Colons
  <2>2. k # n
    BY <1>2, <1>3, <2>1
  <2>3. ~(k <= Len(u))
    <3>1. ASSUME k <= Len(u) PROVE FALSE
      <4>1. k \in 1 .. Len(u) /\ (k # 1 => k - 1 \in 1 .. Len(u))
        BY <1>2, <2>1, <3>1
      <4>2. u[k] = ":" /\ (k = 1 \/ u[k - 1] = Space)
        BY <1>2, <2>1, <4>1
      <4>3. k \in Colons(u)
        BY <4>1, <4>2 DEF Colons
      <4> QED BY <4>3
    <3> QED BY <3>1
  <2> DEFINE i == k - n
  <2>4. i \in 1 .. Len(v) /\ k = n + i
    BY <1>2, <1>4, <2>1, <2>2, <2>3
  <2> HIDE DEF i
  <2> QED BY <1>5, <2>4
<1>7. \A i \in Colons(v) : i \in 1 .. Len(v)
  BY DEF Colons
<1> QED BY <1>4, <1>5, <1>6, <1>7 DEF w

LEMMA MinOfCut ==
    ASSUME NEW u \in Seq(Char), NEW v \in Seq(Char), Colons(u) = {}
    PROVE  /\ Colons(v) = {} <=> Colons(Cut(u, Space, v)) = {}
           /\ Colons(v) # {} => Min(Colons(Cut(u, Space, v))) = Len(u) + 1 + Min(Colons(v))
<1> DEFINE w == Cut(u, Space, v)
           n == Len(u) + 1
           C == Colons(w)
           D == Colons(v)
<1>1. /\ \A i \in D : n + i \in C
      /\ \A k \in C : \E i \in D : k = n + i
  BY ColonsOfCut
<1>2. D \subseteq Nat /\ n \in Nat
  BY DEF Colons
<1> HIDE DEF C, D, n
<1>3. D = {} <=> C = {}
  BY <1>1
<1>4. ASSUME D # {} PROVE Min(C) = n + Min(D)
  BY <1>1, <1>2, <1>4, MinMoved
<1> QED BY <1>3, <1>4 DEF C, D, n, w

\* What is before and after a place of a text that is cut after an earlier one.
LEMMA CutSplitAt ==
    ASSUME NEW u \in Seq(Char), NEW v \in Seq(Char), NEW m \in 1 .. Len(v)
    PROVE  /\ SubSeq(Cut(u, Space, v), 1, (Len(u) + 1 + m) - 1) = Cut(u, Space, SubSeq(v, 1, m - 1))
           /\ From(Cut(u, Space, v), Len(u) + 1 + m) = From(v, m)
           /\ SubSeq(v, 1, m - 1) \in Seq(Char)
<1> DEFINE w == Cut(u, Space, v)
           n == Len(u) + 1
           x == SubSeq(v, 1, m - 1)
           y == Cut(u, Space, x)
           z == SubSeq(w, 1, (n + m) - 1)
<1>1. IsCut(w, u, Space, v)
  BY SpaceIsChar, CutIsCut
<1> HIDE DEF w
<1>2. /\ w \in Seq(Char) /\ Len(w) = n + Len(v) /\ w[n] = Space /\ Len(u) \in Nat /\ Len(v) \in Nat
      /\ (\A i \in 1 .. Len(u) : w[i] = u[i]) /\ \A i \in 1 .. Len(v) : w[n + i] = v[i]
  BY <1>1 DEF IsCut
<1>3. n = Len(u) + 1
  OBVIOUS
<1>4. x \in Seq(Char) /\ Len(x) = m - 1 /\ \A i \in 1 .. m - 1 : x[i] = v[i]
  <2>1. m - 1 \in Nat /\ 1 <= (m - 1) + 1 /\ m - 1 <= Len(v) /\ (m - 1) - 1 + 1 = m - 1
        /\ \A i \in 1 .. m - 1 : 1 + i - 1 = i
    BY <1>2
  <2> HIDE DEF x
  <2>2. /\ SubSeq(v, 1, m - 1) \in Seq(Char) /\ Len(SubSeq(v, 1, m - 1)) = (m - 1) - 1 + 1
        /\ \A i \in 1 .. (m - 1) - 1 + 1 : SubSeq(v, 1, m - 1)[i] = v[1 + i - 1]
    BY <2>1, Part
  <2> QED BY <2>1, <2>2 DEF x
<1> HIDE DEF x
<1>5. IsCut(y, u, Space, x)
  BY <1>4, SpaceIsChar, CutIsCut
<1> HIDE DEF y
<1>6. /\ y \in Seq(Char) /\ Len(y) = n + (m - 1) /\ y[n] = Space
      /\ (\A i \in 1 .. Len(u) : y[i] = u[i]) /\ \A i \in 1 .. m - 1 : y[n + i] = x[i]
  BY <1>4, <1>5 DEF IsCut
<1> HIDE DEF n
<1>7. z \in Seq(Char) /\ Len(z) = n + (m - 1) /\ \A i \in 1 .. n + (m - 1) : z[i] = w[i]
  <2> DEFINE k == (n + m) - 1
  <2>1. k \in Nat /\ 1 <= k + 1 /\ k <= Len(w) /\ k - 1 + 1 = k /\ k = n + (m - 1)
        /\ \A i \in 1 .. k : 1 + i - 1 = i
    BY <1>2, <1>3
  <2> HIDE DEF k, z
  <2>2. /\ SubSeq(w, 1, k) \in Seq(Char) /\ Len(SubSeq(w, 1, k)) = k - 1 + 1
        /\ \A i \in 1 .. k - 1 + 1 : SubSeq(w, 1, k)[i] = w[1 + i - 1]
    BY <1>2, <2>1, Part
  <2>3. z = SubSeq(w, 1, k)
    BY DEF z, k
  <2> QED BY <2>1, <2>2, <2>3
<1> HIDE DEF z
<1>8. z = y
  <2>1. \A i \in 1 .. n + (m - 1) : z[i] = y[i]
    <3> TAKE i \in 1 .. n + (m - 1)
    <3>1. CASE i <= Len(u)
      BY <1>2, <1>6, <1>7, <3>1
    <3>2. CASE i = n
      BY <1>2, <1>6, <1>7, <3>2
    <3>3. CASE ~(i <= Len(u)) /\ i # n
      <4> DEFINE j == i - n
      <4>1. j \in 1 .. m - 1 /\ i = n + j /\ j \in 1 .. Len(v)
        BY <1>2, <1>3, <3>3
      <4> HIDE DEF j
      <4>2. w[n + j] = v[j] /\ y[n + j] = x[j] /\ x[j] = v[j]
        BY <1>2, <1>4, <1>6, <4>1
      <4> QED BY <1>7, <4>1, <4>2
    <3> QED BY <3>1, <3>2, <3>3
  <2> QED BY <1>6, <1>7, <2>1, SeqEqual
<1>9. From(w, n + m) = From(v, m)
  <2> DEFINE a == From(w, n + m)
             b == From(v, m)
  <2>1. n + m \in 0 .. Len(w) /\ m \in 0 .. Len(v) /\ Len(w) - (n + m) = Len(v) - m
    BY <1>2, <1>3
  <2>2. /\ a \in Seq(Char) /\ Len(a) = Len(v) - m /\ \A i \in 1 .. Len(v) - m : a[i] = w[(n + m) + i]
    <3> DEFINE k == n + m
    <3>1. k \in 0 .. Len(w) /\ Len(w) - k = Len(v) - m
      BY <2>1
    <3> HIDE DEF k
    <3>2. /\ From(w, k) \in Seq(Char) /\ Len(From(w, k)) = Len(w) - k
          /\ \A i \in 1 .. Len(w) - k : From(w, k)[i] = w[k + i]
      BY <1>2, <3>1, FromFacts
    <3> QED BY <3>1, <3>2 DEF k
  <2>3. b \in Seq(Char) /\ Len(b) = Len(v) - m /\ \A i \in 1 .. Len(v) - m : b[i] = v[m + i]
    BY <2>1, FromFacts
  <2> HIDE DEF a, b
  <2>4. \A i \in 1 .. Len(v) - m : a[i] = b[i]
    <3> TAKE i \in 1 .. Len(v) - m
    <3>1. m + i \in 1 .. Len(v) /\ (n + m) + i = n + (m + i)
      BY <1>2, <1>3
    <3>2. w[n + (m + i)] = v[m + i]
      BY <1>2, <3>1
    <3> QED BY <2>2, <2>3, <3>1, <3>2
  <2>5. a = b
    BY <2>2, <2>3, <2>4, SeqEqual
  <2> QED BY <2>5 DEF a, b
<1> QED BY <1>4, <1>8, <1>9 DEF x, y, z, w, n

AppendsLast(p, q, r) == Append(p \o q, r) = p \o Append(q, r)

LEMMA AppendLast ==
    ASSUME NEW S, NEW p \in Seq(S), NEW q \in Seq(S), NEW r \in S
    PROVE  AppendsLast(p, q, r)
BY DEF AppendsLast

\* What is before the first word is not a parameter, nor does it have one if it is empty.
LEMMA ParamsOfCut ==
    ASSUME NEW u \in Seq(Char), NEW v \in Seq(Char), Lacks(u, Space), u = <<>> \/ u[1] # ":"
    PROVE  ParamsIn(Cut(u, Space, v)) = (IF u = <<>> THEN <<>> ELSE <<u>>) \o ParamsIn(v)
<1> DEFINE w == Cut(u, Space, v)
           a == IF u = <<>> THEN <<>> ELSE <<u>>
           n == Len(u) + 1
<1>1. Colons(u) = {}
  <2>1. ASSUME NEW i \in Colons(u) PROVE FALSE
    <3>1. i \in 1 .. Len(u) /\ u[i] = ":" /\ (i = 1 \/ u[i - 1] = Space)
      BY DEF Colons
    <3>2. i # 1 => i - 1 \in 1 .. Len(u)
      BY <3>1
    <3>3. i = 1
      BY <3>1, <3>2 DEF Lacks
    <3> QED BY <3>1, <3>3
  <2> QED BY <2>1
<1>2. Words(u) = a /\ a \in Seq(Seq(Char))
  <2>1. Words(u) = a
    BY WordsOfOne
  <2> QED BY <2>1
<1> HIDE DEF a
<1>3. /\ Colons(v) = {} <=> Colons(w) = {}
      /\ Colons(v) # {} => Min(Colons(w)) = n + Min(Colons(v))
  BY <1>1, MinOfCut
<1>4. CASE Colons(v) = {}
  <2>1. ParamsIn(w) = Words(w) /\ ParamsIn(v) = Words(v)
    <3> HIDE DEF w
    <3> QED BY <1>3, <1>4, Zenon DEF ParamsIn, Words
  <2> QED BY <1>2, <2>1, WordsOfCut DEF a
<1>5. CASE Colons(v) # {}
  <2> DEFINE m == Min(Colons(v))
             x == SubSeq(v, 1, m - 1)
             e == trim_end(From(v, m))
  <2>1. m \in 1 .. Len(v)
    BY <1>5, ColonFacts
  <2>2. Min(Colons(w)) = n + m
    BY <1>3, <1>5
  <2> HIDE DEF m
  <2>3. SubSeq(w, 1, (n + m) - 1) = Cut(u, Space, x) /\ From(w, n + m) = From(v, m) /\ x \in Seq(Char)
    BY <2>1, CutSplitAt
  <2>4. ParamsIn(v) = Append(Words(x), e)
    BY <1>5 DEF ParamsIn, Words, m
  <2>5. ParamsIn(w) = Append(Words(Cut(u, Space, x)), e)
    <3>1. ParamsIn(w) = Append(Words(SubSeq(w, 1, Min(Colons(w)) - 1)), trim_end(From(w, Min(Colons(w)))))
      <4>1. Colons(w) # {}
        BY <1>3, <1>5
      <4> HIDE DEF w
      <4> QED BY <4>1 DEF ParamsIn, Words
    <3> HIDE DEF w, n, x
    <3>2. SubSeq(w, 1, Min(Colons(w)) - 1) = Cut(u, Space, x) /\ From(w, Min(Colons(w))) = From(v, m)
      BY <2>2, <2>3
    <3> QED BY <3>1, <3>2, Zenon
  <2> HIDE DEF x
  <2>6. Words(Cut(u, Space, x)) = a \o Words(x) /\ Words(x) \in Seq(Seq(Char))
    BY <1>2, <2>3, WordsOfCut
  <2>7. e \in Seq(Char)
    <3> DEFINE f == From(v, m)
    <3>1. f \in Seq(Char)
      <4>1. m \in 0 .. Len(v)
        BY <2>1
      <4> QED BY <4>1, FromFacts
    <3> HIDE DEF f
    <3>2. PICK k \in 0 .. Len(f) : trim_end(f) = SubSeq(f, 1, k)
      BY <3>1, TrimEndFacts
    <3>3. SubSeq(f, 1, k) \in Seq(Char)
      <4>1. k \in Nat /\ 1 <= k + 1 /\ k <= Len(f)
        BY <3>1
      <4> QED BY <3>1, <4>1, Part
    <3> QED BY <3>2, <3>3 DEF f
  <2> HIDE DEF e
  <2> DEFINE p == Words(x)
  <2>8. p \in Seq(Seq(Char))
    BY <2>6
  <2> HIDE DEF p
  <2>9. Append(a \o p, e) = a \o Append(p, e)
    <3> DEFINE S == Seq(Char)
    <3>1. a \in Seq(S) /\ p \in Seq(S) /\ e \in S
      BY <1>2, <2>7, <2>8
    <3> HIDE DEF S
    <3>2. AppendsLast(a, p, e)
      BY <3>1, AppendLast
    <3> QED BY <3>2 DEF AppendsLast
  <2> QED BY <2>4, <2>5, <2>6, <2>9 DEF p, a
<1> QED BY <1>4, <1>5 DEF a, w

LEMMA ParamsOfOne ==
    ASSUME NEW s \in Seq(Char), Lacks(s, Space), s = <<>> \/ s[1] # ":"
    PROVE  ParamsIn(s) = IF s = <<>> THEN <<>> ELSE <<s>>
<1>1. Colons(s) = {}
  <2>1. ASSUME NEW i \in Colons(s) PROVE FALSE
    <3>1. i \in 1 .. Len(s) /\ s[i] = ":" /\ (i = 1 \/ s[i - 1] = Space)
      BY DEF Colons
    <3>2. i # 1 => i - 1 \in 1 .. Len(s)
      BY <3>1
    <3>3. i = 1
      BY <3>1, <3>2 DEF Lacks
    <3> QED BY <3>1, <3>3
  <2> QED BY <2>1
<1>2. ParamsIn(s) = Words(s)
  BY <1>1 DEF ParamsIn, Words
<1> QED BY <1>2, WordsOfOne

\* trim_end of a text that does not end with white space, and of one that does.
LEMMA TrimEndIs ==
    ASSUME NEW s \in Seq(Char), NEW k \in 0 .. Len(s), k > 0 => s[k] \notin Whitespace,
           \A i \in k + 1 .. Len(s) : s[i] \in Whitespace
    PROVE  trim_end(s) = SubSeq(s, 1, k)
<1>1. PICK j \in 0 .. Len(s) :
         /\ trim_end(s) = SubSeq(s, 1, j)
         /\ j > 0 => s[j] \notin Whitespace
         /\ \A i \in j + 1 .. Len(s) : s[i] \in Whitespace
  BY TrimEndFacts
<1>2. ~(j < k)
  <2>1. j < k => k \in j + 1 .. Len(s) /\ k > 0
    OBVIOUS
  <2> QED BY <1>1, <2>1
<1>3. ~(k < j)
  <2>1. k < j => j \in k + 1 .. Len(s) /\ j > 0
    OBVIOUS
  <2> QED BY <1>1, <2>1
<1>4. j = k
  BY <1>2, <1>3
<1> QED BY <1>1, <1>4

LEMMA WholePart ==
    ASSUME NEW s \in Seq(Char)
    PROVE  SubSeq(s, 1, Len(s)) = s
<1> DEFINE n == Len(s)
           t == SubSeq(s, 1, n)
<1>1. n \in Nat /\ 1 <= n + 1 /\ n <= Len(s) /\ n - 1 + 1 = n /\ \A i \in 1 .. n : 1 + i - 1 = i
  OBVIOUS
<1> HIDE DEF n
<1>2. /\ t \in Seq(Char) /\ Len(t) = n - 1 + 1 /\ \A i \in 1 .. n - 1 + 1 : t[i] = s[1 + i - 1]
  BY <1>1, Part
<1> HIDE DEF t
<1>3. Len(t) = Len(s) /\ \A i \in 1 .. Len(t) : t[i] = s[i]
  BY <1>1, <1>2 DEF n
<1>4. t = s
  BY <1>2, <1>3, SeqEqual
<1> QED BY <1>4 DEF t, n

\* What follows a colon that starts the parameters is the last one.
LEMMA ParamsOfColon ==
    ASSUME NEW s \in Seq(Char), s # <<>>, s[1] = ":", Trimmed(s)
    PROVE  ParamsIn(s) = <<Tail(s)>> /\ Tail(s) \in Seq(Char)
<1> DEFINE C == Colons(s)
<1>1. 1 \in C /\ C \in SUBSET Nat /\ \A i \in C : 1 <= i
  BY DEF Colons
<1> HIDE DEF C
<1>2. Min(C) = 1 /\ C # {}
  BY <1>1, MinIs
<1>3. ParamsIn(s) = Append(Words(SubSeq(s, 1, 1 - 1)), trim_end(From(s, 1)))
  BY <1>2 DEF ParamsIn, Words, C
<1> DEFINE e == SubSeq(s, 1, 1 - 1)
           t == From(s, 1)
<1>4. e \in Seq(Char) /\ e = <<>>
  OBVIOUS
<1>5. t \in Seq(Char) /\ Len(t) = Len(s) - 1 /\ \A i \in 1 .. Len(s) - 1 : t[i] = s[1 + i]
  <2>1. 1 \in 0 .. Len(s)
    OBVIOUS
  <2> QED BY <2>1, FromFacts
<1> HIDE DEF e, t
<1>6. Words(e) = <<>>
  <2>1. Lacks(e, Space)
    BY <1>4 DEF Lacks
  <2> QED BY <1>4, <2>1, WordsOfOne
<1>7. Tail(s) \in Seq(Char) /\ Tail(s) = t
  <2>1. Tail(s) \in Seq(Char) /\ Len(Tail(s)) = Len(s) - 1 /\ \A i \in 1 .. Len(s) - 1 : Tail(s)[i] = s[i + 1]
    OBVIOUS
  <2>2. \A i \in 1 .. Len(s) - 1 : i + 1 = 1 + i
    OBVIOUS
  <2>3. Len(Tail(s)) = Len(t) /\ \A i \in 1 .. Len(Tail(s)) : Tail(s)[i] = t[i]
    BY <1>5, <2>1, <2>2
  <2> QED BY <1>5, <2>1, <2>3, SeqEqual
<1>8. trim_end(t) = t
  <2> DEFINE k == Len(t)
  <2>1. k \in 0 .. Len(t)
    BY <1>5
  <2>2. k > 0 => t[k] \notin Whitespace
    <3>1. k > 0 => k \in 1 .. Len(s) - 1 /\ 1 + k = Len(s)
      BY <1>5
    <3>2. s[Len(s)] \notin Whitespace
      BY DEF Trimmed
    <3> QED BY <1>5, <3>1, <3>2
  <2>3. \A i \in k + 1 .. Len(t) : t[i] \in Whitespace
    BY <1>5
  <2> HIDE DEF k
  <2>4. trim_end(t) = SubSeq(t, 1, k)
    BY <1>5, <2>1, <2>2, <2>3, TrimEndIs
  <2> QED BY <1>5, <2>4, WholePart DEF k
<1>9. Append(<<>>, t) = <<t>>
  BY <1>5
<1> QED BY <1>3, <1>6, <1>7, <1>8, <1>9 DEF e, t

LEMMA TrimEndTyped ==
    ASSUME NEW s \in Seq(Char)
    PROVE  trim_end(s) \in Seq(Char)
<1>1. PICK k \in 0 .. Len(s) : trim_end(s) = SubSeq(s, 1, k)
  BY TrimEndFacts
<1>2. k \in Nat /\ 1 <= k + 1 /\ k <= Len(s)
  OBVIOUS
<1> QED BY <1>1, <1>2, Part

LEMMA ParamsTyped ==
    ASSUME NEW s \in Seq(Char)
    PROVE  ParamsIn(s) \in Seq(Seq(Char))
<1>1. ASSUME NEW x \in Seq(Char) PROVE Words(x) \in Seq(Seq(Char))
  <2>1. split(x, Space) \in Seq(Seq(Char))
    BY SplitExists
  <2> QED BY <2>1, NonEmptyIsTyped DEF Words
<1>2. CASE Colons(s) = {}
  BY <1>1, <1>2 DEF ParamsIn, Words
<1>3. CASE Colons(s) # {}
  <2> DEFINE m == Min(Colons(s))
             x == SubSeq(s, 1, m - 1)
             y == From(s, m)
             a == Words(x)
             e == trim_end(y)
  <2>1. ParamsIn(s) = Append(a, e)
    BY <1>3 DEF ParamsIn, Words
  <2>2. m \in 1 .. Len(s)
    BY <1>3, ColonFacts
  <2> HIDE DEF m
  <2>3. x \in Seq(Char) /\ y \in Seq(Char)
    <3>1. m - 1 \in Nat /\ 1 <= (m - 1) + 1 /\ m - 1 <= Len(s) /\ m \in 0 .. Len(s)
      BY <2>2
    <3> QED BY <3>1, Part, FromFacts
  <2> HIDE DEF x, y
  <2>4. a \in Seq(Seq(Char)) /\ e \in Seq(Char)
    BY <1>1, <2>3, TrimEndTyped
  <2> HIDE DEF a, e
  <2> QED BY <2>1, <2>4
<1> QED BY <1>2, <1>3

\* What can be typed on a line.
Inner(v) == v \in Seq(Char) /\ \A i \in 1 .. Len(v) : v[i] \notin {"NUL", "CR", "LF"}

\* v and one more character.
IsMore(w, v, c) ==
    w \in Seq(Char) /\ Len(w) = Len(v) + 1 /\ w[Len(v) + 1] = c /\ \A i \in 1 .. Len(v) : w[i] = v[i]

LEMMA MoreFacts ==
    ASSUME NEW v \in Seq(Char), NEW c \in Char
    PROVE  IsMore(Append(v, c), v, c)
BY DEF IsMore

\* A space at the end is not a parameter, nor a part of one.
LEMMA ParamsThenSpace ==
    ASSUME NEW v \in Seq(Char)
    PROVE  ParamsIn(Append(v, Space)) = ParamsIn(v)
<1> DEFINE w == Append(v, Space)
<1>1. IsMore(w, v, Space) /\ Len(v) \in Nat
  BY SpaceIsChar, MoreFacts
<1>2. w = Cut(v, Space, <<>>)
  BY <1>1 DEF IsMore, Cut
<1> HIDE DEF w
<1>3. /\ w \in Seq(Char) /\ Len(w) = Len(v) + 1 /\ w[Len(v) + 1] = Space /\ Len(v) \in Nat
      /\ \A i \in 1 .. Len(v) : w[i] = v[i]
  BY <1>1 DEF IsMore
<1>4. Space # ":" /\ Space \in Whitespace
  BY SpecialChars DEF Whitespace
<1>5. Colons(w) = Colons(v)
  <2> SUFFICES ASSUME NEW i PROVE i \in Colons(w) <=> i \in Colons(v)
    OBVIOUS
  <2>1. DOMAIN w = 1 .. Len(w) /\ DOMAIN v = 1 .. Len(v)
    BY <1>3
  <2>2. i \in 1 .. Len(w) <=> i \in 1 .. Len(v) \/ i = Len(v) + 1
    BY <1>3
  <2>3. i \in 1 .. Len(v) /\ i # 1 => i - 1 \in 1 .. Len(v)
    BY <1>3
  <2>4. i \in 1 .. Len(v) => (w[i] = v[i] /\ (i # 1 => w[i - 1] = v[i - 1]))
    BY <1>3, <2>3
  <2>5. i = Len(v) + 1 => w[i] # ":"
    BY <1>3, <1>4
  <2> QED BY <2>1, <2>2, <2>4, <2>5 DEF Colons
<1>6. CASE Colons(v) = {}
  <2>1. ParamsIn(w) = Words(w) /\ ParamsIn(v) = Words(v)
    BY <1>5, <1>6 DEF ParamsIn, Words
  <2> DEFINE e == <<>>
  <2>2. e \in Seq(Char) /\ Lacks(e, Space)
    BY DEF Lacks
  <2>3. Words(e) = <<>>
    BY <2>2, WordsOfOne
  <2>4. w = Cut(v, Space, e)
    BY <1>2
  <2> HIDE DEF e
  <2>5. Words(w) = Words(v) \o Words(e) /\ Words(v) \in Seq(Seq(Char))
    BY <2>2, <2>4, WordsOfCut
  <2> QED BY <2>1, <2>3, <2>5 DEF w
<1>7. CASE Colons(v) # {}
  <2> DEFINE m == Min(Colons(v))
             k == m - 1
  <2>1. m \in 1 .. Len(v)
    BY <1>7, ColonFacts
  <2>2. /\ ParamsIn(v) = Append(Words(SubSeq(v, 1, m - 1)), trim_end(From(v, m)))
        /\ ParamsIn(w) = Append(Words(SubSeq(w, 1, m - 1)), trim_end(From(w, m)))
    BY <1>5, <1>7 DEF ParamsIn, Words
  <2> HIDE DEF m
  <2>3. SubSeq(w, 1, m - 1) = SubSeq(v, 1, m - 1)
    <3>1. k \in Nat /\ 1 <= k + 1 /\ k <= Len(v) /\ k <= Len(w) /\ k - 1 + 1 = k
          /\ \A i \in 1 .. k : 1 + i - 1 = i /\ i \in 1 .. Len(v)
      BY <1>3, <2>1
    <3>2. k = m - 1
      OBVIOUS
    <3> HIDE DEF k
    <3>3. ASSUME NEW s \in Seq(Char), k <= Len(s)
          PROVE  SubSeq(s, 1, k) \in Seq(Char) /\ Len(SubSeq(s, 1, k)) = k
                 /\ \A i \in 1 .. k : SubSeq(s, 1, k)[i] = s[i]
      <4>1. /\ SubSeq(s, 1, k) \in Seq(Char) /\ Len(SubSeq(s, 1, k)) = k - 1 + 1
            /\ \A i \in 1 .. k - 1 + 1 : SubSeq(s, 1, k)[i] = s[1 + i - 1]
        BY <3>1, <3>3, Part
      <4> QED BY <3>1, <4>1
    <3>4. SubSeq(w, 1, k) = SubSeq(v, 1, k)
      <4> DEFINE a == SubSeq(w, 1, k)
                 b == SubSeq(v, 1, k)
      <4>1. a \in Seq(Char) /\ Len(a) = k /\ \A i \in 1 .. k : a[i] = w[i]
        BY <1>3, <3>1, <3>3
      <4>2. b \in Seq(Char) /\ Len(b) = k /\ \A i \in 1 .. k : b[i] = v[i]
        BY <1>3, <3>1, <3>3
      <4> HIDE DEF a, b
      <4>3. \A i \in 1 .. k : a[i] = b[i]
        BY <1>3, <3>1, <4>1, <4>2
      <4>4. a = b
        BY <4>1, <4>2, <4>3, SeqEqual
      <4> QED BY <4>4 DEF a, b
    <3> QED BY <3>2, <3>4
  <2>4. trim_end(From(w, m)) = trim_end(From(v, m))
    <3> DEFINE x == From(v, m)
               y == From(w, m)
               l == Len(v) - m
    <3>1. m \in 0 .. Len(v) /\ m \in 0 .. Len(w) /\ Len(w) - m = l + 1 /\ l = Len(v) - m /\ l \in Nat
          /\ m + (l + 1) = Len(v) + 1 /\ \A i \in 1 .. l : m + i \in 1 .. Len(v)
      BY <1>3, <2>1
    <3>2. x \in Seq(Char) /\ Len(x) = l /\ \A i \in 1 .. l : x[i] = v[m + i]
      BY <3>1, FromFacts
    <3>3. y \in Seq(Char) /\ Len(y) = Len(w) - m /\ \A i \in 1 .. Len(w) - m : y[i] = w[m + i]
      BY <1>3, <3>1, FromFacts
    <3> HIDE DEF l, x, y
    <3>4. Len(y) = l + 1 /\ (\A i \in 1 .. l : y[i] = x[i]) /\ y[l + 1] = Space
      <4>1. Len(y) = l + 1
        BY <3>1, <3>3
      <4>2. y[l + 1] = Space
        <5>1. l + 1 \in 1 .. Len(w) - m
          BY <3>1
        <5>2. y[l + 1] = w[m + (l + 1)]
          BY <3>3, <5>1
        <5> QED BY <1>3, <3>1, <5>2
      <4>3. ASSUME NEW i \in 1 .. l PROVE y[i] = x[i]
        <5>1. i \in 1 .. Len(w) - m
          BY <3>1
        <5>2. y[i] = w[m + i] /\ w[m + i] = v[m + i]
          BY <1>3, <3>1, <3>3, <5>1
        <5> QED BY <3>2, <5>2
      <4> QED BY <4>1, <4>2, <4>3
    <3>5. PICK j \in 0 .. Len(x) :
             /\ trim_end(x) = SubSeq(x, 1, j)
             /\ j > 0 => x[j] \notin Whitespace
             /\ \A i \in j + 1 .. Len(x) : x[i] \in Whitespace
      BY <3>2, TrimEndFacts
    <3>6. trim_end(y) = SubSeq(y, 1, j)
      <4>1. j \in 0 .. Len(y)
        BY <3>1, <3>2, <3>4
      <4>2. j > 0 => y[j] \notin Whitespace
        <5>1. j > 0 => j \in 1 .. l
          BY <3>2
        <5> QED BY <3>4, <3>5, <5>1
      <4>3. ASSUME NEW i \in j + 1 .. Len(y) PROVE y[i] \in Whitespace
        <5>1. i = l + 1 \/ (i \in 1 .. l /\ i \in j + 1 .. Len(x))
          BY <3>1, <3>2, <3>4
        <5> QED BY <1>4, <3>4, <3>5, <5>1
      <4> QED BY <3>3, <4>1, <4>2, <4>3, TrimEndIs
    <3>7. SubSeq(y, 1, j) = SubSeq(x, 1, j)
      <4>1. j \in Nat /\ 1 <= j + 1 /\ j <= Len(x) /\ j <= Len(y) /\ j - 1 + 1 = j
            /\ \A i \in 1 .. j : 1 + i - 1 = i /\ i \in 1 .. l
        BY <3>1, <3>2, <3>4
      <4> DEFINE a == SubSeq(y, 1, j)
                 b == SubSeq(x, 1, j)
      <4>2. a \in Seq(Char) /\ Len(a) = j - 1 + 1 /\ \A i \in 1 .. j - 1 + 1 : a[i] = y[1 + i - 1]
        BY <3>3, <4>1, Part
      <4>3. b \in Seq(Char) /\ Len(b) = j - 1 + 1 /\ \A i \in 1 .. j - 1 + 1 : b[i] = x[1 + i - 1]
        BY <3>2, <4>1, Part
      <4> HIDE DEF a, b
      <4>4. Len(a) = Len(b) /\ \A i \in 1 .. Len(a) : a[i] = b[i]
        BY <3>4, <4>1, <4>2, <4>3
      <4>5. a = b
        BY <4>2, <4>3, <4>4, SeqEqual
      <4> QED BY <4>5 DEF a, b
    <3> QED BY <3>5, <3>6, <3>7 DEF x, y
  <2> QED BY <2>2, <2>3, <2>4 DEF w
<1> QED BY <1>6, <1>7 DEF w

\* A text that starts, or ends, with c.
LEMMA FirstOff ==
    ASSUME NEW v \in Seq(Char), v # <<>>, v[1] = Space
    PROVE  /\ From(v, 1) \in Seq(Char) /\ Len(From(v, 1)) = Len(v) - 1
           /\ (\A i \in 1 .. Len(v) - 1 : From(v, 1)[i] = v[1 + i])
           /\ v = Cut(<<>>, Space, From(v, 1))
<1> DEFINE t == From(v, 1)
           e == <<>>
           w == Cut(e, Space, t)
<1>1. 1 \in 0 .. Len(v) /\ Len(v) \in Nat
  OBVIOUS
<1>2. t \in Seq(Char) /\ Len(t) = Len(v) - 1 /\ \A i \in 1 .. Len(v) - 1 : t[i] = v[1 + i]
  BY <1>1, FromFacts
<1> HIDE DEF t
<1>3. e \in Seq(Char) /\ Len(e) = 0
  OBVIOUS
<1> HIDE DEF e
<1>4. IsCut(w, e, Space, t)
  BY <1>2, <1>3, SpaceIsChar, CutIsCut
<1> HIDE DEF w
<1>5. w \in Seq(Char) /\ Len(w) = Len(v) /\ w[1] = Space /\ \A i \in 1 .. Len(v) - 1 : w[1 + i] = t[i]
  <2>1. Len(e) + 1 = 1 /\ 1 + Len(t) = Len(v) /\ Len(t) = Len(v) - 1
    BY <1>1, <1>2, <1>3
  <2> QED BY <1>4, <2>1 DEF IsCut
<1>6. \A i \in 1 .. Len(w) : w[i] = v[i]
  <2> TAKE i \in 1 .. Len(w)
  <2>1. CASE i = 1
    BY <1>5, <2>1
  <2>2. CASE i # 1
    <3> DEFINE j == i - 1
    <3>1. j \in 1 .. Len(v) - 1 /\ i = 1 + j
      BY <1>1, <1>5, <2>2
    <3> HIDE DEF j
    <3> QED BY <1>2, <1>5, <3>1
  <2> QED BY <2>1, <2>2
<1>7. w = v
  BY <1>5, <1>6, SeqEqual
<1> QED BY <1>2, <1>7 DEF t, w, e

LEMMA LastOff ==
    ASSUME NEW v \in Seq(Char), v # <<>>, NEW n \in Nat, Len(v) = n + 1
    PROVE  /\ SubSeq(v, 1, n) \in Seq(Char) /\ Len(SubSeq(v, 1, n)) = n
           /\ (\A i \in 1 .. n : SubSeq(v, 1, n)[i] = v[i])
           /\ v = Append(SubSeq(v, 1, n), v[n + 1])
<1> DEFINE t == SubSeq(v, 1, n)
           c == v[n + 1]
           w == Append(t, c)
<1>1. n \in Nat /\ 1 <= n + 1 /\ n <= Len(v) /\ n - 1 + 1 = n /\ \A i \in 1 .. n : 1 + i - 1 = i
  OBVIOUS
<1>2. t \in Seq(Char) /\ Len(t) = n /\ \A i \in 1 .. n : t[i] = v[i]
  <2>1. /\ SubSeq(v, 1, n) \in Seq(Char) /\ Len(SubSeq(v, 1, n)) = n - 1 + 1
        /\ \A i \in 1 .. n - 1 + 1 : SubSeq(v, 1, n)[i] = v[1 + i - 1]
    BY <1>1, Part
  <2> QED BY <1>1, <2>1
<1>3. c \in Char
  BY <1>1
<1> HIDE DEF t
<1>4. IsMore(w, t, c)
  BY <1>2, <1>3, MoreFacts
<1> HIDE DEF w
<1>5. w \in Seq(Char) /\ Len(w) = n + 1 /\ w[n + 1] = c /\ \A i \in 1 .. n : w[i] = v[i]
  BY <1>2, <1>4 DEF IsMore
<1>6. \A i \in 1 .. Len(w) : w[i] = v[i]
  <2> TAKE i \in 1 .. Len(w)
  <2>1. i = n + 1 \/ i \in 1 .. n
    BY <1>5
  <2> QED BY <1>5, <2>1
<1>7. w = v
  BY <1>5, <1>6, SeqEqual
<1> QED BY <1>2, <1>7 DEF t, w, c

\* Trimming does not change what the parameters are.
TrimKeeps(v) == ParamsIn(trim(v)) = ParamsIn(v)

LEMMA InnerSpace ==
    ASSUME NEW v, Inner(v), NEW i \in 1 .. Len(v), v[i] \in Whitespace
    PROVE  v[i] = Space
BY DEF Inner, Whitespace

LEMMA TrimFirstOff ==
    ASSUME NEW v \in Seq(Char), NEW w \in Seq(Char), Len(v) = Len(w) + 1, v[1] \in Whitespace,
           \A i \in 1 .. Len(w) : w[i] = v[1 + i]
    PROVE  trim(v) = trim(w)
<1> DEFINE t == trim(w)
<1>1. t \in Seq(Char)
  BY TrimFacts
<1>2. PICK a \in Nat : Trims(w, a, t)
  BY TrimFacts
<1> HIDE DEF t
<1>3. Trimmed(t) /\ a + Len(t) <= Len(w) /\ (\A i \in 1 .. Len(t) : t[i] = w[a + i])
      /\ \A i \in 1 .. Len(w) : i <= a \/ a + Len(t) < i => w[i] \in Whitespace
  BY <1>2 DEF Trims
<1>4. Trims(v, a + 1, t)
  <2>1. a + 1 + Len(t) <= Len(v)
    BY <1>1, <1>3
  <2>2. ASSUME NEW i \in 1 .. Len(t) PROVE t[i] = v[a + 1 + i]
    <3>1. a + i \in 1 .. Len(w) /\ 1 + (a + i) = a + 1 + i
      BY <1>1, <1>3
    <3> QED BY <1>3, <3>1
  <2>3. ASSUME NEW i \in 1 .. Len(v), i <= a + 1 \/ a + 1 + Len(t) < i PROVE v[i] \in Whitespace
    <3>1. CASE i = 1
      BY <3>1
    <3>2. CASE i # 1
      <4> DEFINE j == i - 1
      <4>1. j \in 1 .. Len(w) /\ i = 1 + j /\ (j <= a \/ a + Len(t) < j)
        BY <1>1, <2>3, <3>2
      <4> HIDE DEF j
      <4> QED BY <1>3, <4>1
    <3> QED BY <3>1, <3>2
  <2> QED BY <1>3, <2>1, <2>2, <2>3 DEF Trims
<1>5. a + 1 \in Nat
  OBVIOUS
<1>6. trim(v) = t
  BY <1>1, <1>4, <1>5, TrimIs
<1> QED BY <1>6 DEF t

LEMMA TrimLastOff ==
    ASSUME NEW v \in Seq(Char), NEW w \in Seq(Char), Len(v) = Len(w) + 1,
           v[Len(w) + 1] \in Whitespace, \A i \in 1 .. Len(w) : w[i] = v[i]
    PROVE  trim(v) = trim(w)
<1> DEFINE t == trim(w)
<1>1. t \in Seq(Char)
  BY TrimFacts
<1>2. PICK a \in Nat : Trims(w, a, t)
  BY TrimFacts
<1> HIDE DEF t
<1>3. Trimmed(t) /\ a + Len(t) <= Len(w) /\ (\A i \in 1 .. Len(t) : t[i] = w[a + i])
      /\ \A i \in 1 .. Len(w) : i <= a \/ a + Len(t) < i => w[i] \in Whitespace
  BY <1>2 DEF Trims
<1>4. Trims(v, a, t)
  <2>1. a + Len(t) <= Len(v)
    BY <1>1, <1>3
  <2>2. ASSUME NEW i \in 1 .. Len(t) PROVE t[i] = v[a + i]
    <3>1. a + i \in 1 .. Len(w)
      BY <1>1, <1>3
    <3> QED BY <1>3, <3>1
  <2>3. ASSUME NEW i \in 1 .. Len(v), i <= a \/ a + Len(t) < i PROVE v[i] \in Whitespace
    <3>1. CASE i = Len(w) + 1
      BY <3>1
    <3>2. CASE i # Len(w) + 1
      <4>1. i \in 1 .. Len(w)
        BY <3>2
      <4> QED BY <1>3, <2>3, <4>1
    <3> QED BY <3>1, <3>2
  <2> QED BY <1>3, <2>1, <2>2, <2>3 DEF Trims
<1>5. trim(v) = t
  BY <1>1, <1>4, TrimIs
<1> QED BY <1>5 DEF t

LEMMA ParamsTrimmed ==
    ASSUME NEW v, Inner(v)
    PROVE  ParamsIn(trim(v)) = ParamsIn(v)
<1> DEFINE K == {n \in Nat : \A x \in Seq(Char) : Len(x) = n /\ Inner(x) => TrimKeeps(x)}
<1>1. 0 \in K
  <2> SUFFICES ASSUME NEW x \in Seq(Char), Len(x) = 0 PROVE TrimKeeps(x)
    OBVIOUS
  <2>1. Trimmed(x)
    BY DEF Trimmed
  <2> QED BY <2>1, TrimOfTrimmed DEF TrimKeeps
<1>2. ASSUME NEW n \in Nat, n \in K PROVE n + 1 \in K
  <2> SUFFICES ASSUME NEW x \in Seq(Char), Len(x) = n + 1, Inner(x) PROVE TrimKeeps(x)
    OBVIOUS
  <2>1. ASSUME NEW y \in Seq(Char), Len(y) = n, NEW m \in Nat,
               \A i \in 1 .. n : m + i \in 1 .. Len(x) /\ y[i] = x[m + i]
        PROVE  TrimKeeps(y)
    <3>1. Inner(y)
      BY <2>1 DEF Inner
    <3> QED BY <1>2, <2>1, <3>1
  <2> HIDE DEF K
  <2>2. x # <<>> /\ 1 \in 1 .. Len(x) /\ n + 1 \in 1 .. Len(x)
    OBVIOUS
  <2>3. CASE Trimmed(x)
    BY <2>3, TrimOfTrimmed DEF TrimKeeps
  <2>4. CASE x[1] \in Whitespace
    <3> DEFINE y == From(x, 1)
               e == <<>>
    <3>1. x[1] = Space
      BY <2>2, <2>4, InnerSpace
    <3>2. y \in Seq(Char) /\ Len(y) = Len(x) - 1 /\ (\A i \in 1 .. Len(x) - 1 : y[i] = x[1 + i])
          /\ x = Cut(e, Space, y)
      BY <2>2, <3>1, FirstOff
    <3> HIDE DEF y
    <3>3. Len(y) = n /\ \A i \in 1 .. n : 1 + i \in 1 .. Len(x) /\ y[i] = x[1 + i]
      BY <3>2
    <3>4. TrimKeeps(y)
      BY <2>1, <3>2, <3>3
    <3>5. trim(x) = trim(y)
      BY <2>4, <3>2, <3>3, TrimFirstOff
    <3>6. ParamsIn(x) = ParamsIn(y)
      <4>1. e \in Seq(Char) /\ Lacks(e, Space) /\ e = <<>>
        BY DEF Lacks
      <4> HIDE DEF e
      <4>2. ParamsIn(x) = <<>> \o ParamsIn(y)
        BY <3>2, <4>1, ParamsOfCut
      <4>3. ParamsIn(y) \in Seq(Seq(Char))
        BY <3>2, ParamsTyped
      <4> QED BY <4>2, <4>3
    <3> QED BY <3>4, <3>5, <3>6 DEF TrimKeeps
  <2>5. CASE x[n + 1] \in Whitespace
    <3> DEFINE y == SubSeq(x, 1, n)
    <3>1. x[n + 1] = Space
      BY <2>2, <2>5, InnerSpace
    <3>2. y \in Seq(Char) /\ Len(y) = n /\ (\A i \in 1 .. n : y[i] = x[i]) /\ x = Append(y, Space)
      BY <2>2, <3>1, LastOff
    <3> HIDE DEF y
    <3>3. \A i \in 1 .. n : 0 + i \in 1 .. Len(x) /\ y[i] = x[0 + i]
      BY <3>2
    <3>4. TrimKeeps(y)
      BY <2>1, <3>2, <3>3
    <3>5. trim(x) = trim(y)
      BY <2>5, <3>2, TrimLastOff
    <3>6. ParamsIn(x) = ParamsIn(y)
      BY <3>2, ParamsThenSpace
    <3> QED BY <3>4, <3>5, <3>6 DEF TrimKeeps
  <2> QED BY <2>3, <2>4, <2>5 DEF Trimmed
<1>3. v \in Seq(Char) /\ Len(v) \in Nat
  BY DEF Inner
<1>4. Len(v) \in K
  <2> HIDE DEF K
  <2> QED BY <1>1, <1>2, <1>3, SetInduction
<1> QED BY <1>3, <1>4 DEF TrimKeeps

LEMMA TrimInner ==
    ASSUME NEW v, Inner(v)
    PROVE  Inner(trim(v)) /\ Trimmed(trim(v)) /\ trim(v) \in Seq(Char) /\ v \in Seq(Char)
<1> DEFINE t == trim(v)
<1>1. v \in Seq(Char) /\ \A i \in 1 .. Len(v) : v[i] \notin {"NUL", "CR", "LF"}
  BY DEF Inner
<1>2. t \in Seq(Char)
  BY <1>1, TrimFacts
<1>3. PICK a \in Nat : Trims(v, a, t)
  BY <1>1, TrimFacts
<1> HIDE DEF t
<1>4. Trimmed(t) /\ a + Len(t) <= Len(v) /\ \A i \in 1 .. Len(t) : t[i] = v[a + i]
  BY <1>3 DEF Trims
<1>5. ASSUME NEW i \in 1 .. Len(t) PROVE t[i] \notin {"NUL", "CR", "LF"}
  <2>1. a + i \in 1 .. Len(v)
    BY <1>1, <1>2, <1>4
  <2> QED BY <1>1, <1>4, <2>1
<1>6. Inner(t)
  BY <1>2, <1>5 DEF Inner
<1> QED BY <1>1, <1>2, <1>4, <1>6 DEF t

\* A part of a line without spaces is a word.
LEMMA InnerWord ==
    ASSUME NEW u, Inner(u), Lacks(u, Space), u # <<>>
    PROVE  Word(u) /\ u \in Seq(Char)
<1>1. u \in Seq(Char) /\ Lacks(u, "NUL") /\ Len(u) \in Nat /\ 1 \in 1 .. Len(u) /\ Len(u) \in 1 .. Len(u)
  BY DEF Inner, Lacks
<1>2. \A i \in 1 .. Len(u) : u[i] \notin Whitespace
  BY InnerSpace DEF Lacks
<1> QED BY <1>1, <1>2 DEF Word, Trimmed

\* One turn of the loop takes the first parameter.
Takes1(b, q, p, r) ==
    /\ next_param([rest |-> b, params |-> q]) = [rest |-> r, params |-> Append(q, p)]
    /\ ParamsIn(b) = <<p>> \o ParamsIn(r) /\ p \in Seq(Char) /\ Inner(r) /\ Trimmed(r)

LEMMA NoParams == ParamsIn(<<>>) = <<>> /\ Inner(<<>>) /\ Trimmed(<<>>)
<1> DEFINE e == <<>>
<1>1. e \in Seq(Char) /\ Lacks(e, Space) /\ Inner(e) /\ Trimmed(e) /\ e = <<>>
  BY DEF Lacks, Inner, Trimmed
<1> HIDE DEF e
<1>2. ParamsIn(e) = <<>>
  BY <1>1, ParamsOfOne
<1> QED BY <1>1, <1>2

LEMMA TurnTakes ==
    ASSUME NEW b, Inner(b), Trimmed(b), b # <<>>, NEW q
    PROVE  \E p, r : Takes1(b, q, p, r)
<1>1. b \in Seq(Char) /\ (\A i \in 1 .. Len(b) : b[i] \notin {"NUL", "CR", "LF"}) /\ b[1] \notin Whitespace
      /\ Len(b) \in Nat /\ 1 \in 1 .. Len(b)
  BY DEF Inner, Trimmed
<1>2. CASE b[1] = ":"
  <2> DEFINE st == [rest |-> b, params |-> q]
             p  == Tail(b)
             e  == <<>>
  <2>1. ParamsIn(b) = <<p>> /\ p \in Seq(Char)
    BY <1>1, <1>2, ParamsOfColon
  <2>2. starts_with(b, ":")
    BY <1>2 DEF starts_with
  <2>3. st.rest = b /\ st.params = q
    OBVIOUS
  <2> HIDE DEF st
  <2>4. next_param(st) = [rest |-> <<>>, params |-> Append(q, Tail(b))]
    BY <2>2, <2>3, Zenon DEF next_param
  <2>5. ParamsIn(e) = <<>> /\ Inner(e) /\ Trimmed(e)
    BY NoParams
  <2> HIDE DEF p
  <2>6. <<p>> \o <<>> = <<p>>
    BY <2>1
  <2>7. next_param(st) = [rest |-> e, params |-> Append(q, p)]
    BY <2>4 DEF p
  <2> HIDE DEF e
  <2>8. Takes1(b, q, p, e)
    BY <2>1, <2>5, <2>6, <2>7 DEF Takes1, st
  <2> QED BY <2>8
<1>3. CASE b[1] # ":" /\ Lacks(b, Space)
  <2> DEFINE e == <<>>
  <2>1. Word(b)
    BY <1>3, InnerWord
  <2>2. ~starts_with(b, ":")
    BY <1>3 DEF starts_with
  <2>3. ParamsIn(b) = <<b>>
    BY <1>1, <1>3, ParamsOfOne
  <2>4. ParamsIn(e) = <<>> /\ Inner(e) /\ Trimmed(e) /\ e \in Seq(Char)
    BY NoParams
  <2>5. next_param([rest |-> b, params |-> q]) = [rest |-> e, params |-> Append(q, b)]
    BY <2>1, <2>2, <2>4, FirstParam
  <2>6. <<b>> \o <<>> = <<b>>
    BY <1>1
  <2> HIDE DEF e
  <2>7. Takes1(b, q, b, e)
    BY <1>1, <2>3, <2>4, <2>5, <2>6 DEF Takes1
  <2> QED BY <2>7
<1>4. CASE b[1] # ":" /\ ~Lacks(b, Space)
  <2>1. PICK u \in Seq(Char), v \in Seq(Char) : Lacks(u, Space) /\ b = Cut(u, Space, v)
    BY <1>1, <1>4, CutOrWhole
  <2>2. IsCut(b, u, Space, v)
    BY <2>1, SpaceIsChar, CutIsCut
  <2>3. /\ Len(b) = Len(u) + 1 + Len(v) /\ b[Len(u) + 1] = Space /\ Len(u) \in Nat /\ Len(v) \in Nat
        /\ (\A i \in 1 .. Len(u) : b[i] = u[i]) /\ \A i \in 1 .. Len(v) : b[Len(u) + 1 + i] = v[i]
    BY <2>2 DEF IsCut
  <2>4. u # <<>>
    <3>1. u = <<>> => b[1] = Space
      BY <2>3
    <3> QED BY <1>1, <3>1 DEF Whitespace
  <2>5. Inner(u)
    <3>1. \A i \in 1 .. Len(u) : i \in 1 .. Len(b)
      BY <2>3
    <3> QED BY <1>1, <2>3, <3>1 DEF Inner
  <2>6. Inner(v)
    <3>1. \A i \in 1 .. Len(v) : Len(u) + 1 + i \in 1 .. Len(b)
      BY <2>3
    <3> QED BY <1>1, <2>3, <3>1 DEF Inner
  <2>7. Word(u)
    BY <2>1, <2>4, <2>5, InnerWord
  <2>8. u[1] # ":" /\ ~starts_with(u, ":")
    <3>1. 1 \in 1 .. Len(u)
      BY <2>3, <2>4
    <3> QED BY <1>4, <2>3, <3>1 DEF starts_with
  <2> DEFINE r == trim(v)
  <2>9. next_param([rest |-> b, params |-> q]) = [rest |-> r, params |-> Append(q, u)]
    <3>1. next_param([rest |-> Cut(u, Space, v), params |-> q]) = [rest |-> trim(v), params |-> Append(q, u)]
      BY <2>7, <2>8, FirstParam
    <3> QED BY <2>1, <3>1
  <2>10. ParamsIn(b) = <<u>> \o ParamsIn(v)
    BY <2>1, <2>4, <2>8, ParamsOfCut
  <2>11. ParamsIn(r) = ParamsIn(v) /\ Inner(r) /\ Trimmed(r)
    BY <2>6, ParamsTrimmed, TrimInner
  <2> HIDE DEF r
  <2>12. Takes1(b, q, u, r)
    BY <2>9, <2>10, <2>11 DEF Takes1
  <2> QED BY <2>12
<1> QED BY <1>2, <1>3, <1>4

\* Where the loop over the parameters of b is after k turns.
LoopAt(b, k, st) ==
    \E r : \E q \in Seq(Seq(Char)) :
        /\ st = [rest |-> r, params |-> q] /\ Inner(r) /\ Trimmed(r)
        /\ ParamsIn(b) = q \o ParamsIn(r)
        /\ IF r = <<>> THEN Len(q) <= k ELSE Len(q) = k

LEMMA LoopTurns ==
    ASSUME NEW b, NEW k \in Nat, NEW st, LoopAt(b, k, st)
    PROVE  LoopAt(b, k + 1, next_param(st))
<1>1. PICK r : \E q \in Seq(Seq(Char)) :
        /\ st = [rest |-> r, params |-> q] /\ Inner(r) /\ Trimmed(r)
        /\ ParamsIn(b) = q \o ParamsIn(r)
        /\ IF r = <<>> THEN Len(q) <= k ELSE Len(q) = k
  BY DEF LoopAt
<1>2. PICK q \in Seq(Seq(Char)) :
        /\ st = [rest |-> r, params |-> q] /\ Inner(r) /\ Trimmed(r)
        /\ ParamsIn(b) = q \o ParamsIn(r)
        /\ IF r = <<>> THEN Len(q) <= k ELSE Len(q) = k
  BY <1>1
<1>3. st.rest = r /\ st.params = q
  BY <1>2
<1>4. CASE r = <<>>
  <2>1. next_param(st) = st
    BY <1>3, <1>4, Zenon DEF next_param
  <2>2. Len(q) <= k + 1
    BY <1>2, <1>4
  <2> QED BY <1>2, <1>4, <2>1, <2>2 DEF LoopAt
<1>5. CASE r # <<>>
  <2>1. PICK p, t : Takes1(r, q, p, t)
    BY <1>2, <1>5, TurnTakes
  <2>2. /\ next_param(st) = [rest |-> t, params |-> Append(q, p)]
        /\ ParamsIn(r) = <<p>> \o ParamsIn(t) /\ p \in Seq(Char) /\ Inner(t) /\ Trimmed(t)
    BY <1>2, <2>1 DEF Takes1
  <2> DEFINE P == Append(q, p)
             R == ParamsIn(t)
  <2>3. P \in Seq(Seq(Char)) /\ Len(P) = k + 1
    BY <1>2, <1>5, <2>2
  <2>4. ParamsIn(b) = P \o R
    <3> DEFINE S == Seq(Char)
    <3>1. R \in Seq(S) /\ q \in Seq(S) /\ p \in S
      BY <2>2, ParamsTyped DEF Inner
    <3> HIDE DEF R, S, P
    <3>2. q \o (<<p>> \o R) = Append(q, p) \o R
      BY <3>1
    <3> QED BY <1>2, <2>2, <3>2 DEF P, R
  <2> HIDE DEF P
  <2>5. IF t = <<>> THEN Len(P) <= k + 1 ELSE Len(P) = k + 1
    BY <2>3
  <2>6. next_param(st) = [rest |-> t, params |-> P]
    BY <2>2 DEF P
  <2> QED BY <2>2, <2>3, <2>4, <2>5, <2>6 DEF LoopAt
<1> QED BY <1>4, <1>5

\* The parameters that are read are the first ones.
Firsts(all) == SubSeq(all, 1, Min({ParamsLength, Len(all)}))

LEMMA FirstsFacts ==
    ASSUME NEW S, NEW q \in Seq(S), NEW x \in Seq(S), Len(q) <= ParamsLength,
           x = <<>> \/ Len(q) = ParamsLength
    PROVE  Firsts(q \o x) = q
<1> DEFINE all == q \o x
           N == ParamsLength
           m == Min({N, Len(all)})
<1>1. all \in Seq(S) /\ Len(all) = Len(q) + Len(x) /\ (\A i \in 1 .. Len(q) : all[i] = q[i])
      /\ Len(q) \in Nat /\ Len(x) \in Nat /\ N \in Nat
  BY ParamsAssumption
<1>2. x = <<>> => Len(x) = 0
  OBVIOUS
<1> HIDE DEF all
<1>3. Len(q) \in {N, Len(all)} /\ \A y \in {N, Len(all)} : Len(q) <= y
  BY <1>1, <1>2
<1>4. m = Len(q)
  <2> DEFINE T == {N, Len(all)}
  <2>1. T \in SUBSET Nat
    BY <1>1
  <2>2. Len(q) \in T /\ \A y \in T : Len(q) <= y
    BY <1>3
  <2> HIDE DEF T
  <2>3. Min(T) = Len(q)
    BY <2>1, <2>2, MinIs
  <2> QED BY <2>3 DEF T
<1> HIDE DEF m
<1>5. SubSeq(all, 1, m) = q
  <2> DEFINE t == SubSeq(all, 1, m)
  <2>1. t \in Seq(S) /\ Len(t) = m /\ \A i \in 1 .. m : t[i] = all[i]
    BY <1>1, <1>4
  <2> HIDE DEF t
  <2>2. Len(t) = Len(q) /\ \A i \in 1 .. Len(t) : t[i] = q[i]
    BY <1>1, <1>4, <2>1
  <2>3. t = q
    BY <2>1, <2>2, SeqEqual
  <2> QED BY <2>3 DEF t
<1> QED BY <1>5 DEF Firsts, all, m

THEOREM ParamsAreWords ==
    ASSUME NEW b, Inner(b), Trimmed(b)
    PROVE  parse_params(b) = Firsts(ParamsIn(b))
<1> DEFINE N == ParamsLength
<1>1. PICK f : ParamsLoop(f, b, N) /\ parse_params(b) = f[N].params
  BY ParamsAre
<1> DEFINE K == {k \in Nat : k <= N => LoopAt(b, k, f[k])}
<1>2. 0 \in K
  <2> DEFINE e == <<>>
  <2>1. f[0] = [rest |-> b, params |-> e]
    BY <1>1 DEF ParamsLoop
  <2>2. e \in Seq(Seq(Char)) /\ Len(e) = 0 /\ e = <<>>
    OBVIOUS
  <2>3. e \o ParamsIn(b) = ParamsIn(b)
    <3>1. ParamsIn(b) \in Seq(Seq(Char))
      BY ParamsTyped DEF Inner
    <3> QED BY <3>1
  <2> HIDE DEF e
  <2>4. LoopAt(b, 0, f[0])
    <3>1. IF b = <<>> THEN Len(e) <= 0 ELSE Len(e) = 0
      BY <2>2
    <3> QED BY <2>1, <2>2, <2>3, <3>1 DEF LoopAt
  <2> QED BY <2>4
<1>3. ASSUME NEW k \in Nat, k \in K PROVE k + 1 \in K
  <2> SUFFICES ASSUME k + 1 <= N PROVE LoopAt(b, k + 1, f[k + 1])
    OBVIOUS
  <2>1. LoopAt(b, k, f[k])
    BY <1>3, ParamsAssumption
  <2>2. f[k + 1] = next_param(f[k])
    <3>1. k + 1 \in 1 .. N /\ (k + 1) - 1 = k
      BY ParamsAssumption
    <3>2. \A j \in 1 .. N : f[j] = next_param(f[j - 1])
      BY <1>1 DEF ParamsLoop
    <3>3. f[k + 1] = next_param(f[(k + 1) - 1])
      BY <3>1, <3>2
    <3> QED BY <3>1, <3>3
  <2>3. LoopAt(b, k + 1, next_param(f[k]))
    BY <2>1, LoopTurns
  <2> QED BY <2>2, <2>3
<1>4. N \in Nat /\ N <= N
  BY ParamsAssumption
<1>5. LoopAt(b, N, f[N])
  <2>1. N \in K
    <3> HIDE DEF K, N
    <3> QED BY <1>2, <1>3, <1>4, SetInduction
  <2> QED BY <1>4, <2>1
<1>6. PICK r : \E q \in Seq(Seq(Char)) :
        /\ f[N] = [rest |-> r, params |-> q] /\ Inner(r) /\ Trimmed(r)
        /\ ParamsIn(b) = q \o ParamsIn(r)
        /\ IF r = <<>> THEN Len(q) <= N ELSE Len(q) = N
  BY <1>5 DEF LoopAt
<1>7. PICK q \in Seq(Seq(Char)) :
        /\ f[N] = [rest |-> r, params |-> q] /\ Inner(r) /\ Trimmed(r)
        /\ ParamsIn(b) = q \o ParamsIn(r)
        /\ IF r = <<>> THEN Len(q) <= N ELSE Len(q) = N
  BY <1>6
<1>8. parse_params(b) = q
  BY <1>1, <1>7
<1> DEFINE x == ParamsIn(r)
<1>9. x \in Seq(Seq(Char)) /\ (r = <<>> => x = <<>>)
  BY <1>7, ParamsTyped, NoParams DEF Inner
<1>10. ParamsIn(b) = q \o x
  BY <1>7
<1> HIDE DEF x
<1>11. Firsts(q \o x) = q
  <2> DEFINE S == Seq(Char)
  <2>1. q \in Seq(S) /\ x \in Seq(S) /\ Len(q) <= N /\ (x = <<>> \/ Len(q) = N)
    BY <1>4, <1>7, <1>9
  <2> HIDE DEF S
  <2> QED BY <2>1, FirstsFacts
<1> QED BY <1>8, <1>10, <1>11

-----------------------------------------------------------------------------
(* The head of a line *)

\* r is u, a space and v, perhaps trimmed.
Begun(r, u, v) == r = Cut(u, Space, v) \/ r = trim(Cut(u, Space, v))

LEMMA TrimOfCut ==
    ASSUME NEW u, Word(u), NEW v \in Seq(Char), NEW t, t = trim(Cut(u, Space, v))
    PROVE  /\ t \in Seq(Char) /\ t # <<>> /\ t[1] = u[1]
           /\ parse_word(t) = [word |-> u, rest |-> trim(v)]
<1> DEFINE w == Cut(u, Space, v)
           n == Len(u)
<1>1. u \in Seq(Char) /\ u # <<>> /\ u[1] \notin Whitespace /\ u[Len(u)] \notin Whitespace
      /\ Lacks(u, Space) /\ parse_word(u) = [word |-> u, rest |-> <<>>]
  BY WordIs DEF Word
<1>2. IsCut(w, u, Space, v)
  BY <1>1, SpaceIsChar, CutIsCut
<1>3. w \in Seq(Char)
  BY <1>1, SpaceIsChar, CutFacts
<1>4. t \in Seq(Char)
  <2> HIDE DEF w
  <2> QED BY <1>3, TrimFacts DEF w
<1>5. PICK a \in Nat : Trims(w, a, t)
  <2> HIDE DEF w
  <2> QED BY <1>3, TrimFacts DEF w
<1> HIDE DEF w
<1>6. n \in Nat \ {0} /\ 1 \in 1 .. n /\ n \in 1 .. n /\ Len(v) \in Nat /\ n = Len(u)
  BY <1>1
<1> HIDE DEF n
<1>7. /\ w \in Seq(Char) /\ Len(w) = n + 1 + Len(v) /\ w[n + 1] = Space
      /\ (\A i \in 1 .. n : w[i] = u[i]) /\ \A i \in 1 .. Len(v) : w[n + 1 + i] = v[i]
  BY <1>2, <1>6 DEF IsCut
<1>8. /\ Trimmed(t) /\ a + Len(t) <= Len(w) /\ (\A i \in 1 .. Len(t) : t[i] = w[a + i])
      /\ \A i \in 1 .. Len(w) : i <= a \/ a + Len(t) < i => w[i] \in Whitespace
  BY <1>5 DEF Trims
<1>9. w[1] \notin Whitespace /\ w[n] \notin Whitespace /\ 1 \in 1 .. Len(w) /\ n \in 1 .. Len(w)
  BY <1>1, <1>6, <1>7
<1>10. a = 0 /\ n <= Len(t)
  <2>1. ~(1 <= a) /\ ~(a + Len(t) < n)
    BY <1>8, <1>9
  <2> QED BY <1>4, <1>6, <2>1
<1>11. Len(t) <= Len(w) /\ (\A i \in 1 .. Len(t) : t[i] = w[i])
       /\ \A i \in 1 .. Len(w) : Len(t) < i => w[i] \in Whitespace
  <2>1. 0 + Len(t) = Len(t) /\ \A i \in 1 .. Len(t) : 0 + i = i
    BY <1>4
  <2> QED BY <1>8, <1>10, <2>1
<1>12. t # <<>> /\ t[1] = u[1]
  BY <1>4, <1>6, <1>7, <1>10, <1>11
<1>13. CASE Len(t) = n
  <2>1. t = u
    <3>1. \A i \in 1 .. Len(t) : t[i] = u[i]
      BY <1>7, <1>11, <1>13
    <3> QED BY <1>1, <1>4, <1>6, <1>13, <3>1, SeqEqual
  <2>2. trim(v) = <<>>
    <3> DEFINE e == <<>>
    <3>1. e \in Seq(Char) /\ Len(e) = 0 /\ Trimmed(e)
      BY DEF Trimmed
    <3> HIDE DEF e
    <3>2. ASSUME NEW i \in 1 .. Len(v) PROVE v[i] \in Whitespace
      <4>1. n + 1 + i \in 1 .. Len(w) /\ Len(t) < n + 1 + i
        BY <1>6, <1>7, <1>13
      <4> QED BY <1>7, <1>11, <4>1
    <3>3. Trims(v, 0, e)
      BY <1>6, <3>1, <3>2 DEF Trims
    <3>4. trim(v) = e
      <4>1. \A a0 \in Nat : Trims(v, a0, e) => trim(v) = e
        BY <3>1, TrimIs
      <4> QED BY <3>3, <4>1
    <3> QED BY <3>4 DEF e
  <2> QED BY <1>1, <1>4, <1>12, <2>1, <2>2
<1>14. CASE n < Len(t)
  <2> DEFINE x == From(t, n + 1)
             y == Cut(u, Space, x)
             k == n + 1
  <2>1. k \in 0 .. Len(t) /\ k \in Nat /\ k = n + 1 /\ Len(t) \in Nat
    BY <1>4, <1>6, <1>14
  <2>2. x \in Seq(Char) /\ Len(x) = Len(t) - k /\ \A i \in 1 .. Len(t) - k : x[i] = t[k + i]
    BY <1>4, <2>1, FromFacts
  <2> HIDE DEF x
  <2>3. IsCut(y, u, Space, x)
    BY <1>1, <2>2, SpaceIsChar, CutIsCut
  <2> HIDE DEF y, k
  <2>4. /\ y \in Seq(Char) /\ Len(y) = k + Len(x) /\ y[k] = Space
        /\ (\A i \in 1 .. n : y[i] = u[i]) /\ \A i \in 1 .. Len(x) : y[k + i] = x[i]
    BY <1>6, <2>1, <2>3 DEF IsCut
  <2>5. t = y
    <3>1. Len(y) = Len(t)
      BY <2>1, <2>2, <2>4
    <3>2. \A i \in 1 .. Len(t) : t[i] = y[i]
      <4> TAKE i \in 1 .. Len(t)
      <4>1. CASE i <= n
        <5>1. i \in 1 .. n
          BY <1>6, <4>1
        <5> QED BY <1>7, <1>11, <2>4, <5>1
      <4>2. CASE i = k
        BY <1>7, <1>11, <2>1, <2>4, <4>2
      <4>3. CASE ~(i <= n) /\ i # k
        <5> DEFINE j == i - k
        <5>1. j \in 1 .. Len(t) - k /\ i = k + j
          BY <1>6, <2>1, <4>3
        <5> HIDE DEF j
        <5> QED BY <2>2, <2>4, <5>1
      <4> QED BY <4>1, <4>2, <4>3
    <3> QED BY <1>4, <2>4, <3>1, <3>2, SeqEqual
  <2>6. trim(v) = trim(x)
    <3> DEFINE r == trim(x)
    <3>1. r \in Seq(Char)
      BY <2>2, TrimFacts
    <3>2. PICK b \in Nat : Trims(x, b, r)
      BY <2>2, TrimFacts
    <3> HIDE DEF r
    <3>3. Trimmed(r) /\ b + Len(r) <= Len(x) /\ (\A i \in 1 .. Len(r) : r[i] = x[b + i])
          /\ \A i \in 1 .. Len(x) : i <= b \/ b + Len(r) < i => x[i] \in Whitespace
      BY <3>2 DEF Trims
    <3>4. Len(x) <= Len(v)
      BY <1>6, <1>7, <1>11, <2>1, <2>2
    <3>5. ASSUME NEW i \in 1 .. Len(x) PROVE i \in 1 .. Len(v) /\ x[i] = v[i]
      <4>1. i \in 1 .. Len(v) /\ k + i \in 1 .. Len(t) /\ i \in 1 .. Len(t) - k
        BY <1>6, <2>1, <2>2, <3>4
      <4>2. v[i] = w[k + i]
        BY <1>7, <2>1, <4>1
      <4> QED BY <1>11, <2>2, <4>1, <4>2
    <3>6. ASSUME NEW i \in 1 .. Len(v), Len(x) < i PROVE v[i] \in Whitespace
      <4>1. k + i \in 1 .. Len(w) /\ Len(t) < k + i
        BY <1>6, <1>7, <2>1, <2>2, <3>6
      <4>2. v[i] = w[k + i]
        BY <1>7, <2>1
      <4> QED BY <1>11, <4>1, <4>2
    <3>7. Trims(v, b, r)
      <4>1. b + Len(r) <= Len(v)
        BY <2>2, <3>1, <3>3, <3>4, <1>6
      <4>2. ASSUME NEW i \in 1 .. Len(r) PROVE r[i] = v[b + i]
        <5>1. b + i \in 1 .. Len(x)
          BY <2>2, <3>1, <3>3
        <5> QED BY <3>3, <3>5, <5>1
      <4>3. ASSUME NEW i \in 1 .. Len(v), i <= b \/ b + Len(r) < i PROVE v[i] \in Whitespace
        <5>1. Len(x) < i \/ i \in 1 .. Len(x)
          BY <2>2
        <5> QED BY <3>3, <3>5, <3>6, <4>3, <5>1
      <4> QED BY <3>3, <4>1, <4>2, <4>3 DEF Trims
    <3>8. trim(v) = r
      BY <3>1, <3>7, TrimIs
    <3> QED BY <3>8 DEF r
  <2>7. parse_word(y) = [word |-> u, rest |-> trim(x)]
    BY <2>2, WordIs DEF y
  <2> QED BY <1>4, <1>12, <2>5, <2>6, <2>7
<1>15. Len(t) = n \/ n < Len(t)
  BY <1>4, <1>6, <1>10
<1> QED BY <1>13, <1>14, <1>15

LEMMA BegunFacts ==
    ASSUME NEW u, Word(u), NEW v \in Seq(Char), NEW r, Begun(r, u, v)
    PROVE  /\ r \in Seq(Char) /\ r # <<>> /\ r[1] = u[1] /\ r[1] \notin Whitespace
           /\ parse_word(r) = [word |-> u, rest |-> trim(v)]
<1> DEFINE w == Cut(u, Space, v)
<1>1. u \in Seq(Char) /\ u # <<>> /\ u[1] \notin Whitespace
      /\ parse_word(w) = [word |-> u, rest |-> trim(v)]
  BY WordIs
<1>2. CASE r = w
  <2>1. IsCut(w, u, Space, v)
    BY <1>1, SpaceIsChar, CutIsCut
  <2> HIDE DEF w
  <2>2. Len(u) \in Nat \ {0} /\ Len(v) \in Nat /\ 1 \in 1 .. Len(u)
    BY <1>1
  <2>3. w \in Seq(Char) /\ Len(w) = Len(u) + 1 + Len(v) /\ w[1] = u[1]
    BY <2>1, <2>2 DEF IsCut
  <2>4. w # <<>>
    BY <2>2, <2>3
  <2> QED BY <1>1, <1>2, <2>3, <2>4
<1>3. CASE r = trim(w)
  BY <1>1, <1>3, TrimOfCut
<1> QED BY <1>2, <1>3 DEF Begun

\* Where there are no tags, or no prefix.
LEMMA NoTags ==
    ASSUME NEW s, s[1] # "@"
    PROVE  parse_tags(s) = [word |-> <<>>, rest |-> s]
<1>1. ~starts_with(s, "@")
  BY DEF starts_with
<1> QED BY <1>1, Zenon DEF parse_tags

LEMMA NoPrefix ==
    ASSUME NEW s \in Seq(Char), s # <<>>, s[1] \notin Whitespace, s[1] # ":"
    PROVE  parse_prefix(s) = [word |-> <<>>, rest |-> s]
<1>1. ~starts_with(s, ":")
  BY DEF starts_with
<1>2. trim_start(s) = s
  BY TrimmedStart
<1> QED BY <1>1, <1>2, Zenon DEF parse_prefix

LEMMA TagsBegun ==
    ASSUME NEW u, Word(u), u[1] = "@", NEW v \in Seq(Char), NEW s, Begun(s, u, v)
    PROVE  parse_tags(s) = [word |-> Tail(u), rest |-> trim(v)]
<1>1. s # <<>> /\ s[1] = "@" /\ parse_word(s) = [word |-> u, rest |-> trim(v)]
  BY BegunFacts
<1>2. starts_with(s, "@")
  BY <1>1 DEF starts_with
<1>3. parse_tags(s) = [parse_word(s) EXCEPT !.word = Tail(@)]
  BY <1>2, Zenon DEF parse_tags
<1> QED BY <1>1, <1>3, TailWord

LEMMA PrefixBegun ==
    ASSUME NEW u, Word(u), u[1] = ":", NEW v \in Seq(Char), NEW s, Begun(s, u, v)
    PROVE  parse_prefix(s) = [word |-> <<Tail(u)>>, rest |-> trim(v)]
<1>1. s # <<>> /\ s[1] = ":" /\ parse_word(s) = [word |-> u, rest |-> trim(v)]
  BY BegunFacts
<1>2. starts_with(s, ":")
  BY <1>1 DEF starts_with
<1>3. parse_prefix(s) = [parse_word(s) EXCEPT !.word = <<Tail(@)>>]
  BY <1>2, Zenon DEF parse_prefix
<1> QED BY <1>1, <1>3, TailWord

\* What reading a line from its command on returns.
LEMMA FromCommand ==
    ASSUME NEW c, Word(c), c[1] \notin {"@", ":"}, NEW z \in Seq(Char), NEW r, Begun(r, c, z)
    PROVE  /\ parse_tags(r) = [word |-> <<>>, rest |-> r]
           /\ parse_prefix(r) = [word |-> <<>>, rest |-> r]
           /\ parse_word(r) = [word |-> c, rest |-> trim(z)] /\ c # <<>>
<1>1. /\ r \in Seq(Char) /\ r # <<>> /\ r[1] = c[1] /\ r[1] \notin Whitespace
      /\ parse_word(r) = [word |-> c, rest |-> trim(z)]
  BY BegunFacts
<1>2. c # <<>>
  BY DEF Word
<1> QED BY <1>1, <1>2, NoTags, NoPrefix

\* The parameters of a line are those of what follows its head, whichever head it has.
LEMMA ReadOf ==
    ASSUME NEW s \in Seq(Char), s # <<>>, s[1] \notin Whitespace, Lacks(s, "NUL"),
           NEW a, NEW r, parse_tags(s) = [word |-> a, rest |-> r],
           NEW b, NEW p, parse_prefix(r) = [word |-> b, rest |-> p],
           NEW c, NEW q, parse_word(p) = [word |-> c, rest |-> q], c # <<>>
    PROVE  parse(s).params = parse_params(q)
<1> DEFINE P == parse_params(q)
<1>1. parse(s) = [tags |-> a, prefix |-> b, command |-> c, params |-> P]
  BY ParseParts
<1> HIDE DEF P
<1>2. parse(s).params = P
  BY <1>1, MessageParts
<1> QED BY <1>2 DEF P

LEMMA ReadCommand ==
    ASSUME NEW c, Word(c), c[1] \notin {"@", ":"}, NEW z \in Seq(Char),
           NEW s, s = Cut(c, Space, z), Lacks(s, "NUL")
    PROVE  parse(s).params = parse_params(trim(z))
<1>1. Begun(s, c, z)
  BY DEF Begun
<1>2. s \in Seq(Char) /\ s # <<>> /\ s[1] \notin Whitespace
  BY <1>1, BegunFacts
<1> DEFINE e == <<>>
<1>3. /\ parse_tags(s) = [word |-> e, rest |-> s] /\ parse_prefix(s) = [word |-> e, rest |-> s]
      /\ parse_word(s) = [word |-> c, rest |-> trim(z)] /\ c # <<>>
  BY <1>1, FromCommand
<1> HIDE DEF e
<1> QED BY <1>2, <1>3, ReadOf

LEMMA ReadTagsCommand ==
    ASSUME NEW u, Word(u), u[1] = "@", NEW c, Word(c), c[1] \notin {"@", ":"}, NEW z \in Seq(Char),
           NEW s, s = Cut(u, Space, Cut(c, Space, z)), Lacks(s, "NUL")
    PROVE  parse(s).params = parse_params(trim(z))
<1> DEFINE v == Cut(c, Space, z)
           r == trim(v)
           e == <<>>
<1>1. v \in Seq(Char)
  BY SpaceIsChar, CutFacts DEF Word
<1>2. Begun(r, c, z)
  BY DEF Begun
<1> HIDE DEF v
<1>3. Begun(s, u, v)
  BY DEF Begun, v
<1>4. s \in Seq(Char) /\ s # <<>> /\ s[1] \notin Whitespace
  BY <1>1, <1>3, BegunFacts
<1>5. parse_tags(s) = [word |-> Tail(u), rest |-> r]
  BY <1>1, <1>3, TagsBegun
<1> HIDE DEF r
<1>6. /\ parse_prefix(r) = [word |-> e, rest |-> r]
      /\ parse_word(r) = [word |-> c, rest |-> trim(z)] /\ c # <<>>
  BY <1>2, FromCommand
<1> HIDE DEF e
<1> QED BY <1>4, <1>5, <1>6, ReadOf

LEMMA ReadPrefixCommand ==
    ASSUME NEW p, Word(p), p[1] = ":", NEW c, Word(c), c[1] \notin {"@", ":"}, NEW z \in Seq(Char),
           NEW s, s = Cut(p, Space, Cut(c, Space, z)), Lacks(s, "NUL")
    PROVE  parse(s).params = parse_params(trim(z))
<1> DEFINE v == Cut(c, Space, z)
           r == trim(v)
           e == <<>>
<1>1. v \in Seq(Char)
  BY SpaceIsChar, CutFacts DEF Word
<1>2. Begun(r, c, z)
  BY DEF Begun
<1> HIDE DEF v
<1>3. Begun(s, p, v)
  BY DEF Begun, v
<1>4. s \in Seq(Char) /\ s # <<>> /\ s[1] = ":" /\ s[1] \notin Whitespace
  BY <1>1, <1>3, BegunFacts
<1>5. parse_tags(s) = [word |-> e, rest |-> s]
  BY <1>4, NoTags
<1>6. parse_prefix(s) = [word |-> <<Tail(p)>>, rest |-> r]
  BY <1>1, <1>3, PrefixBegun
<1> HIDE DEF r
<1>7. parse_word(r) = [word |-> c, rest |-> trim(z)] /\ c # <<>>
  BY <1>2, FromCommand
<1> HIDE DEF e
<1> QED BY <1>4, <1>5, <1>6, <1>7, ReadOf

LEMMA ReadTagsPrefixCommand ==
    ASSUME NEW u, Word(u), u[1] = "@", NEW p, Word(p), p[1] = ":", NEW c, Word(c),
           c[1] \notin {"@", ":"}, NEW z \in Seq(Char),
           NEW s, s = Cut(u, Space, Cut(p, Space, Cut(c, Space, z))), Lacks(s, "NUL")
    PROVE  parse(s).params = parse_params(trim(z))
<1> DEFINE v == Cut(c, Space, z)
           w == Cut(p, Space, v)
           r == trim(v)
           t == trim(w)
<1>1. v \in Seq(Char)
  BY SpaceIsChar, CutFacts DEF Word
<1>2. Begun(r, c, z)
  BY DEF Begun
<1> HIDE DEF v
<1>3. w \in Seq(Char)
  BY <1>1, SpaceIsChar, CutFacts DEF Word
<1>4. Begun(t, p, v)
  BY DEF Begun
<1> HIDE DEF w
<1>5. Begun(s, u, w)
  BY DEF Begun, v, w
<1>6. s \in Seq(Char) /\ s # <<>> /\ s[1] \notin Whitespace
  BY <1>3, <1>5, BegunFacts
<1>7. parse_tags(s) = [word |-> Tail(u), rest |-> t]
  BY <1>3, <1>5, TagsBegun
<1> HIDE DEF t
<1>8. parse_prefix(t) = [word |-> <<Tail(p)>>, rest |-> r]
  BY <1>1, <1>4, PrefixBegun
<1> HIDE DEF r
<1>9. parse_word(r) = [word |-> c, rest |-> trim(z)] /\ c # <<>>
  BY <1>2, FromCommand
<1> QED BY <1>6, <1>7, <1>8, <1>9, ReadOf

-----------------------------------------------------------------------------
(* Lines that begin with a head *)

LEMMA InnerOfCut ==
    ASSUME NEW u \in Seq(Char), NEW v \in Seq(Char), NEW b, b = Cut(u, Space, v), Inner(b)
    PROVE  Inner(u) /\ Inner(v)
<1>1. IsCut(b, u, Space, v)
  BY SpaceIsChar, CutIsCut
<1>2. /\ Len(b) = Len(u) + 1 + Len(v) /\ Len(u) \in Nat /\ Len(v) \in Nat
      /\ (\A i \in 1 .. Len(u) : b[i] = u[i]) /\ \A i \in 1 .. Len(v) : b[Len(u) + 1 + i] = v[i]
  <2>1. /\ Len(b) = Len(u) + 1 + Len(v)
        /\ (\A i \in 1 .. Len(u) : b[i] = u[i]) /\ \A i \in 1 .. Len(v) : b[Len(u) + 1 + i] = v[i]
    BY <1>1, Zenon DEF IsCut
  <2>2. Len(u) \in Nat /\ Len(v) \in Nat
    OBVIOUS
  <2> QED BY <2>1, <2>2
<1>3. \A i \in 1 .. Len(b) : b[i] \notin {"NUL", "CR", "LF"}
  BY DEF Inner
<1>4. Inner(u)
  <2>1. \A i \in 1 .. Len(u) : i \in 1 .. Len(b)
    BY <1>2
  <2> QED BY <1>2, <1>3, <2>1 DEF Inner
<1>5. Inner(v)
  <2>1. \A i \in 1 .. Len(v) : Len(u) + 1 + i \in 1 .. Len(b)
    BY <1>2
  <2> QED BY <1>2, <1>3, <2>1 DEF Inner
<1> QED BY <1>4, <1>5

\* The words of a text with a space are its first word and those of what follows the space.
CutWords(h, words, u, v) ==
    /\ h = Cut(u, Space, v) /\ words[1] = u /\ Lacks(u, Space)
    /\ Len(split(v, Space)) = Len(words) - 1
    /\ \A i \in 1 .. Len(words) - 1 : split(v, Space)[i] = words[i + 1]

LEMMA AfterOne ==
    ASSUME NEW S, NEW x \in Seq(S), NEW y \in Seq(S), Len(y) = 1
    PROVE  Len(y \o x) = 1 + Len(x) /\ (y \o x)[1] = y[1] /\ Len(x) \in Nat
           /\ \A i \in 1 .. Len(x) : (y \o x)[1 + i] = x[i]
<1>1. IsCat(y \o x, y, x)
  BY CatIsCat
<1>2. 1 \in 1 .. 1 /\ Len(x) \in Nat
  OBVIOUS
<1> QED BY <1>1, <1>2 DEF IsCat

LEMMA HeadCut ==
    ASSUME NEW h \in Seq(Char), NEW words, words = split(h, Space), Len(words) # 1
    PROVE  \E u \in Seq(Char) : \E v \in Seq(Char) : CutWords(h, words, u, v)
<1>1. ~Lacks(h, Space)
  <2>1. ASSUME Lacks(h, Space) PROVE FALSE
    <3>1. words = <<h>>
      BY <2>1, SplitOne
    <3> QED BY <3>1
  <2> QED BY <2>1
<1>2. PICK u \in Seq(Char), v \in Seq(Char) : Lacks(u, Space) /\ h = Cut(u, Space, v)
  BY <1>1, CutOrWhole
<1> DEFINE x == split(v, Space)
           y == <<u>>
           S == Seq(Char)
<1>3. split(h, Space) = split(u, Space) \o x /\ split(u, Space) = y
  BY <1>2, SpaceIsChar, SplitOfCut, SplitOne
<1>4. x \in Seq(S) /\ y \in Seq(S) /\ Len(y) = 1 /\ y[1] = u
  BY SplitExists
<1> HIDE DEF x, y, S
<1>5. words = y \o x
  BY <1>3
<1>6. Len(words) = 1 + Len(x) /\ words[1] = u /\ Len(x) \in Nat
      /\ \A i \in 1 .. Len(x) : words[1 + i] = x[i]
  BY <1>4, <1>5, AfterOne
<1>7. Len(x) = Len(words) - 1
  BY <1>6
<1>8. \A i \in 1 .. Len(words) - 1 : x[i] = words[i + 1]
  <2>1. \A i \in 1 .. Len(x) : 1 + i = i + 1
    BY <1>6
  <2> QED BY <1>6, <1>7, <2>1
<1>9. CutWords(h, words, u, v)
  BY <1>2, <1>6, <1>7, <1>8 DEF CutWords, x
<1> QED BY <1>9

LEMMA HeadWhole ==
    ASSUME NEW h \in Seq(Char), Len(split(h, Space)) = 1
    PROVE  Lacks(h, Space) /\ split(h, Space)[1] = h
<1> DEFINE S == Seq(Char)
<1>1. Lacks(h, Space)
  <2>1. ASSUME ~Lacks(h, Space) PROVE FALSE
    <3>1. PICK u \in Seq(Char), v \in Seq(Char) : Lacks(u, Space) /\ h = Cut(u, Space, v)
      BY <2>1, CutOrWhole
    <3> DEFINE x == split(v, Space)
               y == split(u, Space)
    <3>2. split(h, Space) = y \o x
      BY <3>1, SpaceIsChar, SplitOfCut
    <3>3. x \in Seq(S) /\ y \in Seq(S) /\ x # <<>> /\ y # <<>>
      BY SplitExists
    <3> HIDE DEF x, y, S
    <3>4. Len(y \o x) = Len(y) + Len(x) /\ Len(y) \in Nat \ {0} /\ Len(x) \in Nat \ {0}
      BY <3>3
    <3> QED BY <3>2, <3>4
  <2> QED BY <2>1
<1>2. split(h, Space) = <<h>>
  BY <1>1, SplitOne
<1> QED BY <1>1, <1>2

\* A command that a line begins with, perhaps after tags and a prefix.
Command(c) == Word(c) /\ c[1] \notin {"@", ":"}
Headed(h, c) == h = Cut(c, Space, <<>>)

LEMMA HeadIsCommand ==
    ASSUME NEW h, Inner(h), NEW words, words = split(h, Space), Len(words) = 2,
           words[2] = <<>>, words[1] # <<>>, words[1][1] \notin {"@", ":"}
    PROVE  \E c : Command(c) /\ Headed(h, c)
<1>1. h \in Seq(Char)
  BY DEF Inner
<1>2. PICK u \in Seq(Char) : \E v \in Seq(Char) : CutWords(h, words, u, v)
  BY <1>1, HeadCut
<1>3. PICK v \in Seq(Char) : CutWords(h, words, u, v)
  BY <1>2
<1>4. /\ h = Cut(u, Space, v) /\ words[1] = u /\ Lacks(u, Space)
      /\ Len(split(v, Space)) = 1 /\ split(v, Space)[1] = words[2]
  <2>1. 2 - 1 = 1 /\ 1 + 1 = 2 /\ 1 \in 1 .. 1
    OBVIOUS
  <2> QED BY <1>3, <2>1 DEF CutWords
<1>5. v = <<>>
  BY <1>4, HeadWhole
<1>6. Inner(u)
  BY <1>4, InnerOfCut
<1>7. Word(u)
  BY <1>4, <1>6, InnerWord
<1>8. Command(u) /\ Headed(h, u)
  BY <1>4, <1>5, <1>7 DEF Command, Headed
<1> QED BY <1>8

\* The first word of a head and the rest of it.
RestOf(h, words, n, u, v) ==
    /\ Word(u) /\ u = words[1] /\ Inner(v) /\ h = Cut(u, Space, v)
    /\ Len(split(v, Space)) = n + 1
    /\ \A i \in 1 .. n + 1 : split(v, Space)[i] = words[i + 1]

LEMMA HeadRest ==
    ASSUME NEW h, Inner(h), NEW words, words = split(h, Space), NEW n \in Nat, Len(words) = n + 2,
           words[1] # <<>>
    PROVE  \E u : \E v : RestOf(h, words, n, u, v)
<1>1. h \in Seq(Char)
  BY DEF Inner
<1>2. Len(words) # 1 /\ Len(words) - 1 = n + 1
  OBVIOUS
<1>3. PICK u \in Seq(Char) : \E v \in Seq(Char) : CutWords(h, words, u, v)
  BY <1>1, <1>2, HeadCut
<1>4. PICK v \in Seq(Char) : CutWords(h, words, u, v)
  BY <1>3
<1>5. /\ h = Cut(u, Space, v) /\ words[1] = u /\ Lacks(u, Space)
      /\ Len(split(v, Space)) = n + 1 /\ \A i \in 1 .. n + 1 : split(v, Space)[i] = words[i + 1]
  BY <1>2, <1>4 DEF CutWords
<1>6. Inner(u) /\ Inner(v)
  BY <1>5, InnerOfCut
<1>7. Word(u)
  BY <1>5, <1>6, InnerWord
<1>8. RestOf(h, words, n, u, v)
  BY <1>5, <1>6, <1>7 DEF RestOf
<1> QED BY <1>8

\* What a head consists of.
IsHead(h) ==
    \/ \E c : Command(c) /\ h = Cut(c, Space, <<>>)
    \/ \E u : \E c : /\ Command(c) /\ Word(u) /\ u[1] \in {"@", ":"}
                     /\ h = Cut(u, Space, Cut(c, Space, <<>>))
    \/ \E u : \E p : \E c : /\ Command(c) /\ Word(u) /\ u[1] = "@" /\ Word(p) /\ p[1] = ":"
                            /\ h = Cut(u, Space, Cut(p, Space, Cut(c, Space, <<>>)))

LEMMA HeadsAre ==
    ASSUME NEW h \in Heads
    PROVE  Inner(h) /\ IsHead(h)
<1>1. h \in Seq(Char) /\ Inner(h)
  <2>1. h \in Seq(STRING) /\ DOMAIN h = 1 .. Len(h)
    BY TextAssumption
  <2>2. Seq(STRING) \subseteq Seq(Char)
    BY SeqOfMore DEF Char
  <2> QED BY <2>1, <2>2, LineAssumption DEF Inner
<1> DEFINE words == split(h, Space)
           n == Len(words) - 1
<1>2. /\ n \in 1 .. 3 /\ words[n + 1] = <<>> /\ \A i \in 1 .. n : words[i] # <<>>
      /\ words[n][1] \notin {"@", ":"}
      /\ n = 2 => words[1][1] \in {"@", ":"}
      /\ n = 3 => words[1][1] = "@" /\ words[2][1] = ":"
  BY HeadAssumption
<1>3. Len(words) \in Nat
  <2>1. words \in Seq(Seq(Char))
    BY <1>1, SplitExists
  <2> DEFINE S == Seq(Char)
  <2> HIDE DEF words, S
  <2> QED BY <2>1 DEF S
<1>a. words = split(h, Space) /\ n = Len(words) - 1
  OBVIOUS
<1> HIDE DEF words
<1>b. Len(words) = n + 1
  BY <1>3
<1> HIDE DEF n
<1>4. CASE n = 1
  <2>1. Len(words) = 2
    BY <1>b, <1>4
  <2>2. words[2] = <<>> /\ words[1] # <<>> /\ words[1][1] \notin {"@", ":"}
    <3>1. 1 + 1 = 2 /\ 1 \in 1 .. 1
      OBVIOUS
    <3> QED BY <1>2, <1>4, <3>1
  <2>3. \E c : Command(c) /\ Headed(h, c)
    BY <1>1, <1>a, <2>1, <2>2, HeadIsCommand
  <2> QED BY <1>1, <2>3 DEF IsHead, Headed
<1>5. CASE n = 2
  <2>1. Len(words) = 1 + 2 /\ 1 \in Nat
    BY <1>b, <1>5
  <2>2. /\ words[3] = <<>> /\ words[1] # <<>> /\ words[2] # <<>>
        /\ words[2][1] \notin {"@", ":"} /\ words[1][1] \in {"@", ":"}
    <3>1. 2 + 1 = 3 /\ 1 \in 1 .. 2 /\ 2 \in 1 .. 2
      OBVIOUS
    <3> QED BY <1>2, <1>5, <3>1
  <2>3. PICK u : \E v : RestOf(h, words, 1, u, v)
    BY <1>1, <1>a, <2>1, <2>2, HeadRest
  <2>4. PICK v : RestOf(h, words, 1, u, v)
    BY <2>3
  <2>5. /\ Word(u) /\ u = words[1] /\ Inner(v) /\ h = Cut(u, Space, v)
        /\ Len(split(v, Space)) = 2
        /\ split(v, Space)[1] = words[2] /\ split(v, Space)[2] = words[3]
    <3>1. 1 + 1 = 2 /\ 2 + 1 = 3 /\ 1 \in 1 .. 2 /\ 2 \in 1 .. 2
      OBVIOUS
    <3> QED BY <2>4, <3>1 DEF RestOf
  <2> DEFINE x == split(v, Space)
  <2>6. x = split(v, Space) /\ Len(x) = 2 /\ x[1] = words[2] /\ x[2] = words[3]
    BY <2>5
  <2> HIDE DEF x
  <2>7. \E c : Command(c) /\ Headed(v, c)
    BY <2>2, <2>5, <2>6, HeadIsCommand
  <2> QED BY <1>1, <2>2, <2>5, <2>7 DEF IsHead, Headed
<1>6. CASE n = 3
  <2>1. Len(words) = 2 + 2 /\ 2 \in Nat
    BY <1>b, <1>6
  <2>2. /\ words[4] = <<>> /\ words[1] # <<>> /\ words[2] # <<>> /\ words[3] # <<>>
        /\ words[3][1] \notin {"@", ":"} /\ words[1][1] = "@" /\ words[2][1] = ":"
    <3>1. 3 + 1 = 4 /\ 1 \in 1 .. 3 /\ 2 \in 1 .. 3 /\ 3 \in 1 .. 3
      OBVIOUS
    <3> QED BY <1>2, <1>6, <3>1
  <2>3. PICK u : \E v : RestOf(h, words, 2, u, v)
    BY <1>1, <1>a, <2>1, <2>2, HeadRest
  <2>4. PICK v : RestOf(h, words, 2, u, v)
    BY <2>3
  <2> DEFINE x == split(v, Space)
  <2>5. /\ Word(u) /\ u = words[1] /\ Inner(v) /\ h = Cut(u, Space, v)
        /\ x = split(v, Space) /\ Len(x) = 1 + 2 /\ 1 \in Nat
        /\ x[1] = words[2] /\ x[2] = words[3] /\ x[3] = words[4]
    <3>1. 2 + 1 = 3 /\ 1 + 2 = 3 /\ 1 + 1 = 2 /\ 3 + 1 = 4
          /\ 1 \in 1 .. 3 /\ 2 \in 1 .. 3 /\ 3 \in 1 .. 3
      OBVIOUS
    <3> QED BY <2>4, <3>1 DEF RestOf
  <2> HIDE DEF x
  <2>6. PICK p : \E w : RestOf(v, x, 1, p, w)
    BY <2>2, <2>5, HeadRest
  <2>7. PICK w : RestOf(v, x, 1, p, w)
    BY <2>6
  <2> DEFINE z == split(w, Space)
  <2>8. /\ Word(p) /\ p = x[1] /\ Inner(w) /\ v = Cut(p, Space, w)
        /\ z = split(w, Space) /\ Len(z) = 2 /\ z[1] = x[2] /\ z[2] = x[3]
    <3>1. 1 + 1 = 2 /\ 2 + 1 = 3 /\ 1 \in 1 .. 2 /\ 2 \in 1 .. 2
      OBVIOUS
    <3> QED BY <2>7, <3>1 DEF RestOf
  <2> HIDE DEF z
  <2>9. \E c : Command(c) /\ Headed(w, c)
    BY <2>2, <2>5, <2>8, HeadIsCommand
  <2>10. p[1] = ":" /\ u[1] = "@"
    BY <2>2, <2>5, <2>8
  <2> QED BY <1>1, <2>5, <2>8, <2>9, <2>10 DEF IsHead, Headed
<1> QED BY <1>2, <1>4, <1>5, <1>6

-----------------------------------------------------------------------------
(* Lines that begin with a head *)

LEMMA CutEnd ==
    ASSUME NEW c \in Seq(Char), NEW z \in Seq(Char)
    PROVE  Cut(c, Space, <<>>) \o z = Cut(c, Space, z)
<1> DEFINE e == <<>>
<1>1. e \in Seq(Char) /\ e \o z = z
  OBVIOUS
<1> HIDE DEF e
<1>2. Cut(c, Space, e \o z) = Cut(c, Space, e) \o z
  BY <1>1, SpaceIsChar, CutCat
<1> QED BY <1>1, <1>2 DEF e

LEMMA CutsEnd ==
    ASSUME NEW u \in Seq(Char), NEW c \in Seq(Char), NEW z \in Seq(Char)
    PROVE  Cut(u, Space, Cut(c, Space, <<>>)) \o z = Cut(u, Space, Cut(c, Space, z))
<1> DEFINE v == Cut(c, Space, <<>>)
<1>1. v \in Seq(Char)
  <2> DEFINE e == <<>>
  <2>1. e \in Seq(Char)
    OBVIOUS
  <2> HIDE DEF e
  <2> QED BY <2>1, SpaceIsChar, CutFacts DEF e
<1>2. v \o z = Cut(c, Space, z)
  BY CutEnd
<1> HIDE DEF v
<1>3. Cut(u, Space, v \o z) = Cut(u, Space, v) \o z
  BY <1>1, SpaceIsChar, CutCat
<1> QED BY <1>2, <1>3 DEF v

LEMMA HeadParsed ==
    ASSUME NEW h, IsHead(h), NEW z \in Seq(Char), NEW s, s = h \o z, Lacks(s, "NUL")
    PROVE  parse(s).params = parse_params(trim(z))
<1>1. CASE \E c : Command(c) /\ h = Cut(c, Space, <<>>)
  <2>1. PICK c : Command(c) /\ h = Cut(c, Space, <<>>)
    BY <1>1
  <2>2. Word(c) /\ c[1] \notin {"@", ":"} /\ c \in Seq(Char)
    BY <2>1 DEF Command, Word
  <2>3. s = Cut(c, Space, z)
    BY <2>1, <2>2, CutEnd
  <2> QED BY <2>2, <2>3, ReadCommand
<1>2. CASE \E u : \E c : /\ Command(c) /\ Word(u) /\ u[1] \in {"@", ":"}
                         /\ h = Cut(u, Space, Cut(c, Space, <<>>))
  <2>1. PICK u : \E c : /\ Command(c) /\ Word(u) /\ u[1] \in {"@", ":"}
                        /\ h = Cut(u, Space, Cut(c, Space, <<>>))
    BY <1>2
  <2>2. PICK c : /\ Command(c) /\ Word(u) /\ u[1] \in {"@", ":"}
                 /\ h = Cut(u, Space, Cut(c, Space, <<>>))
    BY <2>1
  <2>3. Word(c) /\ c[1] \notin {"@", ":"} /\ c \in Seq(Char) /\ u \in Seq(Char) /\ Word(u)
    BY <2>2 DEF Command, Word
  <2>4. s = Cut(u, Space, Cut(c, Space, z))
    BY <2>2, <2>3, CutsEnd
  <2>5. CASE u[1] = "@"
    BY <2>3, <2>4, <2>5, ReadTagsCommand
  <2>6. CASE u[1] = ":"
    BY <2>3, <2>4, <2>6, ReadPrefixCommand
  <2> QED BY <2>2, <2>5, <2>6
<1>3. CASE \E u : \E p : \E c : /\ Command(c) /\ Word(u) /\ u[1] = "@" /\ Word(p) /\ p[1] = ":"
                                /\ h = Cut(u, Space, Cut(p, Space, Cut(c, Space, <<>>)))
  <2>1. PICK u : \E p : \E c : /\ Command(c) /\ Word(u) /\ u[1] = "@" /\ Word(p) /\ p[1] = ":"
                               /\ h = Cut(u, Space, Cut(p, Space, Cut(c, Space, <<>>)))
    BY <1>3
  <2>2. PICK p : \E c : /\ Command(c) /\ Word(u) /\ u[1] = "@" /\ Word(p) /\ p[1] = ":"
                        /\ h = Cut(u, Space, Cut(p, Space, Cut(c, Space, <<>>)))
    BY <2>1
  <2>3. PICK c : /\ Command(c) /\ Word(u) /\ u[1] = "@" /\ Word(p) /\ p[1] = ":"
                 /\ h = Cut(u, Space, Cut(p, Space, Cut(c, Space, <<>>)))
    BY <2>2
  <2>4. /\ Word(c) /\ c[1] \notin {"@", ":"} /\ c \in Seq(Char) /\ u \in Seq(Char) /\ p \in Seq(Char)
        /\ Word(u) /\ u[1] = "@" /\ Word(p) /\ p[1] = ":"
    BY <2>3 DEF Command, Word
  <2> DEFINE v == Cut(p, Space, Cut(c, Space, <<>>))
  <2>5. v \in Seq(Char)
    <3> DEFINE e == <<>>
               w == Cut(c, Space, e)
    <3>1. e \in Seq(Char)
      OBVIOUS
    <3> HIDE DEF e
    <3>2. w \in Seq(Char)
      BY <2>4, <3>1, SpaceIsChar, CutFacts
    <3> HIDE DEF w
    <3> QED BY <2>4, <3>2, SpaceIsChar, CutFacts DEF e, w
  <2>6. v \o z = Cut(p, Space, Cut(c, Space, z))
    BY <2>4, CutsEnd
  <2>7. h = Cut(u, Space, v)
    BY <2>3
  <2> HIDE DEF v
  <2>8. Cut(u, Space, v \o z) = Cut(u, Space, v) \o z
    <3>1. u \in Seq(Char)
      BY <2>4
    <3> QED BY <2>5, <3>1, SpaceIsChar, CutCat
  <2>9. s = Cut(u, Space, Cut(p, Space, Cut(c, Space, z)))
    BY <2>6, <2>7, <2>8
  <2> QED BY <2>4, <2>9, ReadTagsPrefixCommand
<1> QED BY <1>1, <1>2, <1>3 DEF IsHead

LEMMA HeadParams ==
    ASSUME NEW h, Inner(h), IsHead(h), NEW y, Inner(y), NEW s, s = h \o Append(y, "LF")
    PROVE  parse(s).params = Firsts(ParamsIn(y))
<1> DEFINE z == Append(y, "LF")
           t == trim(y)
<1>1. y \in Seq(Char) /\ h \in Seq(Char) /\ "LF" \in Char
  BY DEF Inner, Char
<1>2. IsMore(z, y, "LF")
  BY <1>1, MoreFacts
<1>3. s = h \o z
  OBVIOUS
<1> HIDE DEF z
<1>4. z \in Seq(Char) /\ Len(z) = Len(y) + 1 /\ z[Len(y) + 1] = "LF" /\ Len(y) \in Nat
      /\ \A i \in 1 .. Len(y) : y[i] = z[i]
  BY <1>1, <1>2 DEF IsMore
<1>5. IsCat(s, h, z) /\ s \in Seq(Char)
  BY <1>1, <1>3, <1>4, CatIsCat
<1>6. Lacks(s, "NUL")
  <2> SUFFICES ASSUME NEW i \in 1 .. Len(s) PROVE s[i] # "NUL"
    BY <1>5 DEF Lacks
  <2>1. /\ Len(s) = Len(h) + Len(z) /\ (\A j \in 1 .. Len(h) : s[j] = h[j])
        /\ (\A j \in 1 .. Len(z) : s[Len(h) + j] = z[j]) /\ Len(h) \in Nat
    BY <1>1, <1>5 DEF IsCat
  <2>2. CASE i <= Len(h)
    <3>1. i \in 1 .. Len(h)
      BY <2>1, <2>2
    <3> QED BY <2>1, <3>1 DEF Inner
  <2>3. CASE ~(i <= Len(h))
    <3> DEFINE n == Len(h)
               k == Len(y)
               j == i - n
    <3>0. n \in Nat /\ k \in Nat /\ Len(z) = k + 1 /\ Len(s) = n + Len(z) /\ ~(i <= n) /\ n = Len(h)
          /\ k = Len(y)
      BY <1>4, <2>1, <2>3
    <3> HIDE DEF n, k
    <3>1. j \in 1 .. Len(z) /\ i = Len(h) + j /\ (j = Len(y) + 1 \/ j \in 1 .. Len(y))
      BY <3>0
    <3> HIDE DEF j
    <3>2. s[i] = z[j]
      BY <2>1, <3>1
    <3>3. z[j] # "NUL"
      BY <1>4, <3>1 DEF Inner
    <3> QED BY <3>2, <3>3
  <2> QED BY <2>2, <2>3
<1>7. parse(s).params = parse_params(trim(z))
  BY <1>3, <1>4, <1>6, HeadParsed
<1>8. trim(z) = t
  <2>1. z[Len(y) + 1] \in Whitespace
    BY <1>4 DEF Whitespace
  <2> QED BY <1>1, <1>4, <2>1, TrimLastOff
<1>9. Inner(t) /\ Trimmed(t)
  BY TrimInner
<1>10. ParamsIn(t) = ParamsIn(y)
  BY ParamsTrimmed
<1> HIDE DEF t
<1>11. parse_params(t) = Firsts(ParamsIn(t))
  BY <1>9, ParamsAreWords
<1> QED BY <1>7, <1>8, <1>10, <1>11

-----------------------------------------------------------------------------
(* The lines that are typed *)

LEMMA PrefixIs ==
    ASSUME NEW s \in Seq(Char), NEW t \in Seq(Char)
    PROVE  IsPrefix(s, t) <=> Len(s) <= Len(t) /\ \A i \in 1 .. Len(s) : s[i] = t[i]
<1>1. ASSUME IsPrefix(s, t)
      PROVE  Len(s) <= Len(t) /\ \A i \in 1 .. Len(s) : s[i] = t[i]
  <2>1. Len(s) <= Len(t) /\ SubSeq(s, 1, Len(s)) = SubSeq(t, 1, Len(s))
    BY <1>1 DEF IsPrefix
  <2>2. \A i \in 1 .. Len(s) : SubSeq(s, 1, Len(s))[i] = s[i] /\ SubSeq(t, 1, Len(s))[i] = t[i]
    BY <2>1
  <2> QED BY <2>1, <2>2
<1>2. ASSUME Len(s) <= Len(t), \A i \in 1 .. Len(s) : s[i] = t[i]
      PROVE  IsPrefix(s, t)
  <2> DEFINE a == SubSeq(s, 1, Len(s))
             b == SubSeq(t, 1, Len(s))
  <2>1. a \in Seq(Char) /\ b \in Seq(Char) /\ Len(a) = Len(s) /\ Len(b) = Len(s)
        /\ \A i \in 1 .. Len(s) : a[i] = s[i] /\ b[i] = t[i]
    BY <1>2
  <2> HIDE DEF a, b
  <2>2. \A i \in 1 .. Len(a) : a[i] = b[i]
    BY <1>2, <2>1
  <2>3. a = b
    BY <2>1, <2>2, SeqEqual
  <2> QED BY <1>2, <2>3 DEF IsPrefix, a, b
<1> QED BY <1>1, <1>2

\* A line that begins with a head, and the rest of it.
LEMMA HeadThenRest ==
    ASSUME NEW t, Inner(t), NEW h \in Seq(Char), IsPrefix(h, t), NEW y, y = From(t, Len(h))
    PROVE  Inner(y) /\ Append(t, "LF") = h \o Append(y, "LF")
<1> DEFINE n == Len(h)
           a == Append(t, "LF")
           z == Append(y, "LF")
           b == h \o z
<1>1. t \in Seq(Char) /\ n \in Nat /\ Len(t) \in Nat /\ "LF" \in Char
      /\ \A i \in 1 .. Len(t) : t[i] \notin {"NUL", "CR", "LF"}
  BY DEF Inner, Char
<1>2. n <= Len(t) /\ \A i \in 1 .. n : h[i] = t[i]
  BY <1>1, PrefixIs
<1>3. n \in 0 .. Len(t) /\ n = Len(h)
  BY <1>1, <1>2
<1> HIDE DEF n
<1>4. y \in Seq(Char) /\ Len(y) = Len(t) - n /\ \A i \in 1 .. Len(t) - n : y[i] = t[n + i]
  BY <1>1, <1>3, FromFacts
<1>5. Inner(y)
  <2>1. \A i \in 1 .. Len(y) : y[i] = t[n + i] /\ n + i \in 1 .. Len(t)
    BY <1>1, <1>3, <1>4
  <2> QED BY <1>1, <1>4, <2>1 DEF Inner
<1>6. IsMore(a, t, "LF") /\ IsMore(z, y, "LF")
  BY <1>1, <1>4, MoreFacts
<1> HIDE DEF a, z
<1>7. IsCat(b, h, z) /\ b \in Seq(Char)
  BY <1>6, CatIsCat DEF IsMore
<1> HIDE DEF b
<1>8. /\ a \in Seq(Char) /\ Len(a) = Len(t) + 1 /\ a[Len(t) + 1] = "LF"
      /\ (\A i \in 1 .. Len(t) : a[i] = t[i])
      /\ z \in Seq(Char) /\ Len(z) = Len(y) + 1 /\ z[Len(y) + 1] = "LF"
      /\ (\A i \in 1 .. Len(y) : z[i] = y[i])
  BY <1>6 DEF IsMore
<1>9. Len(b) = n + Len(z) /\ (\A i \in 1 .. n : b[i] = h[i]) /\ \A i \in 1 .. Len(z) : b[n + i] = z[i]
  BY <1>3, <1>7 DEF IsCat
<1>10. Len(a) = Len(b)
  BY <1>1, <1>3, <1>4, <1>8, <1>9
<1>11. \A i \in 1 .. Len(a) : a[i] = b[i]
  <2> TAKE i \in 1 .. Len(a)
  <2>1. CASE i <= n
    <3>1. i \in 1 .. n /\ i \in 1 .. Len(t)
      BY <1>1, <1>3, <1>8, <2>1
    <3> QED BY <1>2, <1>8, <1>9, <3>1
  <2>2. CASE ~(i <= n) /\ i <= Len(t)
    <3> DEFINE j == i - n
    <3>1. j \in 1 .. Len(t) - n /\ i = n + j /\ i \in 1 .. Len(t) /\ j \in 1 .. Len(y) /\ j \in 1 .. Len(z)
      BY <1>1, <1>3, <1>4, <1>8, <2>2
    <3> HIDE DEF j
    <3> QED BY <1>4, <1>8, <1>9, <3>1
  <2>3. CASE ~(i <= Len(t))
    <3>1. i = Len(t) + 1 /\ i = n + (Len(y) + 1) /\ Len(y) + 1 \in 1 .. Len(z)
      BY <1>1, <1>3, <1>4, <1>8, <2>3
    <3> QED BY <1>8, <1>9, <3>1
  <2> QED BY <2>1, <2>2, <2>3
<1>12. a = b
  BY <1>7, <1>8, <1>10, <1>11, SeqEqual
<1> QED BY <1>5, <1>12 DEF a, b, z

LEMMA HeadNotEmpty ==
    ASSUME NEW h \in Heads, h \in Seq(Char)
    PROVE  h # <<>>
<1> SUFFICES ASSUME h = <<>> PROVE FALSE
  OBVIOUS
<1>1. Lacks(h, Space)
  BY DEF Lacks
<1>2. split(h, Space) = <<h>>
  BY <1>1, SplitOne
<1>3. Len(split(h, Space)) = 1
  BY <1>2
<1>4. Len(split(h, Space)) - 1 \in 1 .. 3
  BY HeadAssumption
<1> QED BY <1>3, <1>4

HeadIInv == TypedIInv /\ (job = "relay" => Inner(text) /\ \E h \in Heads : IsPrefix(h, text))

LEMMA TypedAfterHead ==
    ASSUME NEW t, t = text, Inner(t), \E h \in Heads : IsPrefix(h, t)
    PROVE  \E h \in Heads : IsPrefix(h, t) /\ Len(t) - Typed = Len(h)
<1> DEFINE T == {Len(h) : h \in {h \in Heads : IsPrefix(h, t)}}
<1>1. t \in Seq(Char) /\ Len(t) \in Nat
  BY DEF Inner
<1>2. T \in SUBSET (1 .. Len(t)) /\ T # {}
  <2> SUFFICES ASSUME NEW h \in Heads, IsPrefix(h, t) PROVE Len(h) \in 1 .. Len(t)
    OBVIOUS
  <2>1. h \in Seq(Char) /\ IsHead(h)
    BY HeadsAre DEF Inner
  <2>2. Len(h) <= Len(t) /\ Len(h) \in Nat
    BY <1>1, <2>1, PrefixIs
  <2>3. h # <<>>
    BY <2>1, HeadNotEmpty
  <2> QED BY <1>1, <2>1, <2>2, <2>3
<1>3. Typed = Len(t) - Max(T)
  BY DEF Typed
<1> HIDE DEF T
<1> DEFINE m == Max(T)
<1>4. m \in T
  BY <1>1, <1>2, MaxIn
<1>a. Typed = Len(t) - m
  BY <1>3
<1> HIDE DEF m
<1>5. PICK h \in Heads : IsPrefix(h, t) /\ m = Len(h)
  BY <1>4 DEF T
<1>6. m \in Nat
  BY <1>2, <1>4
<1>7. Len(t) - Typed = Len(h)
  BY <1>1, <1>a, <1>5, <1>6
<1> QED BY <1>5, <1>7

LEMMA ParamsRead ==
    ASSUME HeadIInv
    PROVE  ParamsByDefinition
<1> SUFFICES ASSUME job = "relay"
             PROVE  parse(Append(text, "LF")).params = Firsts(ParamsIn(From(text, Len(text) - Typed)))
  BY DEF ParamsByDefinition, Firsts
<1>1. Inner(text) /\ \E h \in Heads : IsPrefix(h, text)
  BY DEF HeadIInv
<1>2. PICK h \in Heads : IsPrefix(h, text) /\ Len(text) - Typed = Len(h)
  BY <1>1, TypedAfterHead
<1> DEFINE y == From(text, Len(h))
           s == Append(text, "LF")
<1>3. Inner(h) /\ IsHead(h) /\ h \in Seq(Char)
  BY HeadsAre DEF Inner
<1>4. Inner(y) /\ s = h \o Append(y, "LF")
  BY <1>1, <1>2, <1>3, HeadThenRest
<1>5. y = From(text, Len(text) - Typed)
  BY <1>2
<1> HIDE DEF y, s
<1>6. parse(s).params = Firsts(ParamsIn(y))
  BY <1>3, <1>4, HeadParams
<1> QED BY <1>5, <1>6 DEF s

\* The parameters of a line are the words that follow its command, whatever the line.
THEOREM ParametersAreWords == TextSpec => []ParamsByDefinition
<1>1. TextInit /\ TypedIInv => HeadIInv
  <2> SUFFICES ASSUME TextInit, TypedIInv, job = "relay"
               PROVE  Inner(text) /\ \E h \in Heads : IsPrefix(h, text)
    BY DEF HeadIInv
  <2>1. text \in Heads
    BY DEF TextInit
  <2>2. Inner(text)
    BY <2>1, HeadsAre
  <2>3. IsPrefix(text, text)
    <3>1. text \in Seq(Char)
      BY <2>2 DEF Inner
    <3> QED BY <3>1, PrefixIs
  <2> QED BY <2>1, <2>2, <2>3
<1>2. HeadIInv /\ TypedIInv' /\ [TextNext]_textVars => HeadIInv'
  <2> SUFFICES ASSUME HeadIInv, TypedIInv', [TextNext]_textVars PROVE HeadIInv'
    OBVIOUS
  <2>1. ASSUME NEW c \in LineChars \cup TagChars \cup ModeChars, type_char(c) PROVE HeadIInv'
    <3> SUFFICES ASSUME job' = "relay" PROVE Inner(text') /\ \E h \in Heads : IsPrefix(h, text')
      BY DEF HeadIInv
    <3>1. job = "relay" /\ c \in LineChars /\ text' = Append(text, c)
      BY <2>1 DEF type_char
    <3>2. Inner(text) /\ \E h \in Heads : IsPrefix(h, text)
      BY <3>1 DEF HeadIInv
    <3>3. c \notin {"NUL", "CR", "LF"} /\ c \in STRING
      BY <3>1, LineAssumption, TextAssumption
    <3>4. text \in Seq(Char) /\ c \in Char /\ Len(text) \in Nat
      BY <3>2, <3>3 DEF Inner, Char
    <3>5. IsMore(text', text, c)
      BY <3>1, <3>4, MoreFacts
    <3>6. /\ text' \in Seq(Char) /\ Len(text') = Len(text) + 1 /\ text'[Len(text) + 1] = c
          /\ \A j \in 1 .. Len(text) : text'[j] = text[j]
      BY <3>5 DEF IsMore
    <3>7. Inner(text')
      <4>1. \A i \in 1 .. Len(text') : i = Len(text) + 1 \/ i \in 1 .. Len(text)
        BY <3>4, <3>6
      <4> QED BY <3>2, <3>3, <3>6, <4>1 DEF Inner
    <3>8. PICK h \in Heads : IsPrefix(h, text)
      BY <3>2
    <3>9. h \in Seq(Char)
      BY HeadsAre DEF Inner
    <3>10. Len(h) <= Len(text) /\ (\A i \in 1 .. Len(h) : h[i] = text[i]) /\ Len(h) \in Nat
      BY <3>4, <3>8, <3>9, PrefixIs
    <3>11. Len(h) <= Len(text') /\ \A i \in 1 .. Len(h) : h[i] = text'[i]
      <4>1. \A i \in 1 .. Len(h) : i \in 1 .. Len(text)
        BY <3>4, <3>10
      <4> QED BY <3>4, <3>6, <3>10, <4>1
    <3>12. IsPrefix(h, text')
      BY <3>6, <3>9, <3>11, PrefixIs
    <3> QED BY <3>7, <3>8, <3>12
  <2>2. ASSUME NEW mask \in Masks, change_list(mask) PROVE HeadIInv'
    BY <2>2 DEF change_list, HeadIInv, TypedIInv
  <2>3. CASE UNCHANGED textVars
    BY <2>3 DEF HeadIInv, TypedIInv, textVars
  <2> QED BY <2>1, <2>2, <2>3 DEF TextNext
<1>3. HeadIInv => ParamsByDefinition
  BY ParamsRead
<1> QED BY <1>1, <1>2, <1>3, TypedInvariance, PTL DEF TextSpec

-----------------------------------------------------------------------------
(* A line of single words *)

\* A message after each of the parameters written to it.
LEMMA ParamFold ==
    ASSUME NEW first \in Chars, NEW list \in Seq(Chars)
    PROVE  \E h \in [0 .. Len(list) -> Chars] :
              /\ h[0] = first
              /\ \A i \in 1 .. Len(list) : h[i] = param(h[i - 1], list[i])
              /\ FoldLeft(param, first, list) = h[Len(list)]
<1> DEFINE Next(q, c) == param(q, c)
           base == first
           n == Len(list)
           F(g) == [T \in SUBSET (1 .. n) |->
                      IF T = {} THEN base ELSE Next(g[T \ {Max(T)}], list[Max(T)])]
           g0 == CHOOSE g : g = F(g)
           st == [i \in 1 .. n |-> [q \in Chars |-> Next(q, list[i])]]
<1>1. FoldLeft(param, first, list) = g0[1 .. n]
  <2>1. DOMAIN (list) = 1 .. n
    OBVIOUS
  <2> QED BY <2>1, Zenon DEF FoldLeft, MapThenFoldSet
<1>2. base \in Chars
  OBVIOUS
<1>3. ASSUME NEW q \in Chars, NEW c \in Chars PROVE Next(q, c) \in Chars
  <2> DEFINE r == trim(c)
  <2>1. q \in Seq(Char) /\ r \in Seq(Char)
    BY TrimFacts DEF Chars
  <2>2. param(q, c) = IF r = <<>> THEN q ELSE (q \o <<Space>>) \o r
    BY Zenon DEF param
  <2> HIDE DEF r
  <2>3. <<Space>> \in Seq(Char)
    BY SpaceIsChar
  <2>4. (q \o <<Space>>) \o r \in Seq(Char)
    BY <2>1, <2>3
  <2>5. param(q, c) \in Seq(Char)
    BY <2>1, <2>2, <2>4
  <2> QED BY <2>5 DEF Chars
<1>4. st \in [1 .. n -> [Chars -> Chars]] /\ n \in Nat
  <2>1. \A i \in 1 .. n : list[i] \in Chars
    OBVIOUS
  <2> HIDE DEF Next
  <2> QED BY <1>3, <2>1
<1>5. \A i \in 1 .. n, q \in Chars : st[i][q] = Next(q, list[i])
  OBVIOUS
<1> HIDE DEF Next, base, st, n
<1>6. Steps(n, Chars, base, st)
  BY <1>2, <1>4 DEF Steps
<1>7. \E g : g = F(g)
  <2>1. PICK g : IsFold(g, n, Chars, base, st)
    BY <1>6, FoldExists
  <2>2. /\ g \in [SUBSET (1 .. n) -> Chars]
        /\ \A T \in SUBSET (1 .. n) : g[T] = IF T = {} THEN base ELSE st[Max(T)][g[T \ {Max(T)}]]
    BY <2>1 DEF IsFold
  <2>3. ASSUME NEW T \in SUBSET (1 .. n), T # {} PROVE g[T] = Next(g[T \ {Max(T)}], list[Max(T)])
    <3>1. Max(T) \in 1 .. n /\ g[T \ {Max(T)}] \in Chars
      BY <1>4, <2>2, <2>3, MaxIn
    <3> QED BY <1>5, <2>2, <2>3, <3>1
  <2> QED BY <2>2, <2>3
<1>8. g0 = F(g0)
  BY <1>7
<1> HIDE DEF g0
<1>9. g0[{}] = base
  <2> {} \in SUBSET (1 .. n)
    OBVIOUS
  <2> QED BY <1>8
<1>10. ASSUME NEW T \in SUBSET (1 .. n), T # {}, g0[T \ {Max(T)}] \in Chars
       PROVE  g0[T] = st[Max(T)][g0[T \ {Max(T)}]]
  <2>1. Max(T) \in 1 .. n
    BY <1>4, <1>10, MaxIn
  <2> QED BY <1>5, <1>8, <1>10, <2>1
<1>11. FollowsSteps(g0, n, Chars, base, st)
  BY <1>9, <1>10 DEF FollowsSteps
<1>12. PICK h : FoldValues(h, n, Chars, base, st) /\ h[n] = g0[1 .. n]
  BY <1>6, <1>11, FoldRun
<1>13. h \in [0 .. n -> Chars] /\ h[0] = base /\ \A i \in 1 .. n : h[i] = st[i][h[i - 1]]
  BY <1>12 DEF FoldValues
<1>14. \A i \in 1 .. n : h[i] = Next(h[i - 1], list[i])
  <2> \A i \in 1 .. n : h[i - 1] \in Chars
    BY <1>4, <1>13
  <2> QED BY <1>5, <1>13
<1> QED BY <1>1, <1>12, <1>13, <1>14 DEF Next, base, n

\* A word that is a parameter wherever it stands.
Single(p) == Inner(p) /\ Lacks(p, Space) /\ p # <<>> /\ p[1] # ":"

LEMMA InnerCut ==
    ASSUME NEW u, Inner(u), NEW v, Inner(v), NEW b, b = Cut(u, Space, v)
    PROVE  Inner(b)
<1>0. u \in Seq(Char) /\ v \in Seq(Char)
  BY DEF Inner
<1>1. IsCut(b, u, Space, v)
  BY <1>0, SpaceIsChar, CutIsCut
<1>2. /\ b \in Seq(Char) /\ Len(b) = Len(u) + 1 + Len(v) /\ Len(u) \in Nat /\ Len(v) \in Nat
      /\ b[Len(u) + 1] = Space
      /\ (\A i \in 1 .. Len(u) : b[i] = u[i]) /\ \A i \in 1 .. Len(v) : b[Len(u) + 1 + i] = v[i]
  BY <1>0, <1>1 DEF IsCut
<1>3. Space \notin {"NUL", "CR", "LF"}
  BY Zenon DEF Space
<1>4. ASSUME NEW i \in 1 .. Len(b) PROVE b[i] \notin {"NUL", "CR", "LF"}
  <2>1. CASE i \in 1 .. Len(u)
    BY <1>2, <2>1 DEF Inner
  <2>2. CASE i = Len(u) + 1
    BY <1>2, <1>3, <2>2
  <2>3. CASE Len(u) + 1 < i
    <3> DEFINE j == i - (Len(u) + 1)
    <3>1. j \in 1 .. Len(v) /\ i = Len(u) + 1 + j
      BY <1>2, <2>3
    <3> HIDE DEF j
    <3> QED BY <1>2, <3>1 DEF Inner
  <2> QED BY <1>2, <2>1, <2>2, <2>3
<1> QED BY <1>2, <1>4 DEF Inner

LEMMA SingleFacts ==
    ASSUME NEW p, Single(p)
    PROVE  p \in Seq(Char) /\ p # <<>> /\ Trimmed(p) /\ Inner(p) /\ Colons(p) = {} /\ Words(p) = <<p>>
<1>1. Word(p) /\ p \in Seq(Char) /\ Lacks(p, Space) /\ p # <<>> /\ Inner(p) /\ p[1] # ":"
  BY InnerWord DEF Single
<1>2. Trimmed(p)
  BY <1>1 DEF Word
<1>3. Colons(p) = {}
  <2>1. ASSUME NEW i \in Colons(p) PROVE FALSE
    <3>1. i \in 1 .. Len(p) /\ p[i] = ":" /\ (i = 1 \/ p[i - 1] = Space)
      BY <1>1 DEF Colons
    <3>2. i # 1
      BY <1>1, <3>1
    <3>3. i - 1 \in 1 .. Len(p) /\ p[i - 1] = Space
      BY <1>1, <3>1, <3>2
    <3> QED BY <1>1, <3>3 DEF Lacks
  <2> QED BY <2>1
<1>4. Words(p) = <<p>>
  BY <1>1, WordsOfOne
<1> QED BY <1>1, <1>2, <1>3, <1>4

\* y is the first words of a list with spaces between them.
Joins(y, list, k) == Inner(y) /\ Colons(y) = {} /\ Words(y) = SubSeq(list, 1, k)

LEMMA FirstOnly ==
    ASSUME NEW S, NEW list \in Seq(S), Len(list) >= 1
    PROVE  SubSeq(list, 1, 1) = <<list[1]>>
<1> DEFINE a == SubSeq(list, 1, 1)
           b == <<list[1]>>
<1>1. a \in Seq(S) /\ Len(a) = 1 /\ a[1] = list[1]
  OBVIOUS
<1>2. b \in Seq(S) /\ Len(b) = 1 /\ b[1] = list[1]
  OBVIOUS
<1> HIDE DEF a, b
<1>3. \A i \in 1 .. Len(a) : a[i] = b[i]
  BY <1>1, <1>2
<1>4. a = b
  BY <1>1, <1>2, <1>3
<1> QED BY <1>4 DEF a, b

LEMMA OneMore ==
    ASSUME NEW S, NEW list \in Seq(S), NEW k \in Nat, k + 1 <= Len(list)
    PROVE  SubSeq(list, 1, k + 1) = SubSeq(list, 1, k) \o <<list[k + 1]>>
<1> DEFINE a == SubSeq(list, 1, k + 1)
           b == SubSeq(list, 1, k)
           c == <<list[k + 1]>>
<1>1. a \in Seq(S) /\ Len(a) = k + 1 /\ \A i \in 1 .. k + 1 : a[i] = list[i]
  OBVIOUS
<1>2. b \in Seq(S) /\ Len(b) = k /\ \A i \in 1 .. k : b[i] = list[i]
  OBVIOUS
<1>3. c \in Seq(S) /\ Len(c) = 1 /\ c[1] = list[k + 1]
  OBVIOUS
<1> HIDE DEF a, b, c
<1>4. IsCat(b \o c, b, c) /\ b \o c \in Seq(S)
  BY <1>2, <1>3, CatIsCat
<1> DEFINE d == b \o c
<1> HIDE DEF d
<1>5. d \in Seq(S) /\ Len(d) = k + 1 /\ (\A i \in 1 .. k : d[i] = list[i]) /\ d[k + 1] = list[k + 1]
  <2>1. IsCat(d, b, c) /\ d \in Seq(S)
    BY <1>4 DEF d
  <2>2. 1 \in 1 .. 1
    OBVIOUS
  <2> QED BY <1>2, <1>3, <2>1, <2>2 DEF IsCat
<1>6. \A i \in 1 .. k + 1 : a[i] = d[i]
  <2>1. \A i \in 1 .. k + 1 : i \in 1 .. k \/ i = k + 1
    OBVIOUS
  <2> QED BY <1>1, <1>5, <2>1
<1>7. a = d
  BY <1>1, <1>5, <1>6
<1> QED BY <1>7 DEF a, b, c, d

LEMMA ListWritten ==
    ASSUME NEW c \in Seq(Char), NEW list \in Seq(Seq(Char)), list # <<>>,
           \A i \in 1 .. Len(list) : Single(list[i])
    PROVE  \E y : Joins(y, list, Len(list)) /\ FoldLeft(param, c, list) = Cut(c, Space, y)
<1> DEFINE n == Len(list)
<1>1. PICK h \in [0 .. n -> Chars] :
         /\ h[0] = c
         /\ \A i \in 1 .. n : h[i] = param(h[i - 1], list[i])
         /\ FoldLeft(param, c, list) = h[n]
  BY ParamFold DEF Chars
<1>2. n \in Nat \ {0} /\ n = Len(list)
  OBVIOUS
<1> HIDE DEF n
<1> DEFINE S == Seq(Char)
           Done(k) == \E y : Joins(y, list, k) /\ h[k] = Cut(c, Space, y)
           K == {k \in Nat : 1 <= k /\ k <= n => Done(k)}
<1>3. 0 \in K
  OBVIOUS
<1>4. ASSUME NEW k \in Nat, k \in K PROVE k + 1 \in K
  <2> SUFFICES ASSUME k + 1 <= n PROVE Done(k + 1)
    OBVIOUS
  <2> DEFINE p == list[k + 1]
  <2>1. Single(p) /\ h[k + 1] = param(h[k], p)
    <3>1. k + 1 \in 1 .. n /\ (k + 1) - 1 = k
      BY <1>2
    <3> QED BY <1>1, <1>2, <3>1
  <2> HIDE DEF p
  <2>2. p \in Seq(Char) /\ p # <<>> /\ Trimmed(p) /\ Inner(p) /\ Colons(p) = {} /\ Words(p) = <<p>>
    BY <2>1, SingleFacts
  <2>3. CASE k = 0
    <3>1. h[k + 1] = Cut(c, Space, p)
      BY <1>1, <2>1, <2>2, <2>3, ParamWritten
    <3>2. SubSeq(list, 1, k + 1) = <<p>>
      <4> HIDE DEF S
      <4>1. list \in Seq(S) /\ Len(list) >= 1
        BY <1>2 DEF S
      <4>2. SubSeq(list, 1, 1) = <<list[1]>>
        BY <4>1, FirstOnly
      <4>3. k + 1 = 1
        BY <2>3
      <4> QED BY <4>2, <4>3 DEF p
    <3>3. Joins(p, list, k + 1)
      BY <2>2, <3>2 DEF Joins
    <3> QED BY <3>1, <3>3
  <2>4. CASE k # 0
    <3>1. Done(k)
      <4>1. 1 <= k /\ k <= n
        BY <1>2, <2>4
      <4> HIDE DEF Done
      <4> QED BY <1>4, <4>1
    <3>2. PICK y : Joins(y, list, k) /\ h[k] = Cut(c, Space, y)
      BY <3>1
    <3> DEFINE w == Cut(y, Space, p)
               u == Cut(c, Space, y)
    <3>3. Inner(y) /\ y \in Seq(Char) /\ Colons(y) = {} /\ Words(y) = SubSeq(list, 1, k)
      BY <3>2 DEF Joins, Inner
    <3>4. u \in Seq(Char)
      BY <3>3, SpaceIsChar, CutFacts
    <3>5. Cut(u, Space, p) = Cut(c, Space, w)
      BY <2>2, <3>3, SpaceIsChar, CutCut
    <3> HIDE DEF u
    <3>6. param(u, p) = Cut(u, Space, p)
      BY <2>2, <3>4, ParamWritten
    <3>7. h[k + 1] = Cut(c, Space, w)
      BY <2>1, <3>2, <3>5, <3>6 DEF u
    <3>8. Inner(w)
      BY <2>2, <3>3, InnerCut
    <3>9. Colons(w) = {}
      BY <2>2, <3>3, MinOfCut
    <3>10. Words(w) = Words(y) \o Words(p)
      BY <2>2, <3>3, WordsOfCut
    <3>11. SubSeq(list, 1, k + 1) = SubSeq(list, 1, k) \o <<p>>
      <4> HIDE DEF S
      <4>1. list \in Seq(S) /\ k + 1 <= Len(list)
        BY <1>2 DEF S
      <4> QED BY <4>1, OneMore DEF p
    <3>12. Joins(w, list, k + 1)
      BY <2>2, <3>3, <3>8, <3>9, <3>10, <3>11 DEF Joins
    <3> HIDE DEF w
    <3> QED BY <3>7, <3>12
  <2> QED BY <2>3, <2>4
<1>5. n \in K
  <2> HIDE DEF K
  <2>1. \A k \in Nat : k \in K
    BY <1>3, <1>4, SetInduction
  <2> QED BY <1>2, <2>1
<1>6. Done(n)
  BY <1>2, <1>5
<1> QED BY <1>1, <1>2, <1>6

\* What is read of a command that single words were written to.
LEMMA ListHeard ==
    ASSUME NEW c, Command(c), Inner(c), NEW list \in Seq(Seq(Char)), list # <<>>,
           \A i \in 1 .. Len(list) : Single(list[i])
    PROVE  parse(MessageBuffer_drop(FoldLeft(param, c, list))).params = Firsts(list)
<1> DEFINE b == FoldLeft(param, c, list)
<1>1. c \in Seq(Char) /\ Word(c) /\ c[1] \notin {"@", ":"} /\ "CR" \in Char /\ "LF" \in Char
  BY DEF Command, Word, Char
<1>2. PICK y : Joins(y, list, Len(list)) /\ b = Cut(c, Space, y)
  BY <1>1, ListWritten
<1> HIDE DEF b
<1>3. Inner(y) /\ y \in Seq(Char) /\ Colons(y) = {} /\ Words(y) = list
  <2>1. SubSeq(list, 1, Len(list)) = list
    <3> DEFINE S == Seq(Char)
    <3>1. list \in Seq(S)
      OBVIOUS
    <3> HIDE DEF S
    <3> QED BY <3>1
  <2> QED BY <1>2, <2>1 DEF Joins, Inner
<1> DEFINE e == <<"CR", "LF">>
           z == y \o e
           y1 == Append(y, "CR")
           t == trim(y)
<1>4. e \in Seq(Char)
  BY <1>1
<1>5. IsMore(y1, y, "CR")
  BY <1>1, <1>3, MoreFacts
<1>6. IsCat(z, y, e) /\ z \in Seq(Char) /\ Len(e) = 2 /\ e[1] = "CR" /\ e[2] = "LF"
  <2> HIDE DEF z
  <2>1. Len(e) = 2 /\ e[1] = "CR" /\ e[2] = "LF"
    OBVIOUS
  <2> HIDE DEF e
  <2> QED BY <1>3, <1>4, <2>1, CatIsCat DEF z
<1>7. MessageBuffer_drop(b) = b \o e
  BY DEF MessageBuffer_drop
<1> HIDE DEF e
<1>8. Cut(c, Space, y \o e) = Cut(c, Space, y) \o e
  BY <1>1, <1>3, <1>4, SpaceIsChar, CutCat
<1> HIDE DEF z, y1
<1>9. /\ y1 \in Seq(Char) /\ Len(y1) = Len(y) + 1 /\ y1[Len(y) + 1] = "CR" /\ Len(y) \in Nat
      /\ \A i \in 1 .. Len(y) : y1[i] = y[i]
  BY <1>3, <1>5 DEF IsMore
<1>10. /\ Len(z) = Len(y) + 2 /\ (\A i \in 1 .. Len(y) : z[i] = y[i])
       /\ z[Len(y) + 1] = "CR" /\ z[Len(y) + 2] = "LF"
  <2>1. 1 \in 1 .. 2 /\ 2 \in 1 .. 2
    OBVIOUS
  <2> QED BY <1>6, <2>1 DEF IsCat
<1>11. trim(y1) = t
  <2>1. y1[Len(y) + 1] \in Whitespace
    BY <1>9 DEF Whitespace
  <2> QED BY <1>3, <1>9, <2>1, TrimLastOff
<1>12. trim(z) = trim(y1)
  <2>1. z[Len(y1) + 1] \in Whitespace /\ Len(z) = Len(y1) + 1
    <3>1. Len(y1) + 1 = Len(y) + 2
      BY <1>9
    <3> QED BY <1>10, <3>1 DEF Whitespace
  <2>2. \A i \in 1 .. Len(y1) : y1[i] = z[i]
    <3>1. \A i \in 1 .. Len(y1) : i \in 1 .. Len(y) \/ i = Len(y) + 1
      BY <1>9
    <3> QED BY <1>9, <1>10, <3>1
  <2> QED BY <1>6, <1>9, <2>1, <2>2, TrimLastOff
<1> DEFINE s == MessageBuffer_drop(b)
<1>13. s = Cut(c, Space, z)
  BY <1>2, <1>7, <1>8 DEF z
<1> HIDE DEF s
<1>14. Lacks(s, "NUL")
  <2>1. Lacks(c, "NUL")
    BY DEF Inner, Lacks
  <2>2. Lacks(z, "NUL")
    <3>1. \A i \in 1 .. Len(z) : i \in 1 .. Len(y) \/ i = Len(y) + 1 \/ i = Len(y) + 2
      BY <1>9, <1>10
    <3>2. \A i \in 1 .. Len(z) : z[i] # "NUL"
      BY <1>3, <1>10, <3>1 DEF Inner
    <3> QED BY <1>6, <3>2 DEF Lacks
  <2>3. Space # "NUL"
    BY Zenon DEF Space
  <2> QED BY <1>1, <1>6, <1>13, <2>1, <2>2, <2>3, SpaceIsChar, LacksCut
<1>15. parse(s).params = parse_params(trim(z))
  BY <1>1, <1>6, <1>13, <1>14, ReadCommand
<1>16. Inner(t) /\ Trimmed(t) /\ ParamsIn(t) = ParamsIn(y)
  BY <1>3, TrimInner, ParamsTrimmed
<1>17. ParamsIn(y) = list
  BY <1>3 DEF ParamsIn, Words
<1> HIDE DEF t
<1>18. parse_params(t) = Firsts(ParamsIn(t))
  BY <1>16, ParamsAreWords
<1> QED BY <1>11, <1>12, <1>15, <1>16, <1>17, <1>18 DEF s, b

-----------------------------------------------------------------------------
(* A query that is written letter by letter *)

\* h is what was read of s after each number of characters.
NextRead(q, c) == IF c \in Signs THEN [q EXCEPT !.value = (c = "+")]
                  ELSE [q EXCEPT !.items = Append(@, [value |-> q.value, mode |-> c])]
QueryPath(h, s) ==
    /\ h \in [0 .. Len(s) -> Query] /\ h[0] = [value |-> TRUE, items |-> <<>>]
    /\ \A i \in 1 .. Len(s) : h[i] = NextRead(h[i - 1], s[i])

\* The letters of s are x, and the next one would have sign v.
ReadsAs(s, x, v) == \E h : QueryPath(h, s) /\ h[Len(s)] = [value |-> v, items |-> x]

LEMMA NextReadIsTyped ==
    ASSUME NEW q \in Query, NEW c \in Char
    PROVE  NextRead(q, c) \in Query
<1>1. [value |-> q.value, mode |-> c] \in Item
  BY DEF Query, Item
<1>2. Append(q.items, [value |-> q.value, mode |-> c]) \in Seq(Item)
  BY <1>1 DEF Query
<1>3. [q EXCEPT !.items = Append(@, [value |-> q.value, mode |-> c])] \in Query
  BY <1>2 DEF Query
<1>4. [q EXCEPT !.value = (c = "+")] \in Query
  BY DEF Query
<1> QED BY <1>3, <1>4 DEF NextRead

LEMMA ReadsNothing == ReadsAs(<<>>, <<>>, TRUE)
<1> DEFINE e == <<>>
           q == [value |-> TRUE, items |-> <<>>]
           h == [i \in 0 .. 0 |-> q]
<1>1. q \in Query
  BY DEF Query, Item
<1>2. Len(e) = 0 /\ e = <<>>
  OBVIOUS
<1> HIDE DEF e
<1>3. QueryPath(h, e)
  BY <1>1, <1>2 DEF QueryPath
<1>4. h[Len(e)] = q
  BY <1>2
<1> HIDE DEF h
<1> QED BY <1>2, <1>3, <1>4 DEF ReadsAs

LEMMA ReadsMore ==
    ASSUME NEW s \in Seq(Char), NEW x, NEW v, ReadsAs(s, x, v), NEW c \in Char
    PROVE  /\ c \in Signs => ReadsAs(Append(s, c), x, c = "+")
           /\ c \notin Signs => ReadsAs(Append(s, c), Append(x, [value |-> v, mode |-> c]), v)
<1> DEFINE w == Append(s, c)
           n == Len(s)
           q == [value |-> v, items |-> x]
           r == NextRead(q, c)
<1>1. PICK h : QueryPath(h, s) /\ h[n] = q
  BY DEF ReadsAs
<1>2. w \in Seq(Char) /\ Len(w) = n + 1 /\ w[n + 1] = c /\ n \in Nat
      /\ \A i \in 1 .. n : w[i] = s[i]
  OBVIOUS
<1>3. /\ h \in [0 .. n -> Query] /\ h[0] = [value |-> TRUE, items |-> <<>>]
      /\ \A i \in 1 .. n : h[i] = NextRead(h[i - 1], s[i])
  BY <1>1 DEF QueryPath
<1> HIDE DEF w, n, q
<1>4. q \in Query
  BY <1>1, <1>2, <1>3
<1>5. r \in Query
  BY <1>4, NextReadIsTyped
<1> HIDE DEF r
<1> DEFINE g == [i \in 0 .. n + 1 |-> IF i <= n THEN h[i] ELSE r]
<1>6. g \in [0 .. n + 1 -> Query] /\ g[n + 1] = r /\ \A i \in 0 .. n : g[i] = h[i]
  <2>1. \A i \in 0 .. n + 1 : i <= n => i \in 0 .. n
    BY <1>2
  <2>2. ~(n + 1 <= n) /\ n + 1 \in 0 .. n + 1 /\ \A i \in 0 .. n : i \in 0 .. n + 1 /\ i <= n
    BY <1>2
  <2> QED BY <1>3, <1>5, <2>1, <2>2
<1> HIDE DEF g
<1>7. \A i \in 1 .. n + 1 : g[i] = NextRead(g[i - 1], w[i])
  <2> TAKE i \in 1 .. n + 1
  <2>1. CASE i <= n
    <3>1. i \in 1 .. n /\ i \in 0 .. n /\ i - 1 \in 0 .. n
      BY <1>2, <2>1
    <3> QED BY <1>2, <1>3, <1>6, <3>1
  <2>2. CASE ~(i <= n)
    <3>1. i = n + 1 /\ i - 1 = n /\ n \in 0 .. n
      BY <1>2, <2>2
    <3> QED BY <1>1, <1>2, <1>6, <3>1 DEF r
  <2> QED BY <2>1, <2>2
<1>8. g[0] = [value |-> TRUE, items |-> <<>>]
  <2>1. 0 \in 0 .. n
    BY <1>2
  <2> QED BY <1>3, <1>6, <2>1
<1>9. QueryPath(g, w) /\ g[Len(w)] = r
  BY <1>2, <1>6, <1>7, <1>8 DEF QueryPath
<1>10. ASSUME c \in Signs PROVE ReadsAs(w, x, c = "+")
  <2>1. r = [value |-> (c = "+"), items |-> x]
    BY <1>10 DEF r, NextRead, q
  <2> QED BY <1>9, <2>1 DEF ReadsAs
<1>11. ASSUME c \notin Signs PROVE ReadsAs(w, Append(x, [value |-> v, mode |-> c]), v)
  <2>1. r = [value |-> v, items |-> Append(x, [value |-> v, mode |-> c])]
    BY <1>11 DEF r, NextRead, q
  <2> QED BY <1>9, <2>1 DEF ReadsAs
<1> QED BY <1>10, <1>11 DEF w

LEMMA QueryIs ==
    ASSUME NEW s \in Seq(Char), NEW x, NEW v, ReadsAs(s, x, v)
    PROVE  SimpleQuery(s) = x
<1> DEFINE n == Len(s)
<1>1. PICK g : QueryPath(g, s) /\ g[n] = [value |-> v, items |-> x]
  BY DEF ReadsAs
<1>2. PICK h \in [0 .. Len(s) -> Query] :
              /\ h[0] = [value |-> TRUE, items |-> <<>>]
              /\ \A i \in 1 .. Len(s) :
                    h[i] = IF s[i] \in Signs THEN [h[i - 1] EXCEPT !.value = (s[i] = "+")]
                           ELSE [h[i - 1] EXCEPT !.items = Append(@, [value |-> h[i - 1].value, mode |-> s[i]])]
              /\ SimpleQuery(s) = h[Len(s)].items
  BY QueryFold
<1>3. \A i \in 1 .. n : h[i] = NextRead(h[i - 1], s[i])
  BY <1>2, Zenon DEF NextRead
<1>4. n \in Nat
  OBVIOUS
<1>5. g[0] = h[0] /\ \A i \in 1 .. n : g[i] = NextRead(g[i - 1], s[i])
  BY <1>1, <1>2 DEF QueryPath
<1>6. SimpleQuery(s) = h[n].items
  BY <1>2
<1> HIDE DEF n
<1> DEFINE K == {k \in Nat : k <= n => g[k] = h[k]}
<1>7. 0 \in K
  BY <1>5
<1>8. ASSUME NEW k \in Nat, k \in K PROVE k + 1 \in K
  <2> SUFFICES ASSUME k + 1 <= n PROVE g[k + 1] = h[k + 1]
    OBVIOUS
  <2>1. k + 1 \in 1 .. n /\ (k + 1) - 1 = k /\ k <= n
    BY <1>4
  <2>2. g[k] = h[k]
    BY <1>8, <2>1
  <2> QED BY <1>3, <1>5, <2>1, <2>2
<1>9. g[n] = h[n]
  <2> HIDE DEF K
  <2>1. \A k \in Nat : k \in K
    BY <1>7, <1>8, SetInduction
  <2>2. n \in K
    BY <1>4, <2>1
  <2> QED BY <1>4, <2>2 DEF K
<1> QED BY <1>1, <1>6, <1>9

-----------------------------------------------------------------------------
(* The changes that are written *)

\* The letters of the changes that can be applied, and changes that were.
Known == SimpleModes \cup {"k", "l"} \cup ListModes \cup MemberModes
Applied(list) ==
    /\ list \in Seq(Changes)
    /\ \A j \in 1 .. Len(list) :
          /\ list[j].kind = "change" /\ list[j].mode \in Known
          /\ list[j].param # <<>> <=> Takes(list[j].value, list[j].mode)

\* What the notice has after the first k changes: their letters, with the signs, and their
\* parameters.
Writing == [modes : Seq(Char), params : Seq(Seq(Char)), last : BOOLEAN]
Letter(c) == [value |-> c.value, mode |-> c.mode]
ModesWritten(list, k, w) ==
    /\ \A i \in 1 .. Len(w.modes) : w.modes[i] \in Known \cup Signs
    /\ k > 0 => w.modes # <<>>
    /\ ReadsAs(w.modes, [j \in 1 .. k |-> Letter(list[j])], w.last)
GivenWritten(list, k, w) ==
    /\ Len(w.params) = Rank(TakersOf(list), k)
    /\ \A j \in UpTo(TakersOf(list), k) : w.params[Rank(TakersOf(list), j)] = list[j].param

LEMMA LettersMore ==
    ASSUME NEW S, NEW k \in Nat, NEW f, NEW g, f = [j \in 1 .. k |-> g[j]],
           \A j \in 1 .. k + 1 : g[j] \in S
    PROVE  [j \in 1 .. k + 1 |-> g[j]] = Append(f, g[k + 1])
<1> DEFINE a == [j \in 1 .. k + 1 |-> g[j]]
           b == Append(f, g[k + 1])
<1>1. f \in Seq(S) /\ Len(f) = k /\ \A j \in 1 .. k : f[j] = g[j]
  OBVIOUS
<1>2. a \in Seq(S) /\ Len(a) = k + 1 /\ \A j \in 1 .. k + 1 : a[j] = g[j]
  OBVIOUS
<1>3. g[k + 1] \in S
  OBVIOUS
<1>4. b \in Seq(S) /\ Len(b) = k + 1 /\ b[k + 1] = g[k + 1] /\ \A j \in 1 .. k : b[j] = f[j]
  BY <1>1, <1>3
<1> HIDE DEF a, b
<1>5. \A j \in 1 .. k + 1 : a[j] = b[j]
  <2>1. \A j \in 1 .. k + 1 : j \in 1 .. k \/ j = k + 1
    OBVIOUS
  <2> QED BY <1>1, <1>2, <1>4, <2>1
<1>6. a = b
  BY <1>2, <1>4, <1>5
<1> QED BY <1>6 DEF a, b

LEMMA KnownIsChar ==
    /\ Known \cup Signs \subseteq Char /\ Known \cap Signs = {}
    /\ \A c \in Known \cup Signs : c \notin {"NUL", "CR", "LF", ":"} /\ c # Space
<1>1. Known \cap Signs = {}
  BY DEF Known, Signs, SimpleModes, ListModes, MemberModes
<1>2. Known \cup Signs \subseteq Char
  BY DEF Known, Signs, SimpleModes, ListModes, MemberModes, Char
<1>3. \A c \in Known \cup Signs : c \notin {"NUL", "CR", "LF", ":"}
  BY DEF Known, Signs, SimpleModes, ListModes, MemberModes
<1>4. \A c \in Known \cup Signs : c # Space
  BY Zenon DEF Known, Signs, SimpleModes, ListModes, MemberModes, Space
<1> QED BY <1>1, <1>2, <1>3, <1>4

LEMMA ModesWrittenMore ==
    ASSUME NEW list, Applied(list), NEW k \in Nat, k + 1 <= Len(list), NEW w \in Writing,
           ModesWritten(list, k, w)
    PROVE  ModesWritten(list, k + 1, WriteChange(w, list[k + 1]))
<1> DEFINE c == list[k + 1]
           sign == IF c.value THEN "+" ELSE "-"
           m == w.modes
           m1 == Append(m, sign)
           r == WriteChange(w, c)
           x == [j \in 1 .. k |-> Letter(list[j])]
           y == [j \in 1 .. k + 1 |-> Letter(list[j])]
           v == w.last
<1>1. c \in Changes /\ c.mode \in Known /\ k + 1 \in 1 .. Len(list)
  BY DEF Applied
<1>2. c.value \in BOOLEAN /\ c.mode \in Char /\ c.mode \notin Signs /\ sign \in Signs /\ sign \in Char
  BY <1>1, KnownIsChar DEF Changes, Signs
<1>3. (sign = "+") = c.value
  BY <1>2
<1>4. m \in Seq(Char) /\ v \in BOOLEAN /\ m1 \in Seq(Char)
  BY <1>2 DEF Writing
<1>5. r.modes = (m \o (IF v # c.value \/ m = <<>> THEN <<sign>> ELSE <<>>)) \o <<c.mode>>
      /\ r.last = c.value
  BY DEF WriteChange
<1>6. y = Append(x, Letter(c))
  <2> DEFINE g == [j \in 1 .. k + 1 |-> Letter(list[j])]
  <2>1. \A j \in 1 .. k + 1 : g[j] \in Item
    <3> SUFFICES ASSUME NEW j \in 1 .. k + 1 PROVE Letter(list[j]) \in Item
      OBVIOUS
    <3>1. j \in 1 .. Len(list) /\ list \in Seq(Changes)
      BY DEF Applied
    <3>2. list[j] \in Changes
      BY <3>1
    <3> QED BY <3>2 DEF Letter, Item, Changes
  <2>2. x = [j \in 1 .. k |-> g[j]] /\ y = [j \in 1 .. k + 1 |-> g[j]] /\ g[k + 1] = Letter(c)
    OBVIOUS
  <2> HIDE DEF g, x, y, c
  <2> QED BY <2>1, <2>2, LettersMore
<1>7. /\ \A i \in 1 .. Len(m) : m[i] \in Known \cup Signs
      /\ ReadsAs(m, x, v)
  BY DEF ModesWritten
<1> HIDE DEF c, sign, m, r, x, y, v
<1>8. CASE v # c.value \/ m = <<>>
  <2>1. r.modes = Append(m1, c.mode)
    <3>1. r.modes = (m \o <<sign>>) \o <<c.mode>>
      BY <1>5, <1>8
    <3>2. m \o <<sign>> = m1
      BY <1>2, <1>4, AppendIsConcat
    <3> HIDE DEF m1
    <3>3. m1 \o <<c.mode>> = Append(m1, c.mode)
      BY <1>2, <1>4, AppendIsConcat
    <3> QED BY <3>1, <3>2, <3>3
  <2>2. ReadsAs(m1, x, c.value)
    BY <1>2, <1>3, <1>4, <1>7, ReadsMore
  <2>3. \A i \in 1 .. Len(m1) : m1[i] \in Known \cup Signs
    <3>1. Len(m1) = Len(m) + 1 /\ m1[Len(m) + 1] = sign /\ Len(m) \in Nat
          /\ \A i \in 1 .. Len(m) : m1[i] = m[i]
      BY <1>2, <1>4
    <3>2. \A i \in 1 .. Len(m1) : i \in 1 .. Len(m) \/ i = Len(m) + 1
      BY <3>1
    <3> QED BY <1>2, <1>7, <3>1, <3>2
  <2> HIDE DEF m1
  <2>4. ReadsAs(r.modes, y, c.value)
    BY <1>2, <1>4, <1>6, <2>1, <2>2, ReadsMore DEF Letter
  <2>5. r.modes # <<>> /\ \A i \in 1 .. Len(r.modes) : r.modes[i] \in Known \cup Signs
    <3> DEFINE u == Append(m1, c.mode)
    <3>1. Len(u) = Len(m1) + 1 /\ u[Len(m1) + 1] = c.mode /\ Len(m1) \in Nat
          /\ \A i \in 1 .. Len(m1) : u[i] = m1[i]
      BY <1>2, <1>4
    <3>2. \A i \in 1 .. Len(u) : i \in 1 .. Len(m1) \/ i = Len(m1) + 1
      BY <3>1
    <3>3. u # <<>>
      BY <1>2, <1>4
    <3> HIDE DEF u
    <3>4. \A i \in 1 .. Len(u) : u[i] \in Known \cup Signs
      BY <1>1, <2>3, <3>1, <3>2
    <3> QED BY <2>1, <3>3, <3>4 DEF u
  <2> QED BY <1>5, <2>4, <2>5 DEF ModesWritten, r, y, c
<1>9. CASE ~(v # c.value \/ m = <<>>)
  <2>1. r.modes = Append(m, c.mode)
    <3>1. r.modes = (m \o <<>>) \o <<c.mode>>
      BY <1>5, <1>9
    <3>2. m \o <<>> = m
      BY <1>4
    <3>3. m \o <<c.mode>> = Append(m, c.mode)
      BY <1>2, <1>4, AppendIsConcat
    <3> QED BY <3>1, <3>2, <3>3
  <2>2. ReadsAs(m, x, c.value)
    BY <1>7, <1>9
  <2>4. ReadsAs(r.modes, y, c.value)
    BY <1>2, <1>4, <1>6, <2>1, <2>2, ReadsMore DEF Letter
  <2>5. r.modes # <<>> /\ \A i \in 1 .. Len(r.modes) : r.modes[i] \in Known \cup Signs
    <3> DEFINE u == Append(m, c.mode)
    <3>1. Len(u) = Len(m) + 1 /\ u[Len(m) + 1] = c.mode /\ Len(m) \in Nat
          /\ \A i \in 1 .. Len(m) : u[i] = m[i]
      BY <1>2, <1>4
    <3>2. \A i \in 1 .. Len(u) : i \in 1 .. Len(m) \/ i = Len(m) + 1
      BY <3>1
    <3>3. u # <<>>
      BY <1>2, <1>4
    <3> HIDE DEF u
    <3>4. \A i \in 1 .. Len(u) : u[i] \in Known \cup Signs
      BY <1>1, <1>7, <3>1, <3>2
    <3> QED BY <2>1, <3>3, <3>4 DEF u
  <2> QED BY <1>5, <2>4, <2>5 DEF ModesWritten, r, y, c
<1> QED BY <1>8, <1>9

\* h is the notice after each of the changes written to it.
NoticePath(h, list, n) ==
    /\ h \in [0 .. n -> Writing] /\ h[0] = [modes |-> <<>>, params |-> <<>>, last |-> TRUE]
    /\ \A i \in 1 .. n : h[i] = WriteChange(h[i - 1], list[i])

LEMMA NoticeFold ==
    ASSUME NEW list \in Seq(Changes)
    PROVE  \E h : NoticePath(h, list, Len(list)) /\ Written(list) = h[Len(list)]
<1> DEFINE Next(q, c) == WriteChange(q, c)
           base == [modes |-> <<>>, params |-> <<>>, last |-> TRUE]
           n == Len(list)
           F(g) == [T \in SUBSET (1 .. n) |->
                      IF T = {} THEN base ELSE Next(g[T \ {Max(T)}], list[Max(T)])]
           g0 == CHOOSE g : g = F(g)
           st == [i \in 1 .. n |-> [q \in Writing |-> Next(q, list[i])]]
<1>1. Written(list) = g0[1 .. n]
  <2>1. DOMAIN (list) = 1 .. n
    OBVIOUS
  <2> QED BY <2>1, Zenon DEF Written, FoldLeft, MapThenFoldSet
<1>2. base \in Writing
  BY DEF Writing
<1>3. ASSUME NEW q \in Writing, NEW c \in Changes PROVE Next(q, c) \in Writing
  <2> DEFINE sign == IF c.value THEN "+" ELSE "-"
             a == IF q.last # c.value \/ q.modes = <<>> THEN <<sign>> ELSE <<>>
             p == IF c.param = <<>> THEN q.params ELSE Append(q.params, c.param)
             m == (q.modes \o a) \o <<c.mode>>
  <2>1. q.modes \in Seq(Char) /\ q.params \in Seq(Seq(Char)) /\ c.mode \in Char
        /\ c.param \in Seq(Char) /\ c.value \in BOOLEAN
    BY DEF Writing, Changes
  <2>2. sign \in Char
    BY DEF Char
  <2> HIDE DEF sign
  <2>3. a \in Seq(Char)
    BY <2>2
  <2> HIDE DEF a
  <2>4. m \in Seq(Char)
    BY <2>1, <2>3
  <2>5. p \in Seq(Seq(Char))
    <3> DEFINE S == Seq(Char)
    <3>1. q.params \in Seq(S) /\ c.param \in S
      BY <2>1
    <3> HIDE DEF S
    <3>2. p \in Seq(S)
      BY <3>1
    <3> QED BY <3>2 DEF S
  <2>6. Next(q, c) = [modes |-> m, params |-> p, last |-> c.value]
    BY Zenon DEF WriteChange, a, sign
  <2> HIDE DEF m, p, Next
  <2> QED BY <2>1, <2>4, <2>5, <2>6 DEF Writing
<1>4. st \in [1 .. n -> [Writing -> Writing]] /\ n \in Nat
  <2>1. \A i \in 1 .. n : list[i] \in Changes
    OBVIOUS
  <2> HIDE DEF Next
  <2> QED BY <1>3, <2>1
<1>5. \A i \in 1 .. n, q \in Writing : st[i][q] = Next(q, list[i])
  OBVIOUS
<1> HIDE DEF Next, base, st, n
<1>6. Steps(n, Writing, base, st)
  BY <1>2, <1>4 DEF Steps
<1>7. \E g : g = F(g)
  <2>1. PICK g : IsFold(g, n, Writing, base, st)
    BY <1>6, FoldExists
  <2>2. /\ g \in [SUBSET (1 .. n) -> Writing]
        /\ \A T \in SUBSET (1 .. n) : g[T] = IF T = {} THEN base ELSE st[Max(T)][g[T \ {Max(T)}]]
    BY <2>1 DEF IsFold
  <2>3. ASSUME NEW T \in SUBSET (1 .. n), T # {} PROVE g[T] = Next(g[T \ {Max(T)}], list[Max(T)])
    <3>1. Max(T) \in 1 .. n /\ g[T \ {Max(T)}] \in Writing
      BY <1>4, <2>2, <2>3, MaxIn
    <3> QED BY <1>5, <2>2, <2>3, <3>1
  <2> QED BY <2>2, <2>3
<1>8. g0 = F(g0)
  BY <1>7
<1> HIDE DEF g0
<1>9. g0[{}] = base
  <2> {} \in SUBSET (1 .. n)
    OBVIOUS
  <2> QED BY <1>8
<1>10. ASSUME NEW T \in SUBSET (1 .. n), T # {}, g0[T \ {Max(T)}] \in Writing
       PROVE  g0[T] = st[Max(T)][g0[T \ {Max(T)}]]
  <2>1. Max(T) \in 1 .. n
    BY <1>4, <1>10, MaxIn
  <2> QED BY <1>5, <1>8, <1>10, <2>1
<1>11. FollowsSteps(g0, n, Writing, base, st)
  BY <1>9, <1>10 DEF FollowsSteps
<1>12. PICK h : FoldValues(h, n, Writing, base, st) /\ h[n] = g0[1 .. n]
  BY <1>6, <1>11, FoldRun
<1>13. h \in [0 .. n -> Writing] /\ h[0] = base /\ \A i \in 1 .. n : h[i] = st[i][h[i - 1]]
  BY <1>12 DEF FoldValues
<1>14. \A i \in 1 .. n : h[i] = Next(h[i - 1], list[i])
  <2> \A i \in 1 .. n : h[i - 1] \in Writing
    BY <1>4, <1>13
  <2> QED BY <1>5, <1>13
<1>15. NoticePath(h, list, n)
  BY <1>13, <1>14 DEF Next, base, NoticePath
<1>16. h[n] = Written(list)
  BY <1>1, <1>12
<1>17. NoticePath(h, list, Len(list)) /\ Written(list) = h[Len(list)]
  BY <1>15, <1>16 DEF n
<1> QED BY <1>17

LEMMA GivenWrittenMore ==
    ASSUME NEW list, Applied(list), NEW k \in Nat, k + 1 <= Len(list), NEW w \in Writing,
           GivenWritten(list, k, w)
    PROVE  GivenWritten(list, k + 1, WriteChange(w, list[k + 1]))
<1> DEFINE c == list[k + 1]
           r == WriteChange(w, c)
           p == w.params
           L == TakersOf(list)
           n == Len(list)
           S == Seq(Char)
<1>1. /\ n \in Nat /\ L \in SUBSET (1 .. n) /\ k + 1 \in 1 .. n
      /\ c.param # <<>> <=> k + 1 \in L
      /\ c.param \in S
  <2>1. list \in Seq(Changes) /\ k + 1 \in 1 .. Len(list)
    BY DEF Applied
  <2>2. c \in Changes
    BY <2>1
  <2>3. c.param # <<>> <=> Takes(c.value, c.mode)
    BY <2>1 DEF Applied
  <2> QED BY <2>1, <2>2, <2>3 DEF TakersOf, Changes
<1>2. p \in Seq(S) /\ Len(p) \in Nat
  BY DEF Writing
<1>3. /\ Len(p) = Rank(L, k) /\ \A j \in UpTo(L, k) : p[Rank(L, j)] = list[j].param
  BY DEF GivenWritten
<1>4. r.params = IF c.param = <<>> THEN p ELSE Append(p, c.param)
  BY DEF WriteChange
<1> HIDE DEF c, p, L, n, S, r
<1>5. \A j \in UpTo(L, k) : Rank(L, j) \in 1 .. Len(p)
  <2> SUFFICES ASSUME NEW j \in UpTo(L, k) PROVE Rank(L, j) \in 1 .. Len(p)
    OBVIOUS
  <2>1. j \in L /\ j <= k /\ j \in Nat
    BY <1>1 DEF UpTo
  <2>2. Rank(L, j) \in 1 .. Cardinality(L)
    BY <1>1, <2>1, RankOfMember
  <2>3. Rank(L, j) <= Rank(L, k)
    BY <1>1, <2>1, RankAscends
  <2> QED BY <1>2, <1>3, <2>2, <2>3
<1>6. CASE k + 1 \in L
  <2>1. Rank(L, k + 1) = Rank(L, k) + 1
    BY <1>1, <1>6, RankStep
  <2>2. r.params = Append(p, c.param)
    BY <1>1, <1>4, <1>6
  <2> DEFINE q == Append(p, c.param)
  <2>3. Len(q) = Len(p) + 1 /\ q[Len(p) + 1] = c.param /\ \A i \in 1 .. Len(p) : q[i] = p[i]
    BY <1>1, <1>2
  <2> HIDE DEF q
  <2>4. ASSUME NEW j \in UpTo(L, k + 1) PROVE q[Rank(L, j)] = list[j].param
    <3>1. j = k + 1 \/ j \in UpTo(L, k)
      <4>1. j \in L /\ j <= k + 1 /\ j \in Nat
        BY <1>1 DEF UpTo
      <4>2. j = k + 1 \/ j <= k
        BY <4>1
      <4> QED BY <4>1, <4>2 DEF UpTo
    <3>2. CASE j = k + 1
      BY <1>3, <2>1, <2>3, <3>2 DEF c
    <3>3. CASE j \in UpTo(L, k)
      BY <1>3, <1>5, <2>3, <3>3
    <3> QED BY <3>1, <3>2, <3>3
  <2>5. Len(q) = Rank(L, k + 1)
    BY <1>3, <2>1, <2>3
  <2>6. r.params = q
    BY <2>2 DEF q
  <2> QED BY <2>4, <2>5, <2>6 DEF GivenWritten, L, r, c
<1>7. CASE k + 1 \notin L
  <2>1. Rank(L, k + 1) = Rank(L, k)
    BY <1>1, <1>7, RankStep
  <2>2. r.params = p
    BY <1>1, <1>4, <1>7
  <2>3. UpTo(L, k + 1) = UpTo(L, k)
    <3>1. \A j \in L : j <= k + 1 <=> j <= k
      <4> SUFFICES ASSUME NEW j \in L PROVE j <= k + 1 <=> j <= k
        OBVIOUS
      <4>1. j \in Nat /\ j # k + 1
        BY <1>1, <1>7
      <4> QED BY <4>1
    <3> QED BY <3>1 DEF UpTo
  <2> QED BY <1>3, <2>1, <2>2, <2>3 DEF GivenWritten, L, r, c
<1> QED BY <1>6, <1>7

\* The notice has the letters and the parameters of all the changes.
LEMMA AllWritten ==
    ASSUME NEW list, Applied(list)
    PROVE  /\ Written(list) \in Writing /\ ModesWritten(list, Len(list), Written(list))
           /\ GivenWritten(list, Len(list), Written(list))
<1> DEFINE n == Len(list)
<1>1. list \in Seq(Changes) /\ n \in Nat
  BY DEF Applied
<1>0. PICK h : NoticePath(h, list, n) /\ Written(list) = h[n]
  BY <1>1, NoticeFold
<1>2. /\ h \in [0 .. n -> Writing] /\ h[0] = [modes |-> <<>>, params |-> <<>>, last |-> TRUE]
      /\ (\A i \in 1 .. n : h[i] = WriteChange(h[i - 1], list[i]))
      /\ Written(list) = h[n]
  BY <1>0 DEF NoticePath
<1>3. n = Len(list)
  OBVIOUS
<1> HIDE DEF n
<1> DEFINE Good(k) == ModesWritten(list, k, h[k]) /\ GivenWritten(list, k, h[k])
           K == {k \in Nat : k <= n => Good(k)}
<1>4. 0 \in K
  <2> DEFINE e == <<>>
             L == TakersOf(list)
  <2>1. h[0].modes = e /\ h[0].params = e /\ h[0].last = TRUE /\ Len(e) = 0
    BY <1>2
  <2>2. ReadsAs(e, e, TRUE)
    BY ReadsNothing
  <2>3. [j \in 1 .. 0 |-> Letter(list[j])] = e
    OBVIOUS
  <2>4. ModesWritten(list, 0, h[0])
    <3> HIDE DEF e
    <3>1. \A i \in 1 .. Len(e) : FALSE
      BY <2>1
    <3>2. ~(0 > 0)
      OBVIOUS
    <3> QED BY <2>1, <2>2, <2>3, <3>1, <3>2 DEF ModesWritten
  <2>5. L \in SUBSET (1 .. n)
    BY <1>1, <1>3 DEF TakersOf
  <2> HIDE DEF L, e
  <2>6. Rank(L, 0) = 0 /\ UpTo(L, 0) = {}
    <3>1. \A j \in L : ~(j <= 0)
      BY <1>1, <2>5
    <3> QED BY <1>1, <2>5, <3>1, RankEnds DEF UpTo
  <2>7. GivenWritten(list, 0, h[0])
    BY <2>1, <2>6 DEF GivenWritten, L
  <2> QED BY <2>4, <2>7
<1>5. ASSUME NEW k \in Nat, k \in K PROVE k + 1 \in K
  <2> SUFFICES ASSUME k + 1 <= n PROVE Good(k + 1)
    OBVIOUS
  <2>1. k + 1 \in 1 .. n /\ (k + 1) - 1 = k /\ k <= n /\ k \in 0 .. n
    BY <1>1
  <2>2. h[k] \in Writing /\ h[k + 1] = WriteChange(h[k], list[k + 1])
    BY <1>2, <2>1
  <2>3. Good(k)
    BY <1>5, <2>1
  <2>4. ModesWritten(list, k + 1, h[k + 1])
    BY <1>3, <2>2, <2>3, ModesWrittenMore
  <2>5. GivenWritten(list, k + 1, h[k + 1])
    BY <1>3, <2>2, <2>3, GivenWrittenMore
  <2> QED BY <2>4, <2>5
<1>6. Good(n)
  <2> HIDE DEF K, Good
  <2>1. \A k \in Nat : k \in K
    BY <1>4, <1>5, SetInduction
  <2>2. n \in K
    BY <1>1, <2>1
  <2> QED BY <1>1, <2>2 DEF K
<1>7. h[n] \in Writing
  BY <1>1, <1>2
<1> QED BY <1>2, <1>3, <1>6, <1>7

-----------------------------------------------------------------------------
(* What is heard of a notice *)

LEMMA CatIsTyped == ASSUME NEW S, NEW a \in Seq(S), NEW b \in Seq(S) PROVE a \o b \in Seq(S)
OBVIOUS

LEMMA NoneIsEmpty ==
    ASSUME NEW words \in Seq(Seq(Char)), \A i \in 1 .. Len(words) : words[i] # <<>>
    PROVE  non_empty(words) = words
<1> DEFINE S == Seq(Char)
<1>1. \A i \in 1 .. Len(words) : words[i] \in NonEmpty
  BY DEF NonEmpty
<1>2. words \in Seq(S)
  OBVIOUS
<1>3. Sift(words, NonEmpty) = words
  <2> HIDE DEF S
  <2> QED BY <1>1, <1>2, SiftAll
<1> QED BY <1>3, NonEmptyIsSift

\* The first parameters are heard, up to the limit on their number.
HeardOf(heard, w) ==
    /\ heard # <<>> /\ Head(heard) = w.modes
    /\ Tail(heard) \in Seq(Seq(Char)) /\ Len(Tail(heard)) <= Len(w.params)
    /\ Len(Tail(heard)) = Len(w.params) \/ Len(Tail(heard)) = ParamsLength - 1
    /\ \A i \in 1 .. Len(Tail(heard)) : Tail(heard)[i] = w.params[i] /\ Tail(heard)[i] # <<>>

LEMMA FirstsHeard ==
    ASSUME NEW w \in Writing, NEW q, q = <<w.modes>> \o w.params,
           \A i \in 1 .. Len(q) : q[i] # <<>>
    PROVE  HeardOf(Firsts(q), w)
<1> DEFINE S == Seq(Char)
           P == w.params
           N == ParamsLength
           M == Min({N, Len(q)})
           h == Firsts(q)
           t == Tail(h)
<1>1. P \in Seq(S) /\ w.modes \in S /\ Len(P) \in Nat
  BY DEF Writing
<1>2. N \in Nat /\ N >= 2
  BY ParamsAssumption
<1>3. q \in Seq(S) /\ Len(q) = 1 + Len(P) /\ q[1] = w.modes /\ \A i \in 1 .. Len(P) : q[1 + i] = P[i]
  <2> DEFINE m == <<w.modes>>
  <2>1. m \in Seq(S) /\ Len(m) = 1 /\ m[1] = w.modes /\ q = m \o P
    BY <1>1
  <2> HIDE DEF m, S, P
  <2>2. q \in Seq(S)
    BY <1>1, <2>1, CatIsTyped
  <2> QED BY <1>1, <2>1, <2>2, AfterOne
<1>4. (M = N \/ M = Len(q)) /\ M <= N /\ M <= Len(q) /\ M \in Nat
  <2> DEFINE T == {N, Len(q)}
  <2>1. T \in SUBSET Nat /\ T # {}
    BY <1>1, <1>2, <1>3
  <2>2. N \in T /\ Len(q) \in T /\ (\A x \in T : x = N \/ x = Len(q))
    OBVIOUS
  <2> HIDE DEF T
  <2>3. Min(T) \in T /\ \A x \in T : Min(T) <= x
    BY <2>1, MinFacts
  <2> QED BY <2>1, <2>2, <2>3 DEF T
<1>5. h = SubSeq(q, 1, M)
  BY DEF Firsts
<1> HIDE DEF P, N, M, h, S
<1>6. h \in Seq(S) /\ Len(h) = M /\ M >= 1 /\ \A i \in 1 .. M : h[i] = q[i]
  BY <1>1, <1>2, <1>3, <1>4, <1>5
<1>7. h # <<>> /\ Head(h) = w.modes
  BY <1>3, <1>4, <1>6
<1>8. t \in Seq(S) /\ Len(t) = M - 1 /\ \A i \in 1 .. M - 1 : t[i] = h[i + 1]
  BY <1>4, <1>6, <1>7
<1> HIDE DEF t
<1>9. Len(t) <= Len(P) /\ (Len(t) = Len(P) \/ Len(t) = N - 1)
  <2>1. M - 1 <= Len(P) /\ (M - 1 = Len(P) \/ M - 1 = N - 1)
    BY <1>1, <1>2, <1>3, <1>4
  <2> QED BY <1>8, <2>1
<1>10. ASSUME NEW i \in 1 .. Len(t) PROVE t[i] = P[i] /\ t[i] # <<>>
  <2>1. i \in 1 .. M - 1 /\ i + 1 \in 1 .. M /\ i \in 1 .. Len(P) /\ i + 1 \in 1 .. Len(q) /\ 1 + i = i + 1
    BY <1>1, <1>3, <1>4, <1>8
  <2>2. t[i] = q[i + 1]
    BY <1>6, <1>8, <2>1
  <2>3. q[1 + i] = P[i]
    BY <1>3, <2>1
  <2> QED BY <2>1, <2>2, <2>3
<1> QED BY <1>7, <1>8, <1>9, <1>10 DEF HeardOf, t, h, P, N, S

\* The words of a notice.
LEMMA NoticeWords ==
    ASSUME NEW list, Applied(list), list # <<>>,
           \A j \in 1 .. Len(list) : list[j].param = <<>> \/ Single(list[j].param),
           NEW w, w = Written(list), NEW q, q = <<w.modes>> \o w.params
    PROVE  q \in Seq(Seq(Char)) /\ q # <<>> /\ \A i \in 1 .. Len(q) : Single(q[i])
<1> DEFINE S == Seq(Char)
           P == w.params
           m == w.modes
           L == TakersOf(list)
           n == Len(list)
<1>1. w \in Writing /\ ModesWritten(list, n, w) /\ GivenWritten(list, n, w)
  BY AllWritten
<1>2. n \in Nat /\ L \in SUBSET (1 .. n) /\ n > 0
  BY DEF Applied, TakersOf
<1>3. P \in Seq(S) /\ m \in S /\ m \in Seq(Char)
  BY <1>1 DEF Writing
<1>4. Single(m)
  <2>1. (\A i \in 1 .. Len(m) : m[i] \in Known \cup Signs) /\ m # <<>>
    BY <1>1, <1>2 DEF ModesWritten
  <2> HIDE DEF m
  <2>2. \A i \in 1 .. Len(m) : m[i] \notin {"NUL", "CR", "LF", ":"} /\ m[i] # Space
    BY <2>1, KnownIsChar
  <2>3. 1 \in 1 .. Len(m)
    BY <1>3, <2>1
  <2>4. Inner(m)
    BY <1>3, <2>2 DEF Inner
  <2>5. Lacks(m, Space)
    BY <1>3, <2>2 DEF Lacks
  <2>6. m[1] # ":"
    BY <2>2, <2>3
  <2> QED BY <2>1, <2>4, <2>5, <2>6 DEF Single
<1>5. /\ Len(P) = Rank(L, n) /\ \A j \in UpTo(L, n) : P[Rank(L, j)] = list[j].param
  BY <1>1 DEF GivenWritten
<1>6. \A j \in L : list[j].param # <<>>
  BY DEF Applied, TakersOf
<1> HIDE DEF P, m, L, n, S
<1>7. ASSUME NEW i \in 1 .. Len(P) PROVE Single(P[i])
  <2>1. Rank(L, n) = Cardinality(L)
    BY <1>2, RankEnds
  <2>2. i \in 1 .. Cardinality(L)
    BY <1>5, <2>1
  <2>3. PICK j \in L : Rank(L, j) = i
    BY <1>2, <2>2, RankOnto
  <2>4. j \in UpTo(L, n) /\ j \in 1 .. n
    BY <1>2 DEF UpTo
  <2>5. P[i] = list[j].param
    BY <1>5, <2>3, <2>4
  <2>6. list[j].param = <<>> \/ Single(list[j].param)
    BY <2>4 DEF n
  <2> QED BY <1>6, <2>5, <2>6
<1> DEFINE o == <<m>>
<1>8. o \in Seq(S) /\ Len(o) = 1 /\ o[1] = m /\ q = o \o P
  BY <1>3 DEF m, P
<1> HIDE DEF o
<1>9. q \in Seq(S) /\ Len(q) = 1 + Len(P) /\ q[1] = m /\ Len(P) \in Nat
      /\ \A i \in 1 .. Len(P) : q[1 + i] = P[i]
  <2>1. q \in Seq(S)
    BY <1>3, <1>8, CatIsTyped
  <2> QED BY <1>3, <1>8, <2>1, AfterOne
<1>10. ASSUME NEW i \in 1 .. Len(q) PROVE Single(q[i])
  <2>1. CASE i = 1
    BY <1>4, <1>9, <2>1
  <2>2. CASE i # 1
    <3> DEFINE j == i - 1
    <3>1. j \in 1 .. Len(P) /\ i = 1 + j
      BY <1>9, <2>2
    <3> HIDE DEF j
    <3>2. q[i] = P[j]
      BY <1>9, <3>1
    <3> QED BY <1>7, <3>1, <3>2
  <2> QED BY <2>1, <2>2
<1>11. q # <<>>
  <2>1. Len(q) # 0
    BY <1>9
  <2> QED BY <1>9, <2>1
<1> QED BY <1>9, <1>10, <1>11 DEF S

LEMMA NoticeHeard ==
    ASSUME NEW list, Applied(list), list # <<>>,
           \A j \in 1 .. Len(list) : list[j].param = <<>> \/ Single(list[j].param),
           NEW w, w = Written(list), NEW q, q = <<w.modes>> \o w.params
    PROVE  HeardOf(parse(MessageBuffer_drop(FoldLeft(param, <<"MODE">>, q))).params, w)
<1> DEFINE c == <<"MODE">>
<1>1. q \in Seq(Seq(Char)) /\ q # <<>> /\ \A i \in 1 .. Len(q) : Single(q[i])
  BY NoticeWords
<1>2. Command(c) /\ Inner(c)
  <2>1. c \in Seq(Char) /\ Len(c) = 1 /\ c[1] = "MODE" /\ c # <<>>
    <3>1. "MODE" \in Char
      BY DEF Char
    <3> QED BY <3>1
  <2> HIDE DEF c
  <2>2. Inner(c)
    BY <2>1 DEF Inner
  <2>3. Lacks(c, Space)
    <3>1. "MODE" # Space
      BY Zenon DEF Space
    <3> QED BY <2>1, <3>1 DEF Lacks
  <2>4. Word(c)
    BY <2>1, <2>2, <2>3, InnerWord
  <2> QED BY <2>1, <2>2, <2>4 DEF Command
<1> HIDE DEF c
<1>3. parse(MessageBuffer_drop(FoldLeft(param, c, q))).params = Firsts(q)
  BY <1>1, <1>2, ListHeard
<1>4. w \in Writing
  BY AllWritten
<1>5. \A i \in 1 .. Len(q) : q[i] # <<>>
  BY <1>1 DEF Single
<1>6. HeardOf(Firsts(q), w)
  BY <1>4, <1>5, FirstsHeard
<1> QED BY <1>3, <1>6 DEF c

-----------------------------------------------------------------------------
(* The changes of a query that are applied *)

\* The n places e of a list of N, in their order, and those in L, which are also in T.
Chosen(e, n, N, L, T) ==
    /\ n \in Nat /\ N \in Nat /\ L \in SUBSET (1 .. n) /\ T \in SUBSET (1 .. N)
    /\ e \in [1 .. n -> 1 .. N] /\ \A i, j \in 1 .. n : i < j => e[i] < e[j]
    /\ \A j \in L : e[j] \in T

\* As many of the places are in L as in T.
LEMMA RanksKept ==
    ASSUME NEW e, NEW n, NEW N, NEW L, NEW T, Chosen(e, n, N, L, T), NEW k \in 1 .. n
    PROVE  Rank(L, k) <= Rank(T, e[k])
<1>1. /\ n \in Nat /\ N \in Nat /\ L \in SUBSET (1 .. n) /\ T \in SUBSET (1 .. N)
      /\ e \in [1 .. n -> 1 .. N] /\ (\A i, j \in 1 .. n : i < j => e[i] < e[j])
      /\ \A j \in L : e[j] \in T
  BY DEF Chosen
<1> DEFINE at(i) == IF i = 0 THEN 0 ELSE e[i]
           K == {i \in Nat : i <= n => Rank(L, i) <= Rank(T, at(i))}
<1>2. 0 \in K
  <2>1. Rank(L, 0) = 0 /\ Rank(T, 0) = 0
    BY <1>1, RankEnds
  <2> QED BY <2>1
<1>3. ASSUME NEW i \in Nat, i \in K PROVE i + 1 \in K
  <2> SUFFICES ASSUME i + 1 <= n PROVE Rank(L, i + 1) <= Rank(T, at(i + 1))
    OBVIOUS
  <2> DEFINE a == at(i)
             b == e[i + 1]
  <2>1. i + 1 \in 1 .. n /\ i <= n /\ b \in 1 .. N /\ at(i + 1) = b
    BY <1>1
  <2>2. a \in Nat /\ a < b
    <3>1. CASE i = 0
      BY <1>1, <2>1, <3>1
    <3>2. CASE i # 0
      <4>1. i \in 1 .. n /\ i < i + 1 /\ a = e[i]
        BY <1>1, <2>1, <3>2
      <4>2. e[i] < e[i + 1] /\ e[i] \in 1 .. N
        BY <1>1, <2>1, <4>1
      <4> QED BY <4>1, <4>2
    <3> QED BY <3>1, <3>2
  <2>3. Rank(L, i) <= Rank(T, a)
    BY <1>3, <2>1
  <2>4. /\ i + 1 \in L => b \in T
        /\ i + 1 \in L => Rank(L, i + 1) = Rank(L, i) + 1
        /\ i + 1 \notin L => Rank(L, i + 1) = Rank(L, i)
    BY <1>1, RankStep
  <2> HIDE DEF a, b, K, at
  <2>5. b \in Nat /\ b - 1 \in Nat /\ a <= b - 1 /\ a <= b
    BY <1>1, <2>1, <2>2
  <2>6. /\ Rank(T, a) <= Rank(T, b - 1) /\ Rank(T, a) <= Rank(T, b)
        /\ b \in T => Rank(T, b - 1) = Rank(T, b) - 1
    BY <1>1, <2>2, <2>5, RankAscends, RankOfMember
  <2>7. /\ Rank(L, i) \in Nat /\ Rank(L, i + 1) \in Nat
        /\ Rank(T, a) \in Nat /\ Rank(T, b - 1) \in Nat /\ Rank(T, b) \in Nat
    BY <1>1, UpToIsFinite
  <2>8. CASE i + 1 \in L
    <3>1. Rank(L, i + 1) <= Rank(T, b - 1) + 1
      BY <2>3, <2>4, <2>6, <2>7, <2>8
    <3>2. Rank(T, b - 1) + 1 = Rank(T, b)
      BY <2>4, <2>6, <2>7, <2>8
    <3> QED BY <2>1, <3>1, <3>2
  <2>9. CASE i + 1 \notin L
    <3>1. Rank(L, i + 1) <= Rank(T, b)
      BY <2>3, <2>4, <2>6, <2>7, <2>9
    <3> QED BY <2>1, <3>1
  <2> QED BY <2>8, <2>9
<1>4. k \in K
  <2> HIDE DEF K
  <2>1. \A i \in Nat : i \in K
    BY <1>2, <1>3, SetInduction
  <2> QED BY <1>1, <2>1
<1> QED BY <1>1, <1>4

\* The changes that can be applied.
LEMMA WithoutChange ==
    ASSUME NEW v \in BOOLEAN, NEW m \in Char, NEW c, c = WithoutParam(v, m), c.kind = "change"
    PROVE  /\ c.value = v /\ c.mode = m /\ m \in Known
           /\ c.param # <<>> <=> Takes(v, m)
           /\ c.param = <<>> \/ c.param = <<"*">>
<1>1. CASE m \in SimpleModes \cup {"l"} /\ ~Takes(v, m)
  <2>1. c = [kind |-> "change", mode |-> m, value |-> v, param |-> <<>>]
    BY <1>1 DEF WithoutParam, Change
  <2> QED BY <1>1, <2>1 DEF Known
<1>2. CASE ~(m \in SimpleModes \cup {"l"} /\ ~Takes(v, m)) /\ m = "k" /\ ~v
  <2> DEFINE star == <<"*">>
  <2>1. c = [kind |-> "change", mode |-> m, value |-> v, param |-> star]
    BY <1>2 DEF WithoutParam, Change
  <2>2. Takes(v, m)
    BY <1>2 DEF Takes
  <2>3. star # <<>>
    OBVIOUS
  <2> HIDE DEF star
  <2>4. m \in Known
    BY <1>2 DEF Known
  <2>5. c.value = v /\ c.mode = m /\ c.param = star
    BY <2>1
  <2> QED BY <2>2, <2>3, <2>4, <2>5 DEF star
<1>3. CASE ~(m \in SimpleModes \cup {"l"} /\ ~Takes(v, m)) /\ ~(m = "k" /\ ~v)
  <2>1. c.kind \in {"get", "missing", "unknown"}
    BY <1>3 DEF WithoutParam, Change
  <2> QED BY <2>1
<1> QED BY <1>1, <1>2, <1>3

LEMMA WithChange ==
    ASSUME NEW v \in BOOLEAN, NEW m \in Char, Takes(v, m), NEW p, p # <<>>, NEW c,
           c = WithParam(v, m, p)
    PROVE  c.kind = "change" /\ c.value = v /\ c.mode = m /\ m \in Known /\ c.param = p
<1>1. m \in Known
  BY DEF Takes, Known
<1> QED BY <1>1, WithFacts

\* The changes that were applied, of those of a query: whatever has no parameter of its own
\* means the same without one.
AsRead(list) ==
    /\ Applied(list)
    /\ \A j \in 1 .. Len(list) :
          /\ list[j].param = <<>> \/ Single(list[j].param)
          /\ j \notin TakersOf(list) \/ Rank(TakersOf(list), j) >= ParamsLength =>
                list[j] = WithoutParam(list[j].value, list[j].mode)

\* One change of a query.
LEMMA ChangeIs ==
    ASSUME NEW X \in Seq(Item), NEW given \in Seq(Seq(Char)),
           \A i \in 1 .. Len(given) : Single(given[i]),
           NEW m \in 1 .. Len(X), NEW c, c = ChangeAt(X, given, m), c.kind = "change"
    PROVE  /\ c \in Changes /\ c.value = X[m].value /\ c.mode = X[m].mode /\ c.mode \in Known
           /\ c.param # <<>> <=> m \in TakersOf(X)
           /\ c.param = <<>> \/ Single(c.param)
           /\ m \notin TakersOf(X) \/ Rank(TakersOf(X), m) > Len(given) =>
                 c = WithoutParam(c.value, c.mode)
<1> DEFINE v == X[m].value
           l == X[m].mode
           T == TakersOf(X)
           r == Rank(T, m)
<1>1. v \in BOOLEAN /\ l \in Char /\ (m \in T <=> Takes(v, l))
  <2>1. X[m] \in Item
    OBVIOUS
  <2> QED BY <2>1 DEF Item, TakersOf
<1>2. T \in SUBSET (1 .. Len(X)) /\ Len(X) \in Nat /\ Len(given) \in Nat
  BY DEF TakersOf
<1>3. c = IF m \in T /\ r <= Len(given) THEN WithParam(v, l, given[r]) ELSE WithoutParam(v, l)
  BY DEF ChangeAt
<1> HIDE DEF v, l, T
<1>4. r \in Nat /\ (m \in T => r >= 1)
  <2>1. r \in Nat
    BY <1>2, UpToIsFinite
  <2>2. m \in T => r \in 1 .. Cardinality(T)
    BY <1>2, RankOfMember
  <2> HIDE DEF r
  <2> QED BY <2>1, <2>2
<1> HIDE DEF r
<1>5. CASE m \in T /\ r <= Len(given)
  <2> DEFINE p == given[r]
  <2>1. r \in 1 .. Len(given)
    BY <1>2, <1>4, <1>5
  <2>2. p \in Seq(Char) /\ Single(p)
    BY <2>1
  <2>3. c = WithParam(v, l, p)
    BY <1>3, <1>5
  <2> HIDE DEF p
  <2>4. p # <<>>
    BY <2>2 DEF Single
  <2>5. c.value = v /\ c.mode = l /\ l \in Known /\ c.param = p
    BY <1>1, <1>5, <2>3, <2>4, WithChange
  <2>6. c \in Changes
    BY <1>1, <2>2, <2>3 DEF WithParam, Change, Changes
  <2>7. ~(m \notin T \/ r > Len(given))
    BY <1>2, <1>4, <1>5
  <2> QED BY <1>5, <2>2, <2>4, <2>5, <2>6, <2>7 DEF v, l, T, r
<1>6. CASE ~(m \in T /\ r <= Len(given))
  <2>1. c = WithoutParam(v, l)
    BY <1>3, <1>6
  <2>2. c.value = v /\ c.mode = l /\ l \in Known /\ (c.param # <<>> <=> m \in T)
    BY <1>1, <2>1, WithoutChange
  <2>3. c.param = <<>> \/ c.param = <<"*">>
    BY <1>1, <2>1, WithoutChange
  <2>4. Single(<<"*">>)
    <3> DEFINE s == <<"*">>
    <3>1. s \in Seq(Char) /\ Len(s) = 1 /\ s[1] = "*" /\ s # <<>>
      BY StarIsChar
    <3> HIDE DEF s
    <3>2. Inner(s)
      BY <3>1 DEF Inner
    <3>3. Lacks(s, Space)
      <4>1. "*" # Space
        BY Zenon DEF Space
      <4> QED BY <3>1, <4>1 DEF Lacks
    <3>4. s[1] # ":"
      BY <3>1
    <3>5. Single(s)
      BY <3>1, <3>2, <3>3, <3>4 DEF Single
    <3> QED BY <3>5 DEF s
  <2>5. c \in Changes
    BY <1>1, <2>1, WithoutIsTyped
  <2>6. c.param = <<>> \/ Single(c.param)
    BY <2>3, <2>4
  <2>7. c = WithoutParam(c.value, c.mode)
    BY <2>1, <2>2
  <2> QED BY <2>2, <2>5, <2>6, <2>7 DEF v, l, T, r
<1> QED BY <1>5, <1>6

\* Those that are applied, of the changes C of a query X.
LEMMA PickedChanges ==
    ASSUME NEW X \in Seq(Item), NEW given \in Seq(Seq(Char)),
           \A i \in 1 .. Len(given) : Single(given[i]), Len(given) < ParamsLength,
           NEW C \in Seq(Changes), Len(C) = Len(X),
           \A m \in 1 .. Len(X) : C[m] = ChangeAt(X, given, m),
           NEW A, A \in SUBSET {i \in DOMAIN C : C[i].kind = "change"}
    PROVE  AsRead(Pick(C, A))
<1> DEFINE N == Len(X)
           n == Cardinality(A)
           list == Pick(C, A)
           e == [j \in 1 .. n |-> Ordinal(A, j)]
           L == TakersOf(list)
           T == TakersOf(X)
<1>1. N \in Nat /\ A \in SUBSET (1 .. N) /\ A \in SUBSET (DOMAIN C) /\ \A i \in A : C[i].kind = "change"
  OBVIOUS
<1>2. /\ list \in Seq(Changes) /\ Len(list) = n /\ n \in Nat
      /\ \A j \in 1 .. n : list[j] = C[Ordinal(A, j)]
  BY <1>1, PickFacts
<1>3. Ascends(e, n, A)
  BY <1>1, OrdinalsAscend
<1>4. e \in [1 .. n -> A] /\ \A i, j \in 1 .. n : i < j => e[i] < e[j]
  BY <1>3 DEF Ascends
<1>5. \A j \in 1 .. n : list[j] = C[e[j]] /\ e[j] \in A /\ e[j] \in 1 .. N
  BY <1>1, <1>2, <1>4
<1>6. T \in SUBSET (1 .. N)
  BY DEF TakersOf
<1>7. L \in SUBSET (1 .. n) /\ \A j \in 1 .. n : j \in L <=> Takes(list[j].value, list[j].mode)
  BY <1>2 DEF TakersOf
<1>8. \A i \in 1 .. N : i \in T <=> Takes(X[i].value, X[i].mode)
  BY DEF TakersOf
<1>9. N = Len(X)
  OBVIOUS
<1> HIDE DEF N, n, list, e, L, T
<1>10. ASSUME NEW j \in 1 .. n
       PROVE  /\ list[j].kind = "change" /\ list[j].mode \in Known
              /\ list[j].param # <<>> <=> e[j] \in T
              /\ list[j].param = <<>> \/ Single(list[j].param)
              /\ e[j] \notin T \/ Rank(T, e[j]) > Len(given) =>
                    list[j] = WithoutParam(list[j].value, list[j].mode)
              /\ j \in L <=> e[j] \in T
  <2> DEFINE i == e[j]
             c == C[i]
  <2>1. list[j] = c /\ c = ChangeAt(X, given, i) /\ c.kind = "change" /\ i \in 1 .. Len(X) /\ i \in 1 .. N
    BY <1>1, <1>5, <1>9
  <2> HIDE DEF i, c
  <2>2. /\ c.value = X[i].value /\ c.mode = X[i].mode /\ c.mode \in Known
        /\ c.param # <<>> <=> i \in TakersOf(X)
        /\ c.param = <<>> \/ Single(c.param)
        /\ i \notin TakersOf(X) \/ Rank(TakersOf(X), i) > Len(given) =>
              c = WithoutParam(c.value, c.mode)
    BY <2>1, ChangeIs
  <2>3. j \in L <=> i \in T
    BY <1>7, <1>8, <2>1, <2>2
  <2> QED BY <2>1, <2>2, <2>3 DEF T, i
<1>11. Chosen(e, n, N, L, T)
  <2>1. e \in [1 .. n -> 1 .. N]
    BY <1>1, <1>4
  <2>2. \A j \in L : e[j] \in T
    BY <1>7, <1>10
  <2> QED BY <1>1, <1>2, <1>4, <1>6, <1>7, <2>1, <2>2 DEF Chosen
<1>12. ASSUME NEW j \in 1 .. n, j \notin L \/ Rank(L, j) >= ParamsLength
       PROVE  list[j] = WithoutParam(list[j].value, list[j].mode)
  <2>1. CASE j \notin L
    BY <1>10, <2>1
  <2>2. CASE Rank(L, j) >= ParamsLength
    <3>1. Rank(L, j) <= Rank(T, e[j])
      BY <1>11, RanksKept
    <3>2. Rank(L, j) \in Nat /\ Rank(T, e[j]) \in Nat
      BY <1>1, <1>2, <1>6, <1>7, UpToIsFinite
    <3>4. ParamsLength \in Nat /\ Len(given) \in Nat
      BY ParamsAssumption
    <3>3. Rank(T, e[j]) > Len(given)
      BY <2>2, <3>1, <3>2, <3>4
    <3> QED BY <1>10, <3>3
  <2> QED BY <1>12, <2>1, <2>2
<1>13. Applied(list)
  <2>1. ASSUME NEW j \in 1 .. n
        PROVE  list[j].param # <<>> <=> Takes(list[j].value, list[j].mode)
    BY <1>7, <1>10
  <2> QED BY <1>2, <1>10, <2>1 DEF Applied
<1> QED BY <1>2, <1>10, <1>12, <1>13 DEF AsRead, L, list

-----------------------------------------------------------------------------
(* What is heard is what was applied *)

\* The letters that are heard are those of the changes.
LEMMA LettersHeard ==
    ASSUME NEW list, Applied(list), NEW w, w = Written(list), NEW Y, Y = SimpleQuery(w.modes)
    PROVE  /\ Y \in Seq(Item) /\ Len(Y) = Len(list)
           /\ \A j \in 1 .. Len(list) : Y[j].value = list[j].value /\ Y[j].mode = list[j].mode
           /\ TakersOf(Y) = TakersOf(list)
<1> DEFINE n == Len(list)
           y == [j \in 1 .. n |-> Letter(list[j])]
<1>1. w \in Writing /\ ModesWritten(list, n, w)
  BY AllWritten
<1>2. w.modes \in Seq(Char) /\ ReadsAs(w.modes, y, w.last)
  BY <1>1 DEF Writing, ModesWritten
<1>3. Y = y
  <2> HIDE DEF y
  <2> QED BY <1>2, QueryIs
<1>4. Y \in Seq(Item)
  BY <1>2, QueryFacts
<1>5. n \in Nat /\ DOMAIN list = 1 .. n
  BY DEF Applied
<1>6. DOMAIN Y = 1 .. n
  BY <1>3
<1>7. Len(Y) = n
  <2> HIDE DEF n, y
  <2> QED BY <1>4, <1>5, <1>6
<1>8. \A j \in 1 .. n : Y[j].value = list[j].value /\ Y[j].mode = list[j].mode
  <2> SUFFICES ASSUME NEW j \in 1 .. n PROVE Y[j].value = list[j].value /\ Y[j].mode = list[j].mode
    OBVIOUS
  <2>1. Y[j] = Letter(list[j])
    BY <1>3
  <2> HIDE DEF n, y
  <2> QED BY <2>1 DEF Letter
<1>9. TakersOf(Y) = TakersOf(list)
  <2> HIDE DEF n, y
  <2> QED BY <1>5, <1>6, <1>8 DEF TakersOf
<1> QED BY <1>4, <1>7, <1>8, <1>9

LEMMA ChangesHeard ==
    ASSUME NEW list, AsRead(list), NEW w, w = Written(list), NEW heard, HeardOf(heard, w)
    PROVE  channel_query(Head(heard), Tail(heard)) = list
<1> DEFINE n == Len(list)
           s == Head(heard)
           P == Tail(heard)
           Y == SimpleQuery(s)
           L == TakersOf(list)
           C == channel_query(s, P)
<1>0. Applied(list) /\ list \in Seq(Changes)
  BY DEF AsRead, Applied
<1>1. w \in Writing /\ GivenWritten(list, n, w)
  BY <1>0, AllWritten
<1>2. /\ s = w.modes /\ s \in Seq(Char) /\ P \in Seq(Seq(Char)) /\ Len(P) <= Len(w.params)
      /\ Len(P) = Len(w.params) \/ Len(P) = ParamsLength - 1
      /\ \A i \in 1 .. Len(P) : P[i] = w.params[i] /\ P[i] # <<>>
  BY <1>1 DEF HeardOf, Writing
<1>3. /\ Len(w.params) = Rank(L, n)
      /\ \A j \in UpTo(L, n) : w.params[Rank(L, j)] = list[j].param
  BY <1>1 DEF GivenWritten
<1>4. n \in Nat /\ L \in SUBSET (1 .. n)
  BY <1>0 DEF TakersOf
<1>5. /\ Y \in Seq(Item) /\ Len(Y) = n /\ TakersOf(Y) = L
      /\ \A j \in 1 .. n : Y[j].value = list[j].value /\ Y[j].mode = list[j].mode
  BY <1>0, <1>2, LettersHeard
<1>6. non_empty(P) = P
  BY <1>2, NoneIsEmpty
<1>7. C \in Seq(Changes) /\ Len(C) = n /\ \A m \in 1 .. n : C[m] = ChangeAt(Y, P, m)
  <2> HIDE DEF s, P
  <2> QED BY <1>2, <1>5, <1>6, ChannelFacts
<1>8. \A j \in 1 .. n : j \notin L \/ Rank(L, j) >= ParamsLength =>
                           list[j] = WithoutParam(list[j].value, list[j].mode)
  BY DEF AsRead
<1>9. \A j \in 1 .. n : list[j] \in Changes /\ list[j].kind = "change"
  BY <1>0 DEF Applied
<1>10. Len(P) \in Nat /\ ParamsLength \in Nat
  BY <1>2, ParamsAssumption
<1> HIDE DEF n, s, P, Y, L, C
<1>11. ASSUME NEW j \in 1 .. n PROVE C[j] = list[j]
  <2> DEFINE r == Rank(L, j)
             c == list[j]
  <2>1. C[j] = IF j \in L /\ r <= Len(P) THEN WithParam(c.value, c.mode, P[r])
               ELSE WithoutParam(c.value, c.mode)
    BY <1>5, <1>7 DEF ChangeAt
  <2>2. c \in Changes /\ c.kind = "change"
    BY <1>9
  <2>3. r \in Nat /\ Rank(L, n) \in Nat
    BY <1>4, UpToIsFinite
  <2>4. j \in L => r \in 1 .. Cardinality(L) /\ r <= Rank(L, n) /\ j \in UpTo(L, n)
    <3>1. j \in Nat /\ j <= n
      BY <1>4
    <3> QED BY <1>4, <3>1, RankOfMember, RankAscends DEF UpTo
  <2>5. j \notin L \/ r >= ParamsLength => c = WithoutParam(c.value, c.mode)
    BY <1>8
  <2>6. j \in L => w.params[r] = c.param
    BY <1>3, <2>4
  <2> HIDE DEF r, c
  <2>7. CASE j \in L /\ r <= Len(P)
    <3>1. r \in 1 .. Len(P)
      BY <1>10, <2>3, <2>4, <2>7
    <3>2. P[r] = c.param
      BY <1>2, <2>6, <2>7, <3>1
    <3>3. C[j] = WithParam(c.value, c.mode, c.param)
      BY <2>1, <2>7, <3>2
    <3>4. WithParam(c.value, c.mode, c.param) = c
      BY <2>2 DEF WithParam, Change, Changes
    <3> QED BY <3>3, <3>4 DEF c
  <2>8. CASE ~(j \in L /\ r <= Len(P))
    <3>1. j \notin L \/ r >= ParamsLength
      <4> SUFFICES ASSUME j \in L PROVE r >= ParamsLength
        OBVIOUS
      <4>1. r > Len(P) /\ r <= Rank(L, n)
        BY <1>10, <2>3, <2>4, <2>8
      <4>2. Len(P) = ParamsLength - 1
        BY <1>2, <1>3, <1>10, <2>3, <4>1
      <4> QED BY <1>10, <2>3, <4>1, <4>2
    <3> QED BY <2>1, <2>5, <2>8, <3>1 DEF c
  <2> QED BY <2>7, <2>8
<1>12. list \in Seq(Changes) /\ Len(list) = n
  BY <1>0 DEF n
<1>13. C = list
  BY <1>7, <1>11, <1>12
<1> QED BY <1>13 DEF C, s, P

\* The parameters of a query are as they were given.
NoticeIInv == TypedIInv /\ (job = "modes" => params \in ModeParams)

LEMMA NoticeRead ==
    ASSUME NoticeIInv
    PROVE  NoticeReadsAsApplied
<1> DEFINE C == channel_query(text, params)
           X == SimpleQuery(text)
           given == non_empty(params)
<1> SUFFICES ASSUME job = "modes", NEW A \in SUBSET {i \in DOMAIN C : C[i].kind = "change"}
             PROVE  LET list   == Pick(C, A)
                        w      == Written(list)
                        notice == FoldLeft(param, <<"MODE">>, <<w.modes>> \o w.params)
                        heard  == parse(MessageBuffer_drop(notice)).params
                    IN  list # <<>> => channel_query(Head(heard), Tail(heard)) = list
  BY Zenon DEF NoticeReadsAsApplied
<1> DEFINE list   == Pick(C, A)
           w      == Written(list)
           q      == <<w.modes>> \o w.params
           notice == FoldLeft(param, <<"MODE">>, q)
           heard  == parse(MessageBuffer_drop(notice)).params
<1> SUFFICES ASSUME list # <<>> PROVE channel_query(Head(heard), Tail(heard)) = list
  OBVIOUS
<1>1. text \in Seq(Char) /\ params \in Seq(Seq(Char)) /\ params \in ModeParams
  BY TypedChars DEF NoticeIInv
<1>2. /\ Len(params) < ParamsLength
      /\ \A n \in DOMAIN params : \A i \in DOMAIN params[n] :
            /\ params[n][i] \notin {"NUL", "CR", "LF"} /\ params[n][i] # Space
            /\ i = 1 => params[n][i] # ":"
  BY <1>1, QueryAssumption
<1>3. /\ given \in Seq(Seq(Char)) /\ Len(given) <= Len(params)
      /\ \A i \in 1 .. Len(given) : given[i] # <<>> /\ \E n \in DOMAIN params : given[i] = params[n]
  <2> DEFINE S == Seq(Char)
             I == {i \in DOMAIN params : params[i] # <<>>}
             N == Len(params)
  <2>1. params \in Seq(S) /\ I \in SUBSET (DOMAIN params) /\ N \in Nat /\ I \in SUBSET (1 .. N)
        /\ \A i \in I : params[i] # <<>>
    BY <1>1
  <2>2. given = Pick(params, I)
    BY DEF non_empty
  <2> HIDE DEF S, I, given, N
  <2>3. /\ given \in Seq(S) /\ Len(given) = Cardinality(I)
        /\ \A m \in 1 .. Cardinality(I) : given[m] = params[Ordinal(I, m)]
    BY <2>1, <2>2, PickFacts
  <2>4. \A m \in 1 .. Cardinality(I) : Ordinal(I, m) \in I
    BY <2>1, OrdinalFacts
  <2>5. Cardinality(I) <= N
    <3>1. IsFiniteSet(1 .. N) /\ Cardinality(1 .. N) = N
      BY <2>1, FS_Interval
    <3> QED BY <2>1, <3>1, FS_Subset
  <2> QED BY <2>1, <2>3, <2>4, <2>5 DEF S, N
<1>4. ASSUME NEW i \in 1 .. Len(given) PROVE Single(given[i])
  <2>1. PICK n \in DOMAIN params : given[i] = params[n]
    BY <1>3
  <2> DEFINE p == params[n]
  <2>2. p \in Seq(Char) /\ p # <<>> /\ p = given[i]
    <3> DEFINE S == Seq(Char)
    <3>1. params \in Seq(S)
      BY <1>1
    <3> HIDE DEF S, given
    <3>2. params[n] \in S
      BY <2>1, <3>1
    <3> QED BY <1>3, <2>1, <3>2 DEF S
  <2>3. \A j \in DOMAIN p : p[j] \notin {"NUL", "CR", "LF"} /\ p[j] # Space /\ (j = 1 => p[j] # ":")
    BY <1>2
  <2> HIDE DEF p
  <2>4. 1 \in DOMAIN p /\ DOMAIN p = 1 .. Len(p)
    BY <2>2
  <2>5. Inner(p) /\ Lacks(p, Space) /\ p[1] # ":"
    BY <2>2, <2>3, <2>4 DEF Inner, Lacks
  <2> QED BY <2>2, <2>5 DEF Single
<1>5. X \in Seq(Item)
  BY <1>1, QueryFacts
<1>6. /\ C \in Seq(Changes) /\ Len(C) = Len(X)
      /\ \A m \in 1 .. Len(X) : C[m] = ChangeAt(X, given, m)
  BY <1>1, <1>3, ChannelFacts
<1>7. Len(given) < ParamsLength
  BY <1>1, <1>2, <1>3, ParamsAssumption
<1>8. AsRead(list)
  <2> HIDE DEF C, X, given
  <2> QED BY <1>3, <1>4, <1>5, <1>6, <1>7, PickedChanges
<1>9. Applied(list) /\ \A j \in 1 .. Len(list) : list[j].param = <<>> \/ Single(list[j].param)
  BY <1>8 DEF AsRead
<1>10. HeardOf(heard, w)
  <2>1. list # <<>>
    OBVIOUS
  <2> HIDE DEF C, X, given, list
  <2> QED BY <1>9, <2>1, NoticeHeard
<1>11. channel_query(Head(heard), Tail(heard)) = list
  <2> HIDE DEF list, heard
  <2> QED BY <1>8, <1>10, ChangesHeard
<1> QED BY <1>11

\* Whichever changes of a MODE query are applied, the members of the channel are sent a query
\* that reads as exactly these changes.
THEOREM NoticesReadAsApplied == TextSpec => []NoticeReadsAsApplied
<1>1. TextInit /\ TypedIInv => NoticeIInv
  BY DEF TextInit, NoticeIInv
<1>2. NoticeIInv /\ TypedIInv' /\ [TextNext]_textVars => NoticeIInv'
  <2> SUFFICES ASSUME NoticeIInv, TypedIInv', [TextNext]_textVars PROVE NoticeIInv'
    OBVIOUS
  <2>1. ASSUME NEW c \in LineChars \cup TagChars \cup ModeChars, type_char(c) PROVE NoticeIInv'
    BY <2>1 DEF type_char, NoticeIInv
  <2>2. ASSUME NEW mask \in Masks, change_list(mask) PROVE NoticeIInv'
    BY <2>2 DEF change_list, NoticeIInv
  <2>3. CASE UNCHANGED textVars
    BY <2>3 DEF NoticeIInv, TypedIInv, textVars
  <2> QED BY <2>1, <2>2, <2>3 DEF TextNext
<1>3. NoticeIInv => NoticeReadsAsApplied
  BY NoticeRead
<1> QED BY <1>1, <1>2, <1>3, TypedInvariance, PTL DEF TextSpec

=============================================================================
