---------------------------- MODULE StringProofs ----------------------------
(***************************************************************************)
(* Proofs about Text, first part: the algorithms on strings, for texts of  *)
(* every length.  In order: splicing and cutting sequences; mask matching  *)
(* and mask lists; MODE queries; words, pieces and trimming; values of     *)
(* tags.                                                                   *)
(***************************************************************************)
EXTENDS Text, MapTheorems, FiniteSetTheorems, SequenceTheorems, FunctionTheorems

\* Any character, and the comma that the server writes.
Char == STRING \cup {Comma, Space, Semicolon} \cup
        {"@", ":", "=", "\\", "s", "r", "n", "+", "-", "*", "NUL", "CR", "LF", "MODE",
         "time", "msgid", "t", "d", "k", "x", "PRIVMSG", "TAGMSG",
         "i", "m", "l", "b", "e", "I", "o", "h", "v"}

-----------------------------------------------------------------------------
(* Parts of sequences *)

LEMMA CatFacts ==
    ASSUME NEW u \in Seq(Char), NEW v \in Seq(Char)
    PROVE  /\ u \o v \in Seq(Char) /\ Len(u \o v) = Len(u) + Len(v)
           /\ \A i \in 1 .. Len(u) : (u \o v)[i] = u[i]
           /\ \A i \in 1 .. Len(v) : (u \o v)[Len(u) + i] = v[i]
OBVIOUS

LEMMA CatAgain ==
    ASSUME NEW u \in Seq(Char), NEW v \in Seq(Char), NEW w \in Seq(Char)
    PROVE  (u \o v) \o w = u \o (v \o w)
BY ConcatAssociative

\* t is u followed by v.
IsCat(t, u, v) ==
    /\ Len(t) = Len(u) + Len(v) /\ \A i \in 1 .. Len(u) : t[i] = u[i]
    /\ \A i \in 1 .. Len(v) : t[Len(u) + i] = v[i]

LEMMA CatIsCat ==
    ASSUME NEW S, NEW u \in Seq(S), NEW v \in Seq(S)
    PROVE  u \o v \in Seq(S) /\ IsCat(u \o v, u, v)
BY DEF IsCat

\* Associativity by a name, so that it can be had for three sequences out of many.
Regroups(u, v, w) == (u \o v) \o w = u \o (v \o w)

LEMMA CatRegroups ==
    ASSUME NEW u \in Seq(Char), NEW v \in Seq(Char), NEW w \in Seq(Char)
    PROVE  Regroups(u, v, w)
BY CatAgain DEF Regroups

LEMMA MinFacts ==
    ASSUME NEW T \in SUBSET Nat, T # {}
    PROVE  Min(T) \in T /\ \A y \in T : Min(T) <= y
<1>1. \E x \in T : \A y \in T : x <= y
  BY LeastNumber
<1> QED BY <1>1 DEF Min

LEMMA Part ==
    ASSUME NEW s \in Seq(Char), NEW m \in Nat \ {0}, NEW k \in Nat, m <= k + 1, k <= Len(s)
    PROVE  /\ SubSeq(s, m, k) \in Seq(Char) /\ Len(SubSeq(s, m, k)) = k - m + 1
           /\ \A i \in 1 .. k - m + 1 : SubSeq(s, m, k)[i] = s[m + i - 1]
<1>1. \A i \in m .. k : s[i] \in Char
  OBVIOUS
<1> QED BY <1>1, SubSeqProperties

\* What is left after the first k characters.
LEMMA FromFacts ==
    ASSUME NEW s \in Seq(Char), NEW k \in 0 .. Len(s)
    PROVE  /\ From(s, k) \in Seq(Char) /\ Len(From(s, k)) = Len(s) - k
           /\ \A i \in 1 .. Len(s) - k : From(s, k)[i] = s[k + i]
<1> DEFINE m == k + 1
<1>1. m \in Nat \ {0} /\ Len(s) \in Nat /\ m <= Len(s) + 1
  OBVIOUS
<1>2. /\ SubSeq(s, m, Len(s)) \in Seq(Char) /\ Len(SubSeq(s, m, Len(s))) = Len(s) - m + 1
      /\ \A i \in 1 .. Len(s) - m + 1 : SubSeq(s, m, Len(s))[i] = s[m + i - 1]
  <2> HIDE DEF m
  <2> QED BY <1>1, Part
<1>3. From(s, k) = SubSeq(s, m, Len(s))
  BY DEF From
<1>4. ASSUME NEW i \in 1 .. Len(s) - k PROVE From(s, k)[i] = s[k + i]
  <2>1. i \in 1 .. Len(s) - m + 1 /\ m + i - 1 = k + i
    BY <1>1
  <2> QED BY <1>2, <1>3, <2>1
<1>5. Len(s) - m + 1 = Len(s) - k
  BY <1>1
<1> HIDE DEF m
<1> QED BY <1>2, <1>3, <1>4, <1>5

LEMMA FromFrom ==
    ASSUME NEW s \in Seq(Char), NEW k \in 0 .. Len(s), NEW j \in 0 .. Len(s) - k
    PROVE  From(From(s, k), j) = From(s, k + j)
<1> DEFINE a == From(From(s, k), j)
           b == From(s, k + j)
           t == From(s, k)
<1>1. t \in Seq(Char) /\ Len(t) = Len(s) - k /\ \A i \in 1 .. Len(s) - k : t[i] = s[k + i]
  BY FromFacts
<1>2. k + j \in 0 .. Len(s) /\ j \in 0 .. Len(t)
  BY <1>1
<1>3. /\ b \in Seq(Char) /\ Len(b) = Len(s) - (k + j)
      /\ \A i \in 1 .. Len(s) - (k + j) : b[i] = s[(k + j) + i]
  BY <1>2, FromFacts
<1> HIDE DEF t
<1>4. /\ From(t, j) \in Seq(Char) /\ Len(From(t, j)) = Len(t) - j
      /\ \A i \in 1 .. Len(t) - j : From(t, j)[i] = t[j + i]
  BY <1>1, <1>2, FromFacts
<1> HIDE DEF b
<1>5. ASSUME NEW i \in 1 .. Len(b) PROVE From(t, j)[i] = b[i]
  <2>1. /\ i \in 1 .. Len(s) - (k + j) /\ i \in 1 .. Len(t) - j /\ j + i \in 1 .. Len(s) - k
        /\ k + (j + i) = (k + j) + i
    BY <1>1, <1>3
  <2>2. From(t, j)[i] = t[j + i] /\ t[j + i] = s[k + (j + i)] /\ b[i] = s[(k + j) + i]
    BY <1>1, <1>3, <1>4, <2>1
  <2> QED BY <2>1, <2>2
<1>6. Len(From(t, j)) = Len(b)
  BY <1>1, <1>3, <1>4
<1>7. From(t, j) = b
  BY <1>3, <1>4, <1>5, <1>6, SeqEqual
<1> QED BY <1>7 DEF t, b

-----------------------------------------------------------------------------
(* Pieces *)

\* A piece ends before the next c, and has no c in it.
LEMMA EndFacts ==
    ASSUME NEW s \in Seq(Char), NEW c, NEW a \in 0 .. Len(s)
    PROVE  /\ End(s, c, a) \in a .. Len(s)
           /\ \A i \in a + 1 .. End(s, c, a) : s[i] # c
           /\ End(s, c, a) < Len(s) => s[End(s, c, a) + 1] = c
<1> DEFINE B == {b \in a .. Len(s) : b = Len(s) \/ s[b + 1] = c}
           e == Min(B)
<1>1. B \in SUBSET Nat /\ Len(s) \in B
  OBVIOUS
<1>2. e \in B /\ \A y \in B : e <= y
  <2> HIDE DEF B
  <2> QED BY <1>1, MinFacts
<1>3. End(s, c, a) = e
  BY DEF End
<1> HIDE DEF e
<1>4. e \in a .. Len(s) /\ (e < Len(s) => s[e + 1] = c)
  BY <1>2
<1>5. ASSUME NEW i \in a + 1 .. e PROVE s[i] # c
  <2>1. i - 1 \in a .. Len(s) /\ ~(e <= i - 1) /\ (i - 1) + 1 = i
    BY <1>4
  <2>2. i - 1 \notin B
    BY <1>2, <2>1
  <2> QED BY <2>1, <2>2
<1> QED BY <1>3, <1>4, <1>5

\* There is only one such place.
LEMMA EndUnique ==
    ASSUME NEW s \in Seq(Char), NEW c, NEW a \in 0 .. Len(s), NEW e \in a .. Len(s),
           \A i \in a + 1 .. e : s[i] # c,
           e = Len(s) \/ s[e + 1] = c
    PROVE  End(s, c, a) = e
<1> DEFINE d == End(s, c, a)
<1>1. d \in a .. Len(s) /\ (\A i \in a + 1 .. d : s[i] # c) /\ (d < Len(s) => s[d + 1] = c)
  BY EndFacts
<1> HIDE DEF d
<1>2. ~(d < e)
  <2> SUFFICES ASSUME d < e PROVE FALSE
    OBVIOUS
  <2>1. d + 1 \in a + 1 .. e /\ d < Len(s)
    BY <1>1
  <2> QED BY <1>1, <2>1
<1>3. ~(e < d)
  <2> SUFFICES ASSUME e < d PROVE FALSE
    OBVIOUS
  <2>1. e + 1 \in a + 1 .. d /\ e # Len(s)
    BY <1>1
  <2> QED BY <1>1, <2>1
<1>4. d = e
  BY <1>1, <1>2, <1>3
<1> QED BY <1>4 DEF d

\* What a piece is made of.
LEMMA PieceFacts ==
    ASSUME NEW s \in Seq(Char), NEW c, NEW a \in 0 .. Len(s)
    PROVE  /\ Piece(s, c, a) \in Seq(Char) /\ Len(Piece(s, c, a)) = End(s, c, a) - a
           /\ \A i \in 1 .. End(s, c, a) - a : Piece(s, c, a)[i] = s[a + i]
<1> DEFINE e == End(s, c, a)
           m == a + 1
<1>1. e \in a .. Len(s)
  BY EndFacts
<1> HIDE DEF e
<1>2. m \in Nat \ {0} /\ e \in Nat /\ m <= e + 1 /\ e <= Len(s) /\ e - m + 1 = e - a
  BY <1>1
<1>3. Piece(s, c, a) = SubSeq(s, m, e)
  BY DEF Piece, e
<1>4. \A i \in 1 .. e - a : m + i - 1 = a + i
  BY <1>1
<1> HIDE DEF m
<1>5. /\ SubSeq(s, m, e) \in Seq(Char) /\ Len(SubSeq(s, m, e)) = e - m + 1
      /\ \A i \in 1 .. e - m + 1 : SubSeq(s, m, e)[i] = s[m + i - 1]
  BY <1>2, Part
<1> QED BY <1>2, <1>3, <1>4, <1>5 DEF e

-----------------------------------------------------------------------------
(* Cutting a mask into chunks *)

\* mask is p stars, characters other than stars up to q, and a rest that is empty or starts
\* with a star.
CutAt(mask, p, q) ==
    /\ p \in 0 .. Len(mask) /\ q \in p .. Len(mask) /\ (mask # <<>> => q > 0)
    /\ \A i \in 1 .. p : mask[i] = "*"
    /\ p < Len(mask) => mask[p + 1] # "*"
    /\ \A i \in p + 1 .. q : mask[i] # "*"
    /\ q < Len(mask) => mask[q + 1] = "*"

\* What scan_chunk returns.
LEMMA ScanFacts ==
    ASSUME NEW mask \in Seq(Char)
    PROVE  \E p, q \in 0 .. Len(mask) :
              /\ CutAt(mask, p, q)
              /\ scan_chunk(mask)[1] = p
              /\ scan_chunk(mask)[2] \in Seq(Char) /\ Len(scan_chunk(mask)[2]) = q - p
              /\ \A i \in 1 .. q - p : scan_chunk(mask)[2][i] = mask[p + i]
              /\ scan_chunk(mask)[3] = From(mask, q)
<1> DEFINE J == {k \in 0 .. Len(mask) : k = Len(mask) \/ mask[k + 1] # "*"}
           p == Min(J)
           q == End(mask, "*", p)
<1>1. J \in SUBSET Nat /\ Len(mask) \in J
  OBVIOUS
<1>2. p \in J /\ \A y \in J : p <= y
  <2> HIDE DEF J
  <2> QED BY <1>1, MinFacts
<1>3. scan_chunk(mask) = <<p, Piece(mask, "*", p), From(mask, q)>>
  BY DEF scan_chunk
<1> HIDE DEF p
<1>4. p \in 0 .. Len(mask) /\ (p < Len(mask) => mask[p + 1] # "*")
  BY <1>2
<1>5. q \in p .. Len(mask) /\ (\A i \in p + 1 .. q : mask[i] # "*")
      /\ (q < Len(mask) => mask[q + 1] = "*")
  BY <1>4, EndFacts
<1> DEFINE x == Piece(mask, "*", p)
<1>6. x \in Seq(Char) /\ Len(x) = q - p /\ \A i \in 1 .. q - p : x[i] = mask[p + i]
  BY <1>4, PieceFacts
<1> HIDE DEF q, x
<1>7. \A i \in 1 .. p : mask[i] = "*"
  <2> SUFFICES ASSUME NEW i \in 1 .. p PROVE mask[i] = "*"
    OBVIOUS
  <2>1. i - 1 \in 0 .. Len(mask) /\ i - 1 # Len(mask) /\ ~(p <= i - 1) /\ (i - 1) + 1 = i
    BY <1>4
  <2>2. i - 1 \notin J
    BY <1>2, <2>1
  <2> QED BY <2>1, <2>2
<1>8. ASSUME mask # <<>>, q = 0 PROVE FALSE
  <2>1. p = 0 /\ q < Len(mask) /\ q + 1 = p + 1
    BY <1>4, <1>5, <1>8
  <2> QED BY <1>4, <1>5, <2>1
<1>9. CutAt(mask, p, q)
  BY <1>4, <1>5, <1>7, <1>8 DEF CutAt
<1>10. p \in 0 .. Len(mask) /\ q \in 0 .. Len(mask)
  BY <1>4, <1>5
<1>11. scan_chunk(mask)[1] = p /\ scan_chunk(mask)[2] = x /\ scan_chunk(mask)[3] = From(mask, q)
  BY <1>3 DEF x
<1> QED BY <1>6, <1>9, <1>10, <1>11

-----------------------------------------------------------------------------
(* What a chunk does for Glob *)

\* The cuts `at` show that the mask matches the text.
Shows(at, mask, s) ==
    /\ at \in [1 .. Len(mask) + 1 -> 0 .. Len(s)]
    /\ at[1] = 0 /\ at[Len(mask) + 1] = Len(s)
    /\ \A i \in 1 .. Len(mask) :
          IF mask[i] = "*" THEN at[i] <= at[i + 1]
          ELSE at[i + 1] = at[i] + 1 /\ mask[i] \in {"?", s[at[i + 1]]}

LEMMA GlobIs ==
    ASSUME NEW mask \in Seq(Char), NEW s \in Seq(Char)
    PROVE  Glob(mask, s) <=> \E at : Shows(at, mask, s)
<1>1. DOMAIN mask = 1 .. Len(mask)
  OBVIOUS
<1>2. ASSUME Glob(mask, s) PROVE \E at : Shows(at, mask, s)
  <2>1. PICK at \in [1 .. Len(mask) + 1 -> 0 .. Len(s)] :
              /\ at[1] = 0 /\ at[Len(mask) + 1] = Len(s)
              /\ \A i \in DOMAIN mask :
                    IF mask[i] = "*" THEN at[i] <= at[i + 1]
                    ELSE at[i + 1] = at[i] + 1 /\ mask[i] \in {"?", s[at[i + 1]]}
    BY <1>2 DEF Glob
  <2>2. Shows(at, mask, s)
    BY <1>1, <2>1 DEF Shows
  <2> QED BY <2>2
<1>3. ASSUME NEW at, Shows(at, mask, s) PROVE Glob(mask, s)
  <2>1. /\ at \in [1 .. Len(mask) + 1 -> 0 .. Len(s)]
        /\ at[1] = 0 /\ at[Len(mask) + 1] = Len(s)
        /\ \A i \in DOMAIN mask :
              IF mask[i] = "*" THEN at[i] <= at[i + 1]
              ELSE at[i + 1] = at[i] + 1 /\ mask[i] \in {"?", s[at[i + 1]]}
    BY <1>1, <1>3 DEF Shows
  <2> QED BY <2>1 DEF Glob
<1> QED BY <1>2, <1>3

\* Cuts never go back.
LEMMA CutsAscend ==
    ASSUME NEW mask \in Seq(Char), NEW s \in Seq(Char), NEW at, Shows(at, mask, s),
           NEW j \in 1 .. Len(mask) + 1, NEW i \in j .. Len(mask) + 1
    PROVE  at[j] <= at[i]
<1> DEFINE T == {k \in Nat : j + k <= Len(mask) + 1 => at[j] <= at[j + k]}
<1>1. \A x \in 1 .. Len(mask) + 1 : at[x] \in Nat
  BY DEF Shows
<1>2. 0 \in T
  BY <1>1
<1>3. ASSUME NEW k \in Nat, k \in T PROVE k + 1 \in T
  <2> SUFFICES ASSUME j + (k + 1) <= Len(mask) + 1 PROVE at[j] <= at[j + (k + 1)]
    OBVIOUS
  <2>1. j + k \in 1 .. Len(mask) /\ j + (k + 1) \in 1 .. Len(mask) + 1 /\ (j + k) + 1 = j + (k + 1)
        /\ j + k \in 1 .. Len(mask) + 1
    OBVIOUS
  <2>2. at[j] <= at[j + k]
    BY <1>3, <2>1
  <2>3. at[j + k] <= at[(j + k) + 1]
    <3>1. IF mask[j + k] = "*" THEN at[j + k] <= at[(j + k) + 1]
          ELSE at[(j + k) + 1] = at[j + k] + 1
      BY <2>1 DEF Shows
    <3> QED BY <1>1, <2>1, <3>1
  <2> QED BY <1>1, <2>1, <2>2, <2>3
<1>4. i - j \in T
  <2> HIDE DEF T
  <2>1. \A k \in Nat : k \in T
    BY <1>2, <1>3, SetInduction
  <2> QED BY <2>1
<1>5. j + (i - j) = i /\ i - j \in Nat
  OBVIOUS
<1> QED BY <1>4, <1>5

\* The characters of the chunk mask[p + 1 .. q] match those of s after the first k.
ChunkAt(mask, p, q, s, k) ==
    k + (q - p) <= Len(s) /\ \A i \in 1 .. q - p : mask[p + i] \in {"?", s[k + i]}

\* A mask that matches has its chunk at a place of the text from where the rest matches.
LEMMA GlobCut ==
    ASSUME NEW mask \in Seq(Char), NEW s \in Seq(Char), NEW p \in 0 .. Len(mask),
           NEW q \in 0 .. Len(mask), CutAt(mask, p, q), Glob(mask, s)
    PROVE  \E k \in 0 .. Len(s) : /\ p = 0 => k = 0
                                  /\ ChunkAt(mask, p, q, s, k)
                                  /\ Glob(From(mask, q), From(s, k + (q - p)))
<1>1. PICK at : Shows(at, mask, s)
  BY GlobIs
<1>2. /\ q \in p .. Len(mask) /\ \A i \in p + 1 .. q : mask[i] # "*"
  BY DEF CutAt
<1> DEFINE k == at[p + 1]
<1>3. \A x \in 1 .. Len(mask) + 1 : at[x] \in 0 .. Len(s)
  BY <1>1 DEF Shows
<1>4. k \in 0 .. Len(s) /\ (p = 0 => k = 0)
  BY <1>1, <1>3 DEF Shows
<1>5. \A i \in 1 .. q - p : at[p + i + 1] = at[p + i] + 1 /\ mask[p + i] \in {"?", s[at[p + i + 1]]}
  <2> SUFFICES ASSUME NEW i \in 1 .. q - p
               PROVE  at[p + i + 1] = at[p + i] + 1 /\ mask[p + i] \in {"?", s[at[p + i + 1]]}
    OBVIOUS
  <2>1. p + i \in p + 1 .. q /\ p + i \in 1 .. Len(mask)
    BY <1>2
  <2> QED BY <1>1, <1>2, <2>1 DEF Shows
<1> DEFINE T == {j \in Nat : j <= q - p => at[p + j + 1] = k + j}
<1>6. \A j \in Nat : j \in T
  <2>1. 0 \in T
    BY <1>4
  <2>2. ASSUME NEW j \in Nat, j \in T PROVE j + 1 \in T
    <3> SUFFICES ASSUME j + 1 <= q - p PROVE at[p + (j + 1) + 1] = k + (j + 1)
      OBVIOUS
    <3>1. j + 1 \in 1 .. q - p /\ p + (j + 1) = p + j + 1
      BY <1>2
    <3>2. at[p + j + 1] = k + j
      BY <2>2, <3>1
    <3>3. at[p + (j + 1) + 1] = at[p + (j + 1)] + 1
      BY <1>5, <3>1
    <3>4. at[p + (j + 1)] = k + j
      BY <3>1, <3>2
    <3> HIDE DEF k
    <3> QED BY <1>4, <3>3, <3>4
  <2> HIDE DEF T
  <2> QED BY <2>1, <2>2, SetInduction
<1>7. \A j \in 0 .. q - p : at[p + j + 1] = k + j
  BY <1>6
<1> HIDE DEF k, T
<1>8. at[q + 1] = k + (q - p)
  <2>1. q - p \in 0 .. q - p /\ p + (q - p) + 1 = q + 1
    BY <1>2
  <2> QED BY <1>7, <2>1
<1>9. k + (q - p) \in 0 .. Len(s)
  <2> q + 1 \in 1 .. Len(mask) + 1
    BY <1>2
  <2> QED BY <1>3, <1>8
<1>10. ChunkAt(mask, p, q, s, k)
  <2> SUFFICES ASSUME NEW i \in 1 .. q - p PROVE mask[p + i] \in {"?", s[k + i]}
    BY <1>9 DEF ChunkAt
  <2>1. at[p + i + 1] = k + i
    BY <1>7
  <2> QED BY <1>5, <2>1
<1> DEFINE e == k + (q - p)
           m == From(mask, q)
           t == From(s, e)
           rt == [i \in 1 .. Len(m) + 1 |-> at[q + i] - e]
<1>11. /\ m \in Seq(Char) /\ Len(m) = Len(mask) - q /\ \A i \in 1 .. Len(mask) - q : m[i] = mask[q + i]
  BY FromFacts
<1>12. e \in 0 .. Len(s) /\ at[q + 1] = e
  BY <1>8, <1>9
<1> HIDE DEF e
<1>13. t \in Seq(Char) /\ Len(t) = Len(s) - e /\ \A i \in 1 .. Len(s) - e : t[i] = s[e + i]
  BY <1>12, FromFacts
<1> HIDE DEF m, t
<1>14. \A i \in 1 .. Len(m) + 1 : at[q + i] \in e .. Len(s)
  <2> SUFFICES ASSUME NEW i \in 1 .. Len(m) + 1 PROVE at[q + i] \in e .. Len(s)
    OBVIOUS
  <2>1. q + 1 \in 1 .. Len(mask) + 1 /\ q + i \in q + 1 .. Len(mask) + 1 /\ q + i \in 1 .. Len(mask) + 1
    BY <1>11
  <2>2. at[q + 1] <= at[q + i]
    BY <1>1, <2>1, CutsAscend
  <2> DEFINE x == at[q + i]
  <2>3. x \in 0 .. Len(s) /\ e <= x
    BY <1>3, <1>12, <2>1, <2>2
  <2> HIDE DEF x
  <2>4. x \in e .. Len(s)
    BY <1>12, <2>3
  <2> QED BY <2>4 DEF x
<1>15. rt \in [1 .. Len(m) + 1 -> 0 .. Len(t)]
  <2> SUFFICES ASSUME NEW i \in 1 .. Len(m) + 1 PROVE at[q + i] - e \in 0 .. Len(t)
    OBVIOUS
  <2> DEFINE x == at[q + i]
  <2>1. x \in e .. Len(s)
    BY <1>14
  <2> HIDE DEF x
  <2>2. x - e \in 0 .. Len(t)
    BY <1>12, <1>13, <2>1
  <2> QED BY <2>2 DEF x
<1>16. rt[1] = 0 /\ rt[Len(m) + 1] = Len(t)
  <2>1. at[q + (Len(m) + 1)] = Len(s)
    <3>1. q + (Len(m) + 1) = Len(mask) + 1
      BY <1>11
    <3> QED BY <1>1, <3>1 DEF Shows
  <2>2. 1 \in 1 .. Len(m) + 1 /\ Len(m) + 1 \in 1 .. Len(m) + 1
    BY <1>11
  <2> QED BY <1>12, <1>13, <2>1, <2>2
<1>17. ASSUME NEW i \in 1 .. Len(m)
       PROVE  IF m[i] = "*" THEN rt[i] <= rt[i + 1]
              ELSE rt[i + 1] = rt[i] + 1 /\ m[i] \in {"?", t[rt[i + 1]]}
  <2>1. /\ q + i \in 1 .. Len(mask) /\ m[i] = mask[q + i] /\ (q + i) + 1 = q + (i + 1)
        /\ i \in 1 .. Len(m) + 1 /\ i + 1 \in 1 .. Len(m) + 1
    BY <1>11
  <2>2. IF mask[q + i] = "*" THEN at[q + i] <= at[(q + i) + 1]
        ELSE at[(q + i) + 1] = at[q + i] + 1 /\ mask[q + i] \in {"?", s[at[(q + i) + 1]]}
    BY <1>1, <2>1 DEF Shows
  <2>3. rt[i] = at[q + i] - e /\ rt[i + 1] = at[q + (i + 1)] - e
    BY <2>1
  <2>4. at[q + i] \in e .. Len(s) /\ at[q + (i + 1)] \in e .. Len(s)
    BY <1>14, <2>1
  <2> HIDE DEF rt
  <2>5. CASE m[i] = "*"
    BY <1>12, <2>1, <2>2, <2>3, <2>4, <2>5
  <2>6. CASE m[i] # "*"
    <3>1. at[q + (i + 1)] = at[q + i] + 1 /\ m[i] \in {"?", s[at[q + (i + 1)]]}
      BY <2>1, <2>2, <2>6
    <3>2. rt[i + 1] \in 1 .. Len(s) - e /\ e + rt[i + 1] = at[q + (i + 1)] /\ rt[i + 1] = rt[i] + 1
      <4> DEFINE x == at[q + i]
                 y == at[q + (i + 1)]
                 v == rt[i]
                 w == rt[i + 1]
      <4>1. v = x - e /\ w = y - e /\ y = x + 1 /\ x \in e .. Len(s) /\ y \in e .. Len(s)
        BY <2>3, <2>4, <3>1
      <4> HIDE DEF v, w, x, y
      <4>2. w \in 1 .. Len(s) - e /\ e + w = y /\ w = v + 1
        BY <1>12, <4>1
      <4> QED BY <4>2 DEF v, w, x, y
    <3>3. t[rt[i + 1]] = s[at[q + (i + 1)]]
      BY <1>13, <3>2
    <3> QED BY <2>6, <3>1, <3>2, <3>3
  <2> QED BY <2>5, <2>6
<1>18. Shows(rt, m, t)
  <2> HIDE DEF rt
  <2> QED BY <1>15, <1>16, <1>17 DEF Shows
<1>19. Glob(m, t)
  BY <1>11, <1>13, <1>18, GlobIs
<1> QED BY <1>4, <1>10, <1>19 DEF m, t, e

\* The converse: a chunk at a place of the text, after which the rest matches.
LEMMA GlobJoin ==
    ASSUME NEW mask \in Seq(Char), NEW s \in Seq(Char), NEW p \in 0 .. Len(mask),
           NEW q \in 0 .. Len(mask), CutAt(mask, p, q),
           NEW k \in 0 .. Len(s), p = 0 => k = 0, ChunkAt(mask, p, q, s, k),
           Glob(From(mask, q), From(s, k + (q - p)))
    PROVE  Glob(mask, s)
<1> DEFINE e == k + (q - p)
           m == From(mask, q)
           t == From(s, e)
<1>1. /\ q \in p .. Len(mask) /\ (\A i \in 1 .. p : mask[i] = "*")
      /\ \A i \in p + 1 .. q : mask[i] # "*"
  BY DEF CutAt
<1>2. e \in 0 .. Len(s) /\ e = k + (q - p) /\ \A i \in 1 .. q - p : mask[p + i] \in {"?", s[k + i]}
  BY <1>1 DEF ChunkAt
<1>3. /\ m \in Seq(Char) /\ Len(m) = Len(mask) - q /\ \A i \in 1 .. Len(mask) - q : m[i] = mask[q + i]
  BY FromFacts
<1> HIDE DEF e
<1>4. t \in Seq(Char) /\ Len(t) = Len(s) - e /\ \A i \in 1 .. Len(s) - e : t[i] = s[e + i]
  BY <1>2, FromFacts
<1>5. Glob(m, t)
  BY DEF e
<1> HIDE DEF m, t
<1>6. PICK rt : Shows(rt, m, t)
  BY <1>3, <1>4, <1>5, GlobIs
<1>7. (\A j \in 1 .. Len(m) + 1 : rt[j] \in 0 .. Len(t)) /\ rt[1] = 0 /\ rt[Len(m) + 1] = Len(t)
  BY <1>6 DEF Shows
<1> DEFINE at == [i \in 1 .. Len(mask) + 1 |->
                    IF i = 1 THEN 0 ELSE IF i <= p + 1 THEN k
                    ELSE IF i <= q + 1 THEN k + (i - p - 1) ELSE rt[i - q] + e]
<1>8. ASSUME NEW i \in p + 1 .. q + 1 PROVE at[i] = k + (i - p - 1)
  <2>1. i \in 1 .. Len(mask) + 1
    BY <1>1
  <2>2. CASE i = 1
    BY <1>1, <2>1, <2>2
  <2>3. CASE i # 1 /\ i = p + 1
    BY <1>1, <2>1, <2>3
  <2>4. CASE i # 1 /\ i # p + 1
    BY <1>1, <2>1, <2>4
  <2> QED BY <2>2, <2>3, <2>4
<1>9. ASSUME NEW j \in 1 .. Len(m) + 1 PROVE at[q + j] = rt[j] + e
  <2>1. q + j \in 1 .. Len(mask) + 1
    BY <1>1, <1>3
  <2>2. CASE j = 1
    <3>1. q + 1 \in p + 1 .. q + 1
      BY <1>1
    <3>2. at[q + 1] = k + ((q + 1) - p - 1)
      BY <1>8, <3>1
    <3> HIDE DEF at
    <3>3. k + ((q + 1) - p - 1) = e
      BY <1>1, <1>2
    <3> QED BY <1>2, <1>7, <2>2, <3>2, <3>3
  <2>3. CASE j # 1
    <3>1. q + j # 1 /\ ~(q + j <= p + 1) /\ ~(q + j <= q + 1) /\ (q + j) - q = j
      BY <1>1, <2>3
    <3> QED BY <2>1, <3>1
  <2> QED BY <2>2, <2>3
<1>10. ASSUME NEW i \in 1 .. p PROVE at[i] \in Nat /\ at[i] <= k /\ at[i + 1] = k
  <2>1. i \in 1 .. Len(mask) + 1 /\ i + 1 \in 1 .. Len(mask) + 1 /\ i <= p + 1 /\ i + 1 <= p + 1
        /\ i + 1 # 1
    BY <1>1
  <2> QED BY <2>1
<1>11. at[1] = 0
  <2>1. 1 \in 1 .. Len(mask) + 1
    OBVIOUS
  <2> QED BY <2>1
<1>12. DOMAIN at = 1 .. Len(mask) + 1 /\ at = [i \in 1 .. Len(mask) + 1 |-> at[i]]
  OBVIOUS
<1> HIDE DEF at
<1>13. at[Len(mask) + 1] = Len(s)
  <2>1. Len(m) + 1 \in 1 .. Len(m) + 1 /\ q + (Len(m) + 1) = Len(mask) + 1
    BY <1>3
  <2>2. at[q + (Len(m) + 1)] = rt[Len(m) + 1] + e
    BY <1>9, <2>1
  <2>3. at[Len(mask) + 1] = Len(t) + e
    BY <1>7, <2>1, <2>2
  <2>4. Len(t) + e = Len(s)
    BY <1>2, <1>4
  <2> QED BY <2>3, <2>4
<1>14. ASSUME NEW i \in 1 .. Len(mask) + 1 PROVE at[i] \in 0 .. Len(s)
  <2>1. CASE i \in 1 .. p
    BY <1>10, <2>1
  <2>2. CASE i \in p + 1 .. q + 1
    <3>1. at[i] = k + (i - p - 1)
      BY <1>8, <2>2
    <3> QED BY <1>1, <1>2, <2>2, <3>1
  <2>3. CASE ~(i <= q + 1)
    <3>1. i - q \in 1 .. Len(m) + 1 /\ q + (i - q) = i
      BY <1>1, <1>3, <2>3
    <3> DEFINE x == rt[i - q]
    <3>2. at[i] = x + e /\ x \in 0 .. Len(t)
      BY <1>7, <1>9, <3>1
    <3> HIDE DEF x
    <3>3. x + e \in 0 .. Len(s)
      BY <1>2, <1>4, <3>2
    <3> QED BY <3>2, <3>3
  <2> QED BY <1>1, <2>1, <2>2, <2>3
<1>15. ASSUME NEW i \in 1 .. Len(mask)
       PROVE  IF mask[i] = "*" THEN at[i] <= at[i + 1]
              ELSE at[i + 1] = at[i] + 1 /\ mask[i] \in {"?", s[at[i + 1]]}
  <2>1. CASE i \in 1 .. p
    BY <1>1, <1>10, <2>1
  <2>2. CASE i \in p + 1 .. q
    <3>1. i \in p + 1 .. q + 1 /\ i + 1 \in p + 1 .. q + 1 /\ i - p \in 1 .. q - p /\ p + (i - p) = i
      BY <1>1, <2>2
    <3>2. at[i] = k + (i - p - 1) /\ at[i + 1] = k + ((i + 1) - p - 1)
      BY <1>8, <3>1
    <3>3. at[i + 1] = at[i] + 1 /\ at[i + 1] = k + (i - p)
      BY <3>1, <3>2
    <3>4. mask[i] \in {"?", s[k + (i - p)]}
      BY <1>2, <3>1
    <3> QED BY <1>1, <2>2, <3>3, <3>4
  <2>3. CASE ~(i <= q)
    <3> DEFINE j == i - q
    <3>1. j \in 1 .. Len(m) /\ j \in 1 .. Len(m) + 1 /\ j + 1 \in 1 .. Len(m) + 1
          /\ q + j = i /\ q + (j + 1) = i + 1
      BY <1>1, <1>3, <2>3
    <3> HIDE DEF j
    <3>2. at[i] = rt[j] + e /\ at[i + 1] = rt[j + 1] + e
      BY <1>9, <3>1
    <3>3. rt[j] \in 0 .. Len(t) /\ rt[j + 1] \in 0 .. Len(t) /\ m[j] = mask[i]
      BY <1>3, <1>7, <3>1
    <3>4. IF m[j] = "*" THEN rt[j] <= rt[j + 1]
          ELSE rt[j + 1] = rt[j] + 1 /\ m[j] \in {"?", t[rt[j + 1]]}
      BY <1>6, <3>1 DEF Shows
    <3>5. CASE m[j] = "*"
      BY <1>2, <3>2, <3>3, <3>4, <3>5
    <3>6. CASE m[j] # "*"
      <4>1. rt[j + 1] = rt[j] + 1 /\ m[j] \in {"?", t[rt[j + 1]]}
        BY <3>4, <3>6
      <4> DEFINE v == rt[j]
                 w == rt[j + 1]
      <4>2. v \in Nat /\ w = v + 1 /\ w \in 0 .. Len(t) /\ at[i] = v + e /\ at[i + 1] = w + e
        BY <3>2, <3>3, <4>1
      <4>3. m[j] \in {"?", t[w]}
        BY <4>1
      <4> HIDE DEF v, w
      <4>4. w \in 1 .. Len(s) - e /\ at[i + 1] = e + w /\ at[i + 1] = at[i] + 1
        BY <1>2, <1>4, <4>2
      <4>5. t[w] = s[at[i + 1]]
        BY <1>4, <4>4
      <4> QED BY <3>3, <3>6, <4>3, <4>4, <4>5
    <3> QED BY <3>5, <3>6
  <2> QED BY <1>1, <2>1, <2>2, <2>3
<1>16. at \in [1 .. Len(mask) + 1 -> 0 .. Len(s)]
  BY <1>12, <1>14
<1>17. Shows(at, mask, s)
  BY <1>11, <1>13, <1>15, <1>16 DEF Shows
<1> QED BY <1>17, GlobIs

\* The empty mask matches the empty text.
LEMMA GlobEmpty ==
    ASSUME NEW mask \in Seq(Char), Len(mask) = 0, NEW s \in Seq(Char)
    PROVE  Glob(mask, s) <=> Len(s) = 0
<1>1. ASSUME Glob(mask, s) PROVE Len(s) = 0
  <2>1. PICK at : Shows(at, mask, s)
    BY <1>1, GlobIs
  <2> QED BY <2>1 DEF Shows
<1>2. ASSUME Len(s) = 0 PROVE Glob(mask, s)
  <2> DEFINE at == [i \in 1 .. Len(mask) + 1 |-> 0]
  <2>1. Shows(at, mask, s)
    BY <1>2 DEF Shows
  <2> QED BY <2>1, GlobIs
<1> QED BY <1>1, <1>2

\* A mask that starts with a star matches a text if it matches the end of that text.
LEMMA GlobStar ==
    ASSUME NEW mask \in Seq(Char), Len(mask) > 0, mask[1] = "*", NEW s \in Seq(Char),
           NEW j \in 0 .. Len(s), Glob(mask, From(s, j))
    PROVE  Glob(mask, s)
<1> DEFINE t == From(s, j)
<1>1. t \in Seq(Char) /\ Len(t) = Len(s) - j /\ \A i \in 1 .. Len(s) - j : t[i] = s[j + i]
  BY FromFacts
<1> HIDE DEF t
<1>2. PICK rt : Shows(rt, mask, t)
  BY <1>1, GlobIs DEF t
<1>3. (\A i \in 1 .. Len(mask) + 1 : rt[i] \in 0 .. Len(t)) /\ rt[Len(mask) + 1] = Len(t)
  BY <1>2 DEF Shows
<1> DEFINE at == [i \in 1 .. Len(mask) + 1 |-> IF i = 1 THEN 0 ELSE rt[i] + j]
<1>4. at[1] = 0 /\ \A i \in 2 .. Len(mask) + 1 : at[i] = rt[i] + j
  OBVIOUS
<1>5. at \in [1 .. Len(mask) + 1 -> 0 .. Len(s)]
  BY <1>1, <1>3
<1> HIDE DEF at
<1>6. at[Len(mask) + 1] = Len(s)
  <2>1. Len(mask) + 1 \in 2 .. Len(mask) + 1
    OBVIOUS
  <2>2. at[Len(mask) + 1] = rt[Len(mask) + 1] + j
    BY <1>4, <2>1
  <2>3. Len(t) + j = Len(s)
    BY <1>1
  <2> QED BY <1>3, <2>2, <2>3
<1>7. ASSUME NEW i \in 1 .. Len(mask)
      PROVE  IF mask[i] = "*" THEN at[i] <= at[i + 1]
             ELSE at[i + 1] = at[i] + 1 /\ mask[i] \in {"?", s[at[i + 1]]}
  <2>1. i + 1 \in 2 .. Len(mask) + 1 /\ rt[i + 1] \in Nat
    BY <1>1, <1>3
  <2>2. CASE i = 1
    BY <1>4, <2>1, <2>2
  <2>3. CASE i # 1
    <3> DEFINE v == rt[i]
               w == rt[i + 1]
    <3>1. i \in 2 .. Len(mask) + 1 /\ i \in 1 .. Len(mask) + 1 /\ i + 1 \in 1 .. Len(mask) + 1
      BY <2>3
    <3>2. /\ v \in 0 .. Len(t) /\ w \in 0 .. Len(t) /\ at[i] = v + j /\ at[i + 1] = w + j
          /\ IF mask[i] = "*" THEN v <= w ELSE w = v + 1 /\ mask[i] \in {"?", t[w]}
      BY <1>2, <1>3, <1>4, <2>1, <3>1 DEF Shows
    <3> HIDE DEF v, w
    <3>3. CASE mask[i] = "*"
      BY <3>2, <3>3
    <3>4. CASE mask[i] # "*"
      <4>1. w = v + 1 /\ mask[i] \in {"?", t[w]}
        BY <3>2, <3>4
      <4>2. w \in 1 .. Len(s) - j /\ at[i + 1] = j + w /\ at[i + 1] = at[i] + 1
        BY <1>1, <3>2, <4>1
      <4>3. t[w] = s[at[i + 1]]
        BY <1>1, <4>2
      <4> QED BY <3>4, <4>1, <4>2, <4>3
    <3> QED BY <3>3, <3>4
  <2> QED BY <2>2, <2>3
<1>8. Shows(at, mask, s)
  BY <1>4, <1>5, <1>6, <1>7 DEF Shows
<1> QED BY <1>8, GlobIs

-----------------------------------------------------------------------------
(* One turn of the loop *)

\* The chunk can be placed after the first k characters of the text.
Place(mask, p, q, s, k) ==
    ChunkAt(mask, p, q, s, k) /\ (k + (q - p) = Len(s) \/ q < Len(mask))

\* Fits tells of a place.
LEMMA FitsIs ==
    ASSUME NEW mask \in Seq(Char), NEW s \in Seq(Char), NEW p \in 0 .. Len(mask),
           NEW q \in p .. Len(mask), NEW k \in 0 .. Len(s),
           NEW chunk \in Seq(Char), Len(chunk) = q - p,
           \A i \in 1 .. q - p : chunk[i] = mask[p + i]
    PROVE  Fits(chunk, From(mask, q), From(s, k)) <=> Place(mask, p, q, s, k)
<1> DEFINE m == From(mask, q)
           t == From(s, k)
<1>1. m \in Seq(Char) /\ Len(m) = Len(mask) - q
  BY FromFacts
<1>2. t \in Seq(Char) /\ Len(t) = Len(s) - k /\ \A i \in 1 .. Len(s) - k : t[i] = s[k + i]
  BY FromFacts
<1> HIDE DEF m, t
<1>3. m # <<>> <=> q < Len(mask)
  BY <1>1
<1>4. DOMAIN chunk = 1 .. q - p /\ (Len(chunk) <= Len(t) <=> k + (q - p) <= Len(s))
      /\ (Len(chunk) = Len(t) <=> k + (q - p) = Len(s))
  BY <1>2
<1>5. ASSUME k + (q - p) <= Len(s), NEW i \in 1 .. q - p
      PROVE  chunk[i] \in {"?", t[i]} <=> mask[p + i] \in {"?", s[k + i]}
  <2>1. i \in 1 .. Len(s) - k
    BY <1>5
  <2> QED BY <1>2, <2>1
<1>6. match_chunk(chunk, t) <=> ChunkAt(mask, p, q, s, k)
  BY <1>4, <1>5 DEF match_chunk, ChunkAt
<1>7. Fits(chunk, m, t) <=> Place(mask, p, q, s, k)
  BY <1>3, <1>4, <1>6 DEF Fits, Place
<1> QED BY <1>7 DEF m, t

\* The rest of the mask is empty or starts with a star.
LEMMA RestFacts ==
    ASSUME NEW mask \in Seq(Char), NEW p \in 0 .. Len(mask), NEW q \in 0 .. Len(mask),
           CutAt(mask, p, q)
    PROVE  /\ From(mask, q) \in Seq(Char) /\ Len(From(mask, q)) = Len(mask) - q
           /\ q < Len(mask) => From(mask, q)[1] = "*"
<1>1. /\ From(mask, q) \in Seq(Char) /\ Len(From(mask, q)) = Len(mask) - q
      /\ \A i \in 1 .. Len(mask) - q : From(mask, q)[i] = mask[q + i]
  BY FromFacts
<1>2. ASSUME q < Len(mask) PROVE From(mask, q)[1] = "*"
  <2>1. 1 \in 1 .. Len(mask) - q
    BY <1>2
  <2>2. mask[q + 1] = "*"
    BY <1>2 DEF CutAt
  <2> QED BY <1>1, <2>1, <2>2
<1> QED BY <1>1, <1>2

\* Nothing is lost by placing the chunk at the first place there is for it.
LEMMA FirstPlace ==
    ASSUME NEW mask \in Seq(Char), NEW s \in Seq(Char), NEW p \in 0 .. Len(mask),
           NEW q \in 0 .. Len(mask), CutAt(mask, p, q),
           NEW k \in 0 .. Len(s), p = 0 => k = 0, Place(mask, p, q, s, k),
           \A j \in 0 .. Len(s) : Place(mask, p, q, s, j) => k <= j
    PROVE  Glob(mask, s) <=> Glob(From(mask, q), From(s, k + (q - p)))
<1>1. q \in p .. Len(mask) /\ k + (q - p) \in 0 .. Len(s) /\ ChunkAt(mask, p, q, s, k)
      /\ (k + (q - p) = Len(s) \/ q < Len(mask))
  BY DEF CutAt, Place, ChunkAt
<1>2. ASSUME Glob(From(mask, q), From(s, k + (q - p))) PROVE Glob(mask, s)
  BY <1>1, <1>2, GlobJoin
<1>3. ASSUME Glob(mask, s) PROVE Glob(From(mask, q), From(s, k + (q - p)))
  <2> DEFINE m == From(mask, q)
             e == k + (q - p)
  <2>1. m \in Seq(Char) /\ Len(m) = Len(mask) - q /\ (q < Len(mask) => m[1] = "*")
    BY RestFacts
  <2>2. PICK j \in 0 .. Len(s) : ChunkAt(mask, p, q, s, j) /\ Glob(m, From(s, j + (q - p)))
    BY <1>3, GlobCut
  <2>3. e \in 0 .. Len(s) /\ j + (q - p) \in 0 .. Len(s)
    BY <1>1, <2>2 DEF ChunkAt
  <2> HIDE DEF m
  <2>4. CASE q = Len(mask)
    <3>1. From(s, e) \in Seq(Char) /\ Len(From(s, e)) = Len(s) - e
      BY <2>3, FromFacts
    <3>2. Len(s) - e = 0 /\ Len(m) = 0
      BY <1>1, <2>1, <2>4
    <3>3. Glob(m, From(s, e))
      BY <2>1, <3>1, <3>2, GlobEmpty
    <3> QED BY <3>3 DEF m
  <2>5. CASE q # Len(mask)
    <3> DEFINE d == j - k
    <3>1. q < Len(mask) /\ Len(m) > 0
      BY <2>1, <2>5
    <3>2. Place(mask, p, q, s, j)
      BY <2>2, <3>1 DEF Place
    <3>3. k <= j
      BY <3>2
    <3>4. d \in 0 .. Len(s) - e /\ e + d = j + (q - p)
      BY <1>1, <2>3, <3>3
    <3>5. From(s, e) \in Seq(Char) /\ Len(From(s, e)) = Len(s) - e
      BY <2>3, FromFacts
    <3> HIDE DEF d, e
    <3>6. From(From(s, e), d) = From(s, e + d)
      BY <2>3, <3>4, FromFrom
    <3>7. Glob(m, From(From(s, e), d)) /\ d \in 0 .. Len(From(s, e))
      BY <2>2, <3>4, <3>5, <3>6
    <3>8. Glob(m, From(s, e))
      BY <2>1, <3>1, <3>5, <3>7, GlobStar
    <3> QED BY <3>8 DEF m, e
  <2> QED BY <2>4, <2>5
<1> QED BY <1>2, <1>3

\* Without a place the mask does not match.
LEMMA NoPlace ==
    ASSUME NEW mask \in Seq(Char), NEW s \in Seq(Char), NEW p \in 0 .. Len(mask),
           NEW q \in 0 .. Len(mask), CutAt(mask, p, q), Glob(mask, s)
    PROVE  \E k \in 0 .. Len(s) : (p = 0 => k = 0) /\ Place(mask, p, q, s, k)
<1> DEFINE m == From(mask, q)
<1>1. PICK k \in 0 .. Len(s) : /\ p = 0 => k = 0
                               /\ ChunkAt(mask, p, q, s, k) /\ Glob(m, From(s, k + (q - p)))
  BY GlobCut
<1>2. m \in Seq(Char) /\ Len(m) = Len(mask) - q
  BY RestFacts
<1> HIDE DEF m
<1>3. q \in p .. Len(mask) /\ k + (q - p) \in 0 .. Len(s)
  BY <1>1 DEF CutAt, ChunkAt
<1>4. CASE q = Len(mask)
  <2> DEFINE e == k + (q - p)
  <2>1. e \in 0 .. Len(s)
    BY <1>3
  <2> HIDE DEF e
  <2>2. From(s, e) \in Seq(Char) /\ Len(From(s, e)) = Len(s) - e
    BY <2>1, FromFacts
  <2>3. Len(m) = 0 /\ Glob(m, From(s, e))
    BY <1>1, <1>2, <1>4 DEF e
  <2>4. Len(From(s, e)) = 0
    BY <1>2, <2>2, <2>3, GlobEmpty
  <2>5. e = Len(s)
    BY <2>1, <2>2, <2>4
  <2> QED BY <1>1, <2>5 DEF Place, e
<1>5. CASE q # Len(mask)
  BY <1>1, <1>3, <1>5 DEF Place
<1> QED BY <1>4, <1>5

\* A mask of nothing but stars matches every text.
LEMMA AllStars ==
    ASSUME NEW mask \in Seq(Char), NEW s \in Seq(Char), NEW p \in 0 .. Len(mask),
           NEW q \in 0 .. Len(mask), CutAt(mask, p, q), p > 0, q = p
    PROVE  Glob(mask, s)
<1>1. q = Len(mask)
  <2> SUFFICES ASSUME q < Len(mask) PROVE FALSE
    BY DEF CutAt
  <2> QED BY DEF CutAt
<1> DEFINE k == Len(s)
<1>2. k \in 0 .. Len(s) /\ k + (q - p) = k
  OBVIOUS
<1>3. ChunkAt(mask, p, q, s, k)
  BY <1>2 DEF ChunkAt
<1>4. From(mask, q) \in Seq(Char) /\ Len(From(mask, q)) = 0
  BY <1>1, RestFacts
<1>5. From(s, k) \in Seq(Char) /\ Len(From(s, k)) = 0
  <2>1. From(s, k) \in Seq(Char) /\ Len(From(s, k)) = Len(s) - k
    BY <1>2, FromFacts
  <2> QED BY <2>1
<1>6. Glob(From(mask, q), From(s, k + (q - p)))
  BY <1>2, <1>4, <1>5, GlobEmpty
<1> HIDE DEF k
<1> QED BY <1>2, <1>3, <1>6, GlobJoin

HasWide(s)    == \E i \in 1 .. Len(s) : s[i] \in Wide
HasStar(mask) == \E i \in 1 .. Len(mask) : mask[i] = "*"

\* The loop goes on with less of the mask, which matches what is left of the text exactly if
\* mask matches s; or the answer is right.
Rightly(mask, s, st) ==
    \/ \E m, t \in Seq(Char) :
          /\ st = Matching(m, t) /\ Len(m) < Len(mask) /\ (Glob(m, t) <=> Glob(mask, s))
          /\ (HasWide(t) => HasWide(s)) /\ (HasStar(m) => HasStar(mask))
    \/ st.answer = "yes" /\ Glob(mask, s)
    \/ st.answer = "no" /\ ~Glob(mask, s)
    \/ st.answer = "panic" /\ HasWide(s) /\ HasStar(mask)

LEMMA AnswerFacts ==
    ASSUME NEW m, NEW t, NEW answer
    PROVE  /\ Answer(Matching(m, t), answer).answer = answer
           /\ Matching(m, t).mask = m /\ Matching(m, t).s = t /\ Matching(m, t).answer = "none"
BY DEF Answer, Matching

\* What is cut off brings neither a star nor a character of several bytes.
LEMMA FromHas ==
    ASSUME NEW s \in Seq(Char), NEW k \in 0 .. Len(s)
    PROVE  (HasWide(From(s, k)) => HasWide(s)) /\ (HasStar(From(s, k)) => HasStar(s))
<1> DEFINE t == From(s, k)
<1>1. Len(t) = Len(s) - k /\ \A i \in 1 .. Len(s) - k : t[i] = s[k + i]
  BY FromFacts
<1> HIDE DEF t
<1>2. ASSUME NEW i \in 1 .. Len(t) PROVE k + i \in 1 .. Len(s) /\ t[i] = s[k + i]
  BY <1>1
<1>3. (HasWide(t) => HasWide(s)) /\ (HasStar(t) => HasStar(s))
  BY <1>2 DEF HasWide, HasStar
<1> QED BY <1>3 DEF t

\* The loop goes on after the first place of the chunk.
LEMMA GoesOn ==
    ASSUME NEW mask \in Seq(Char), mask # <<>>, NEW s \in Seq(Char), NEW p \in 0 .. Len(mask),
           NEW q \in 0 .. Len(mask), CutAt(mask, p, q),
           NEW k \in 0 .. Len(s), p = 0 => k = 0, Place(mask, p, q, s, k),
           \A j \in 0 .. Len(s) : Place(mask, p, q, s, j) => k <= j
    PROVE  Rightly(mask, s, Matching(From(mask, q), From(s, k + (q - p))))
<1> DEFINE m == From(mask, q)
           t == From(s, k + (q - p))
<1>1. Glob(mask, s) <=> Glob(m, t)
  BY FirstPlace
<1>2. k + (q - p) \in 0 .. Len(s) /\ q > 0
  BY DEF Place, ChunkAt, CutAt
<1>3. m \in Seq(Char) /\ Len(m) = Len(mask) - q
  BY FromFacts
<1>4. t \in Seq(Char)
  BY <1>2, FromFacts
<1>5. (HasWide(t) => HasWide(s)) /\ (HasStar(m) => HasStar(mask))
  BY <1>2, FromHas
<1>6. Len(m) < Len(mask)
  BY <1>2, <1>3
<1> HIDE DEF m, t
<1>7. Rightly(mask, s, Matching(m, t))
  BY <1>1, <1>3, <1>4, <1>5, <1>6 DEF Rightly
<1> QED BY <1>7 DEF m, t

LEMMA TurnFacts ==
    ASSUME NEW mask \in Seq(Char), NEW s \in Seq(Char)
    PROVE  Rightly(mask, s, Turn(Matching(mask, s)))
<1> DEFINE st      == Matching(mask, s)
           scanned == scan_chunk(mask)
           chunk   == scanned[2]
           rest    == scanned[3]
           places  == {k \in 0 .. Len(s) : Fits(chunk, rest, From(s, k))}
           panics  == \E i \in 1 .. Min(places \cup {Len(s)}) : s[i] \in Wide
<1>1. Turn(st) =
        IF mask = <<>> THEN Answer(st, IF s = <<>> THEN "yes" ELSE "no")
        ELSE IF scanned[1] > 0 /\ chunk = <<>> THEN Answer(st, "yes")
        ELSE IF 0 \in places THEN Matching(rest, From(s, Len(chunk)))
        ELSE IF ~(scanned[1] > 0) THEN Answer(st, "no")
        ELSE IF panics THEN Answer(st, "panic")
        ELSE IF places = {} THEN Answer(st, "no")
        ELSE Matching(rest, From(s, Min(places) + Len(chunk)))
  BY DEF Turn, Matching
<1>2. PICK p \in 0 .. Len(mask), q \in 0 .. Len(mask) :
              /\ CutAt(mask, p, q) /\ scanned[1] = p
              /\ chunk \in Seq(Char) /\ Len(chunk) = q - p
              /\ \A i \in 1 .. q - p : chunk[i] = mask[p + i]
              /\ rest = From(mask, q)
  BY ScanFacts
<1>3. q \in p .. Len(mask)
  BY <1>2 DEF CutAt
<1>4. \A a : Answer(st, a).answer = a
  BY AnswerFacts
<1> HIDE DEF st, scanned
<1>5. \A k \in 0 .. Len(s) : k \in places <=> Place(mask, p, q, s, k)
  <2> HIDE DEF chunk, rest
  <2> SUFFICES ASSUME NEW k \in 0 .. Len(s)
               PROVE  Fits(chunk, rest, From(s, k)) <=> Place(mask, p, q, s, k)
    OBVIOUS
  <2> QED BY <1>2, <1>3, FitsIs
<1>6. places \in SUBSET Nat /\ places \subseteq 0 .. Len(s)
  OBVIOUS
<1> HIDE DEF chunk, rest, places
<1>7. CASE mask = <<>>
  <2>1. Glob(mask, s) <=> Len(s) = 0
    BY <1>7, GlobEmpty
  <2>2. Turn(st) = Answer(st, IF s = <<>> THEN "yes" ELSE "no")
    BY <1>1, <1>7
  <2>3. CASE s = <<>>
    <3>1. Turn(st).answer = "yes"
      BY <1>4, <2>2, <2>3
    <3> QED BY <2>1, <2>3, <3>1 DEF Rightly, st
  <2>4. CASE s # <<>>
    <3>1. Turn(st).answer = "no"
      BY <1>4, <2>2, <2>4
    <3> QED BY <2>1, <2>4, <3>1 DEF Rightly, st
  <2> QED BY <2>3, <2>4
<1>8. CASE mask # <<>> /\ p > 0 /\ chunk = <<>>
  <2>1. Turn(st) = Answer(st, "yes")
    BY <1>1, <1>2, <1>8
  <2>2. q = p
    BY <1>2, <1>8
  <2>3. Glob(mask, s)
    BY <1>2, <1>8, <2>2, AllStars
  <2>4. Turn(st).answer = "yes"
    BY <1>4, <2>1
  <2> QED BY <2>3, <2>4 DEF Rightly, st
<1>9. CASE mask # <<>> /\ ~(p > 0 /\ chunk = <<>>) /\ 0 \in places
  <2>1. Turn(st) = Matching(From(mask, q), From(s, Len(chunk)))
    BY <1>1, <1>2, <1>9
  <2> DEFINE k == 0
  <2>2. k \in 0 .. Len(s) /\ Place(mask, p, q, s, k) /\ \A j \in 0 .. Len(s) : k <= j
    BY <1>5, <1>9
  <2>3. k + (q - p) = Len(chunk)
    BY <1>2, <1>3
  <2>4. p = 0 => k = 0
    OBVIOUS
  <2> HIDE DEF k
  <2>5. Rightly(mask, s, Matching(From(mask, q), From(s, k + (q - p))))
    BY <1>2, <1>9, <2>2, <2>4, GoesOn
  <2> QED BY <2>1, <2>3, <2>5 DEF st
<1>10. CASE mask # <<>> /\ p = 0 /\ 0 \notin places
  <2>1. Turn(st) = Answer(st, "no")
    BY <1>1, <1>2, <1>10
  <2>2. ~Glob(mask, s)
    <3> SUFFICES ASSUME Glob(mask, s) PROVE FALSE
      OBVIOUS
    <3>1. PICK k \in 0 .. Len(s) : (p = 0 => k = 0) /\ Place(mask, p, q, s, k)
      BY <1>2, NoPlace
    <3>2. k = 0 /\ k \in places
      BY <1>5, <1>10, <3>1
    <3> QED BY <1>10, <3>2
  <2>3. Turn(st).answer = "no"
    BY <1>4, <2>1
  <2> QED BY <2>2, <2>3 DEF Rightly, st
<1>11. CASE mask # <<>> /\ p > 0 /\ chunk # <<>> /\ 0 \notin places
  <2>1. Turn(st) = IF panics THEN Answer(st, "panic")
                   ELSE IF places = {} THEN Answer(st, "no")
                   ELSE Matching(rest, From(s, Min(places) + Len(chunk)))
    BY <1>1, <1>2, <1>11
  <2>2. CASE panics
    <3>1. Turn(st).answer = "panic"
      BY <1>4, <2>1, <2>2
    <3>2. HasStar(mask)
      <4>1. 1 \in 1 .. p /\ 1 \in 1 .. Len(mask) /\ mask[1] = "*"
        BY <1>2, <1>11 DEF CutAt
      <4> QED BY <4>1 DEF HasStar
    <3>3. HasWide(s)
      <4> DEFINE T == places \cup {Len(s)}
      <4>1. T \in SUBSET Nat /\ T # {} /\ Len(s) \in T
        <5>1. Len(s) \in Nat
          OBVIOUS
        <5> QED BY <1>6, <5>1
      <4> HIDE DEF T
      <4>2. Min(T) \in Nat /\ Min(T) <= Len(s)
        BY <4>1, MinFacts
      <4>3. \E i \in 1 .. Min(T) : s[i] \in Wide
        BY <2>2 DEF T
      <4> QED BY <4>2, <4>3 DEF HasWide
    <3> QED BY <3>1, <3>2, <3>3 DEF Rightly, st
  <2>3. CASE ~panics /\ places = {}
    <3>1. Turn(st) = Answer(st, "no")
      BY <2>1, <2>3
    <3>2. ~Glob(mask, s)
      <4> SUFFICES ASSUME Glob(mask, s) PROVE FALSE
        OBVIOUS
      <4>1. PICK k \in 0 .. Len(s) : Place(mask, p, q, s, k)
        BY <1>2, NoPlace
      <4> QED BY <1>5, <2>3, <4>1
    <3>3. Turn(st).answer = "no"
      BY <1>4, <3>1
    <3> QED BY <3>2, <3>3 DEF Rightly, st
  <2>4. CASE ~panics /\ places # {}
    <3> DEFINE k == Min(places)
    <3>1. k \in places /\ \A j \in places : k <= j
      BY <1>6, <2>4, MinFacts
    <3> HIDE DEF k
    <3>2. Turn(st) = Matching(From(mask, q), From(s, k + (q - p)))
      BY <1>2, <2>1, <2>4 DEF k
    <3>3. k \in 0 .. Len(s) /\ Place(mask, p, q, s, k)
          /\ \A j \in 0 .. Len(s) : Place(mask, p, q, s, j) => k <= j
      BY <1>5, <1>6, <3>1
    <3>4. p = 0 => k = 0
      BY <1>11
    <3>5. Rightly(mask, s, Matching(From(mask, q), From(s, k + (q - p))))
      BY <1>2, <1>11, <3>3, <3>4, GoesOn
    <3> QED BY <3>2, <3>5 DEF st
  <2> QED BY <2>2, <2>3, <2>4
<1> QED BY <1>7, <1>8, <1>9, <1>10, <1>11, <1>2 DEF st

-----------------------------------------------------------------------------
(* The whole loop *)

Then(st) == IF st.answer = "none" THEN Turn(st) ELSE st

\* The recursive definition of Turns defines a function: for every k there is one on 0 .. k.
LEMMA TurnsDef ==
    ASSUME NEW mask \in Seq(Char), NEW s
    PROVE  Turns(mask, s) = [k \in 0 .. Len(mask) + 1 |->
              IF k = 0 THEN Matching(mask, s) ELSE Then(Turns(mask, s)[k - 1])]
<1> DEFINE Obeys(g, n) ==
             g = [k \in 0 .. n |-> IF k = 0 THEN Matching(mask, s) ELSE Then(g[k - 1])]
           T == {n \in Nat : \E g : Obeys(g, n)}
           N == Len(mask) + 1
<1>1. 0 \in T
  <2> DEFINE g == [k \in 0 .. 0 |-> Matching(mask, s)]
  <2>1. Obeys(g, 0)
    OBVIOUS
  <2> QED BY <2>1
<1>2. ASSUME NEW n \in Nat, n \in T PROVE n + 1 \in T
  <2>1. PICK g : Obeys(g, n)
    BY <1>2
  <2> DEFINE h == [k \in 0 .. n + 1 |-> IF k = n + 1 THEN Then(g[n]) ELSE g[k]]
  <2>2. ASSUME NEW k \in 0 .. n + 1
        PROVE  h[k] = IF k = 0 THEN Matching(mask, s) ELSE Then(h[k - 1])
    <3>1. CASE k = n + 1
      BY <3>1
    <3>2. CASE k # n + 1
      <4>1. k \in 0 .. n /\ h[k] = g[k]
        BY <3>2
      <4>2. g[k] = IF k = 0 THEN Matching(mask, s) ELSE Then(g[k - 1])
        BY <2>1, <4>1
      <4>3. k # 0 => h[k - 1] = g[k - 1]
        BY <4>1
      <4> QED BY <4>1, <4>2, <4>3
    <3> QED BY <3>1, <3>2
  <2> HIDE DEF h
  <2>3. Obeys(h, n + 1)
    BY <2>2 DEF h
  <2>4. \E f : Obeys(f, n + 1)
    BY <2>3
  <2>5. n + 1 \in Nat
    OBVIOUS
  <2> HIDE DEF Obeys
  <2> QED BY <2>4, <2>5
<1>3. N \in T
  <2> HIDE DEF T
  <2>1. \A n \in Nat : n \in T
    BY <1>1, <1>2, SetInduction
  <2> QED BY <2>1
<1>4. \E g : Obeys(g, N)
  BY <1>3
<1>5. Turns(mask, s) = CHOOSE g : Obeys(g, N)
  BY DEF Turns, Then
<1>6. Obeys(Turns(mask, s), N)
  <2> HIDE DEF Obeys
  <2> QED BY <1>4, <1>5
<1> QED BY <1>6

\* Where the loop is after k turns.
After(mask, s, k, st) ==
    \/ \E m, t \in Seq(Char) :
          /\ st = Matching(m, t) /\ Len(m) + k <= Len(mask) /\ (Glob(m, t) <=> Glob(mask, s))
          /\ (HasWide(t) => HasWide(s)) /\ (HasStar(m) => HasStar(mask))
    \/ st.answer = "yes" /\ Glob(mask, s)
    \/ st.answer = "no" /\ ~Glob(mask, s)
    \/ st.answer = "panic" /\ HasWide(s) /\ HasStar(mask)

LEMMA AfterThen ==
    ASSUME NEW mask \in Seq(Char), NEW s \in Seq(Char), NEW k \in Nat, NEW st,
           After(mask, s, k, st)
    PROVE  After(mask, s, k + 1, Then(st))
<1>1. CASE st.answer \in {"yes", "no", "panic"}
  <2>1. Then(st) = st
    BY <1>1 DEF Then
  <2>2. ASSUME NEW m, NEW t PROVE st # Matching(m, t)
    BY <1>1, AnswerFacts
  <2>3. \/ st.answer = "yes" /\ Glob(mask, s)
        \/ st.answer = "no" /\ ~Glob(mask, s)
        \/ st.answer = "panic" /\ HasWide(s) /\ HasStar(mask)
    BY <2>2 DEF After
  <2> QED BY <2>1, <2>3 DEF After
<1>2. CASE st.answer \notin {"yes", "no", "panic"}
  <2>1. PICK m \in Seq(Char), t \in Seq(Char) :
          /\ st = Matching(m, t) /\ Len(m) + k <= Len(mask) /\ (Glob(m, t) <=> Glob(mask, s))
          /\ (HasWide(t) => HasWide(s)) /\ (HasStar(m) => HasStar(mask))
    BY <1>2 DEF After
  <2>2. Then(st) = Turn(Matching(m, t))
    BY <2>1, AnswerFacts DEF Then
  <2> DEFINE u == Turn(Matching(m, t))
  <2>3. Rightly(m, t, u)
    BY TurnFacts
  <2> HIDE DEF u
  <2>4. CASE \E m2, t2 \in Seq(Char) :
               /\ u = Matching(m2, t2) /\ Len(m2) < Len(m) /\ (Glob(m2, t2) <=> Glob(m, t))
               /\ (HasWide(t2) => HasWide(t)) /\ (HasStar(m2) => HasStar(m))
    <3>1. PICK m2 \in Seq(Char), t2 \in Seq(Char) :
               /\ u = Matching(m2, t2) /\ Len(m2) < Len(m) /\ (Glob(m2, t2) <=> Glob(m, t))
               /\ (HasWide(t2) => HasWide(t)) /\ (HasStar(m2) => HasStar(m))
      BY <2>4
    <3>2. Len(m2) + (k + 1) <= Len(mask)
      BY <2>1, <3>1
    <3>3. After(mask, s, k + 1, u)
      BY <2>1, <3>1, <3>2 DEF After
    <3> QED BY <2>2, <3>3 DEF u
  <2>5. CASE u.answer = "yes" /\ Glob(m, t)
    BY <2>1, <2>2, <2>5 DEF After, u
  <2>6. CASE u.answer = "no" /\ ~Glob(m, t)
    BY <2>1, <2>2, <2>6 DEF After, u
  <2>7. CASE u.answer = "panic" /\ HasWide(t) /\ HasStar(m)
    BY <2>1, <2>2, <2>7 DEF After, u
  <2> QED BY <2>3, <2>4, <2>5, <2>6, <2>7 DEF Rightly
<1> QED BY <1>1, <1>2

\* match_mask decides, for every mask and every text, whether the text can be cut as the
\* definition of masks says: skipping to the first place of each chunk loses nothing, and
\* the last chunk is only accepted at the end.  Only a star and a character of several bytes
\* make it panic, and the loop ends.
THEOREM MatchMaskIsGlob ==
    ASSUME NEW mask \in Seq(Char), NEW s \in Seq(Char)
    PROVE  \/ match_mask(mask, s) = "yes" /\ Glob(mask, s)
           \/ match_mask(mask, s) = "no" /\ ~Glob(mask, s)
           \/ match_mask(mask, s) = "panic" /\ HasWide(s) /\ HasStar(mask)
<1>1. mask \in Seq(Char) /\ s \in Seq(Char)
  OBVIOUS
<1> DEFINE U == Turns(mask, s)
           T == {k \in Nat : k <= Len(mask) + 1 => After(mask, s, k, U[k])}
<1> HIDE DEF U
<1>2. U = [k \in 0 .. Len(mask) + 1 |-> IF k = 0 THEN Matching(mask, s) ELSE Then(U[k - 1])]
  BY <1>1, TurnsDef DEF U
<1>3. 0 \in T
  <2>1. U[0] = Matching(mask, s)
    BY <1>2
  <2>2. Len(mask) + 0 <= Len(mask)
    BY <1>1
  <2>3. After(mask, s, 0, Matching(mask, s))
    BY <1>1, <2>2 DEF After
  <2> QED BY <2>1, <2>3
<1>4. ASSUME NEW k \in Nat, k \in T PROVE k + 1 \in T
  <2> SUFFICES ASSUME k + 1 <= Len(mask) + 1 PROVE After(mask, s, k + 1, U[k + 1])
    OBVIOUS
  <2>1. After(mask, s, k, U[k])
    BY <1>1, <1>4
  <2>2. U[k + 1] = Then(U[k])
    BY <1>1, <1>2
  <2> QED BY <1>1, <2>1, <2>2, AfterThen
<1>5. After(mask, s, Len(mask) + 1, U[Len(mask) + 1])
  <2> HIDE DEF T
  <2>1. \A k \in Nat : k \in T
    BY <1>3, <1>4, SetInduction
  <2> QED BY <2>1 DEF T
<1>6. ASSUME NEW m \in Seq(Char), Len(m) + (Len(mask) + 1) <= Len(mask) PROVE FALSE
  BY <1>6
<1>7. match_mask(mask, s) = U[Len(mask) + 1].answer
  BY DEF match_mask, U
<1> QED BY <1>5, <1>6, <1>7 DEF After

-----------------------------------------------------------------------------
(* Texts with a character between two parts *)

\* Two sequences of characters with a character between them.
Cut(u, c, v) == Append(u, c) \o v

\* w is u and v with c between them.
IsCut(w, u, c, v) ==
    /\ w \in Seq(Char) /\ Len(w) = Len(u) + 1 + Len(v) /\ w[Len(u) + 1] = c
    /\ (\A i \in 1 .. Len(u) : w[i] = u[i]) /\ \A i \in 1 .. Len(v) : w[Len(u) + 1 + i] = v[i]

LEMMA CutFacts ==
    ASSUME NEW u \in Seq(Char), NEW c \in Char, NEW v \in Seq(Char)
    PROVE  /\ Cut(u, c, v) \in Seq(Char) /\ Len(Cut(u, c, v)) = Len(u) + 1 + Len(v)
           /\ \A i \in 1 .. Len(u) : Cut(u, c, v)[i] = u[i]
           /\ Cut(u, c, v)[Len(u) + 1] = c
           /\ \A i \in 1 .. Len(v) : Cut(u, c, v)[Len(u) + 1 + i] = v[i]
<1> DEFINE x == Append(u, c)
<1>2. x \in Seq(Char) /\ Len(x) = Len(u) + 1 /\ x[Len(u) + 1] = c
      /\ \A i \in 1 .. Len(u) : x[i] = u[i]
  OBVIOUS
<1> HIDE DEF x
<1>3. x \o v \in Seq(Char) /\ Len(x \o v) = Len(x) + Len(v)
      /\ (\A i \in 1 .. Len(x) : (x \o v)[i] = x[i])
      /\ \A i \in 1 .. Len(v) : (x \o v)[Len(x) + i] = v[i]
  BY <1>2
<1>4. Cut(u, c, v) = x \o v
  BY DEF Cut, x
<1>5. Len(u) + 1 \in 1 .. Len(x) /\ \A i \in 1 .. Len(u) : i \in 1 .. Len(x)
  BY <1>2
<1> QED BY <1>2, <1>3, <1>4, <1>5

LEMMA CutIsCut ==
    ASSUME NEW u \in Seq(Char), NEW c \in Char, NEW v \in Seq(Char)
    PROVE  IsCut(Cut(u, c, v), u, c, v)
<1> DEFINE w == Cut(u, c, v)
<1>1. w \in Seq(Char) /\ Len(w) = Len(u) + 1 + Len(v)
  BY CutFacts
<1>2. \A i \in 1 .. Len(u) : w[i] = u[i]
  BY CutFacts
<1>3. w[Len(u) + 1] = c
  BY CutFacts
<1>4. \A i \in 1 .. Len(v) : w[Len(u) + 1 + i] = v[i]
  BY CutFacts
<1> HIDE DEF w
<1>5. IsCut(w, u, c, v)
  BY <1>1, <1>2, <1>3, <1>4 DEF IsCut
<1> QED BY <1>5 DEF w

\* Where the pieces of such a text start.
LEMMA CutPlaces ==
    ASSUME NEW u \in Seq(Char), NEW c \in Char, NEW v \in Seq(Char)
    PROVE  /\ \A a \in 0 .. Len(u) : a \in Starts(Cut(u, c, v), c) <=> a \in Starts(u, c)
           /\ \A a \in 0 .. Len(v) : Len(u) + 1 + a \in Starts(Cut(u, c, v), c) <=> a \in Starts(v, c)
           /\ \A x \in Starts(Cut(u, c, v), c) :
                x \in 0 .. Len(u) \/ \E a \in 0 .. Len(v) : x = Len(u) + 1 + a
<1> DEFINE w == Cut(u, c, v)
           n == Len(u) + 1
<1>0. IsCut(w, u, c, v)
  BY CutIsCut
<1> HIDE DEF w
<1>1. /\ w \in Seq(Char) /\ Len(w) = n + Len(v) /\ w[n] = c
      /\ (\A i \in 1 .. Len(u) : w[i] = u[i]) /\ \A i \in 1 .. Len(v) : w[n + i] = v[i]
  BY <1>0 DEF IsCut
<1>2. ASSUME NEW a \in 0 .. Len(u) PROVE a \in Starts(w, c) <=> a \in Starts(u, c)
  <2>1. a \in 0 .. Len(w) /\ (a = 0 \/ a \in 1 .. Len(u))
    BY <1>1
  <2>2. a = 0 \/ w[a] = u[a]
    BY <1>1, <2>1
  <2> QED BY <2>1, <2>2 DEF Starts
<1>3. ASSUME NEW a \in 0 .. Len(v) PROVE n + a \in Starts(w, c) <=> a \in Starts(v, c)
  <2>1. n + a \in 0 .. Len(w) /\ n + a # 0
    BY <1>1
  <2>2. CASE a = 0
    BY <1>1, <2>1, <2>2 DEF Starts
  <2>3. CASE a # 0
    <3>1. a \in 1 .. Len(v)
      BY <2>3
    <3>2. w[n + a] = v[a]
      BY <1>1, <3>1
    <3> QED BY <2>1, <2>3, <3>2 DEF Starts
  <2> QED BY <2>2, <2>3
<1>4. ASSUME NEW x \in Starts(w, c), x \notin 0 .. Len(u)
      PROVE  \E a \in 0 .. Len(v) : x = n + a
  <2>1. x \in 0 .. Len(w)
    BY DEF Starts
  <2>2. Len(u) \in Nat /\ Len(v) \in Nat /\ x \in 0 .. n + Len(v)
    BY <1>1, <2>1
  <2>3. x \in Nat /\ n <= x
    BY <1>4, <2>2
  <2> HIDE DEF n
  <2>4. x - n \in 0 .. Len(v) /\ x = n + (x - n)
    <3>1. n \in Nat
      BY DEF n
    <3> QED BY <2>2, <2>3, <3>1
  <2> QED BY <2>4
<1> HIDE DEF n
<1>5. /\ \A a \in 0 .. Len(u) : a \in Starts(w, c) <=> a \in Starts(u, c)
      /\ \A a \in 0 .. Len(v) : n + a \in Starts(w, c) <=> a \in Starts(v, c)
      /\ \A x \in Starts(w, c) : x \in 0 .. Len(u) \/ \E a \in 0 .. Len(v) : x = n + a
  BY <1>2, <1>3, <1>4
<1> QED BY <1>5 DEF w, n

\* Two pieces with the same characters are the same.
LEMMA PieceEqual ==
    ASSUME NEW c, NEW s \in Seq(Char), NEW a \in 0 .. Len(s),
           NEW t \in Seq(Char), NEW b \in 0 .. Len(t),
           End(s, c, a) - a = End(t, c, b) - b,
           \A i \in 1 .. End(s, c, a) - a : s[a + i] = t[b + i]
    PROVE  Piece(s, c, a) = Piece(t, c, b)
<1> DEFINE x == Piece(s, c, a)
           y == Piece(t, c, b)
           n == End(s, c, a) - a
<1>1. x \in Seq(Char) /\ Len(x) = n /\ \A i \in 1 .. n : x[i] = s[a + i]
  BY PieceFacts
<1>2. y \in Seq(Char) /\ Len(y) = n /\ \A i \in 1 .. n : y[i] = t[b + i]
  BY PieceFacts
<1>3. \A i \in 1 .. n : s[a + i] = t[b + i]
  OBVIOUS
<1>4. n \in Nat
  BY EndFacts
<1> HIDE DEF x, y, n
<1>5. x = y
  BY <1>1, <1>2, <1>3, <1>4, SeqEqual
<1> QED BY <1>5 DEF x, y

LEMMA CutPieces ==
    ASSUME NEW u \in Seq(Char), NEW c \in Char, NEW v \in Seq(Char)
    PROVE  /\ \A a \in 0 .. Len(u) : Piece(Cut(u, c, v), c, a) = Piece(u, c, a)
           /\ \A a \in 0 .. Len(v) : Piece(Cut(u, c, v), c, Len(u) + 1 + a) = Piece(v, c, a)
<1> DEFINE w == Cut(u, c, v)
           n == Len(u) + 1
<1>0. IsCut(w, u, c, v)
  BY CutIsCut
<1> HIDE DEF w
<1>1. /\ w \in Seq(Char) /\ Len(w) = n + Len(v) /\ w[n] = c
      /\ (\A i \in 1 .. Len(u) : w[i] = u[i]) /\ \A i \in 1 .. Len(v) : w[n + i] = v[i]
  BY <1>0 DEF IsCut
<1>2. ASSUME NEW a \in 0 .. Len(u) PROVE Piece(w, c, a) = Piece(u, c, a)
  <2> DEFINE e == End(u, c, a)
  <2>1. e \in a .. Len(u) /\ (\A i \in a + 1 .. e : u[i] # c) /\ (e < Len(u) => u[e + 1] = c)
    BY EndFacts
  <2> HIDE DEF e
  <2>2. a \in 0 .. Len(w) /\ e \in a .. Len(w)
    BY <1>1, <2>1
  <2>3. \A i \in a + 1 .. e : w[i] # c /\ w[i] = u[i]
    <3> SUFFICES ASSUME NEW i \in a + 1 .. e PROVE w[i] # c /\ w[i] = u[i]
      OBVIOUS
    <3>1. i \in 1 .. Len(u)
      BY <2>1
    <3> QED BY <1>1, <2>1, <3>1
  <2>4. w[e + 1] = c
    <3>1. CASE e = Len(u)
      BY <1>1, <3>1
    <3>2. CASE e # Len(u)
      <4>1. e + 1 \in 1 .. Len(u) /\ e < Len(u)
        BY <2>1, <3>2
      <4> QED BY <1>1, <2>1, <4>1
    <3> QED BY <3>1, <3>2
  <2>5. End(w, c, a) = e
    BY <1>1, <2>2, <2>3, <2>4, EndUnique
  <2>6. \A i \in 1 .. e - a : w[a + i] = u[a + i]
    <3> SUFFICES ASSUME NEW i \in 1 .. e - a PROVE w[a + i] = u[a + i]
      OBVIOUS
    <3>1. a + i \in a + 1 .. e
      BY <2>1
    <3> QED BY <2>3, <3>1
  <2> QED BY <1>1, <2>2, <2>5, <2>6, PieceEqual DEF e
<1>3. ASSUME NEW a \in 0 .. Len(v) PROVE Piece(w, c, n + a) = Piece(v, c, a)
  <2> DEFINE e == End(v, c, a)
             b == n + a
             f == n + e
  <2>1. e \in a .. Len(v) /\ (\A i \in a + 1 .. e : v[i] # c) /\ (e < Len(v) => v[e + 1] = c)
    BY EndFacts
  <2> HIDE DEF e
  <2>2. b \in 0 .. Len(w) /\ f \in b .. Len(w) /\ f - b = e - a
    <3>1. Len(w) = n + Len(v) /\ n \in Nat /\ Len(v) \in Nat /\ a \in Nat /\ e \in Nat
      BY <1>1, <2>1
    <3>2. a <= e /\ e <= Len(v)
      BY <2>1
    <3> HIDE DEF n
    <3> QED BY <3>1, <3>2
  <2>3. \A i \in b + 1 .. f : w[i] # c
    <3> SUFFICES ASSUME NEW i \in b + 1 .. f PROVE w[i] # c
      OBVIOUS
    <3> DEFINE j == i - n
    <3>1. j \in a + 1 .. e /\ j \in 1 .. Len(v) /\ n + j = i
      BY <2>1
    <3>2. v[j] # c
      BY <2>1, <3>1
    <3> HIDE DEF j, n
    <3>3. w[n + j] = v[j]
      BY <1>1, <3>1
    <3> QED BY <3>1, <3>2, <3>3
  <2>4. f = Len(w) \/ w[f + 1] = c
    <3>1. CASE e = Len(v)
      BY <1>1, <3>1
    <3>2. CASE e # Len(v)
      <4>1. e + 1 \in 1 .. Len(v) /\ e < Len(v) /\ n + (e + 1) = f + 1
        BY <2>1, <3>2
      <4> QED BY <1>1, <2>1, <4>1
    <3> QED BY <3>1, <3>2
  <2>5. \A i \in 1 .. e - a : w[b + i] = v[a + i]
    <3> SUFFICES ASSUME NEW i \in 1 .. e - a PROVE w[b + i] = v[a + i]
      OBVIOUS
    <3>1. a + i \in 1 .. Len(v) /\ n + (a + i) = b + i
      BY <2>1
    <3> QED BY <1>1, <3>1
  <2> HIDE DEF b, f, n
  <2>6. End(w, c, b) = f
    <3>1. b \in 0 .. Len(w) /\ f \in b .. Len(w)
      BY <2>2
    <3> QED BY <1>1, <2>3, <2>4, <3>1, EndUnique
  <2>7. Piece(w, c, b) = Piece(v, c, a)
    BY <1>1, <2>2, <2>5, <2>6, PieceEqual DEF e
  <2> QED BY <2>7 DEF b
<1> QED BY <1>2, <1>3 DEF w

-----------------------------------------------------------------------------
(* Lists with a comma between two parts *)

Join(u, v) == Append(u, Comma) \o v

LEMMA JoinIsCut == ASSUME NEW u, NEW v PROVE Join(u, v) = Cut(u, Comma, v)
BY DEF Join, Cut

LEMMA CommaIsChar == Comma \in Char
BY DEF Char

LEMMA JoinFacts ==
    ASSUME NEW u \in Seq(Char), NEW v \in Seq(Char)
    PROVE  /\ Join(u, v) \in Seq(Char) /\ Len(Join(u, v)) = Len(u) + 1 + Len(v)
           /\ \A i \in 1 .. Len(u) : Join(u, v)[i] = u[i]
           /\ Join(u, v)[Len(u) + 1] = Comma
           /\ \A i \in 1 .. Len(v) : Join(u, v)[Len(u) + 1 + i] = v[i]
<1> DEFINE w == Cut(u, Comma, v)
<1>0. IsCut(w, u, Comma, v)
  BY CommaIsChar, CutIsCut
<1>2. Join(u, v) = w
  BY JoinIsCut
<1> HIDE DEF w
<1>1. /\ w \in Seq(Char) /\ Len(w) = Len(u) + 1 + Len(v) /\ w[Len(u) + 1] = Comma
      /\ (\A i \in 1 .. Len(u) : w[i] = u[i]) /\ \A i \in 1 .. Len(v) : w[Len(u) + 1 + i] = v[i]
  BY <1>0 DEF IsCut
<1> QED BY <1>1, <1>2

\* Where the masks of such a list start and what they are.
LEMMA JoinPlaces ==
    ASSUME NEW u \in Seq(Char), NEW v \in Seq(Char)
    PROVE  /\ \A a \in 0 .. Len(u) : a \in Places(Join(u, v)) <=> a \in Places(u)
           /\ \A a \in 0 .. Len(v) : Len(u) + 1 + a \in Places(Join(u, v)) <=> a \in Places(v)
           /\ \A x \in Places(Join(u, v)) :
                x \in 0 .. Len(u) \/ \E a \in 0 .. Len(v) : x = Len(u) + 1 + a
BY JoinIsCut, CommaIsChar, CutPlaces DEF Places

LEMMA JoinMask ==
    ASSUME NEW u \in Seq(Char), NEW v \in Seq(Char)
    PROVE  /\ \A a \in 0 .. Len(u) : Mask(Join(u, v), a) = Mask(u, a)
           /\ \A a \in 0 .. Len(v) : Mask(Join(u, v), Len(u) + 1 + a) = Mask(v, a)
BY JoinIsCut, CommaIsChar, CutPieces DEF Mask

-----------------------------------------------------------------------------
(* How often a mask is on a list *)

At(list, m)    == {a \in Places(list) : Mask(list, a) = m}
Count(list, m) == Cardinality(At(list, m))

LEMMA AtFacts ==
    ASSUME NEW list \in Seq(Char), NEW m
    PROVE  /\ At(list, m) \subseteq 0 .. Len(list) /\ IsFiniteSet(At(list, m))
           /\ Count(list, m) \in Nat /\ (Count(list, m) = 0 <=> At(list, m) = {})
<1>1. At(list, m) \subseteq 0 .. Len(list)
  BY DEF At, Places, Starts
<1>2. IsFiniteSet(0 .. Len(list))
  BY FS_Interval
<1>3. IsFiniteSet(At(list, m))
  BY <1>1, <1>2, FS_Subset
<1> QED BY <1>1, <1>3, FS_CardinalityType, FS_EmptySet DEF Count

\* Parts is the bag with these counts.
LEMMA PartsFacts ==
    ASSUME NEW list \in Seq(Char)
    PROVE  /\ Parts(list) = [m \in DOMAIN Parts(list) |-> Count(list, m)]
           /\ \A m : m \in DOMAIN Parts(list) <=> m # <<>> /\ Count(list, m) > 0
<1> DEFINE D == {Mask(list, a) : a \in Places(list)} \ {<<>>}
<1>1. Parts(list) = [m \in D |-> Count(list, m)]
  BY DEF Parts, Count, At
<1>2. ASSUME NEW m PROVE m \in D <=> m # <<>> /\ Count(list, m) > 0
  <2>1. Count(list, m) > 0 <=> At(list, m) # {}
    BY AtFacts
  <2> QED BY <2>1 DEF At
<1> HIDE DEF D
<1>3. DOMAIN Parts(list) = D
  BY <1>1
<1> QED BY <1>1, <1>2, <1>3

\* Two bags of masks are equal if they have every mask equally often.
LEMMA PartsEqual ==
    ASSUME NEW l1 \in Seq(Char), NEW l2 \in Seq(Char),
           \A m : m # <<>> => Count(l1, m) = Count(l2, m)
    PROVE  Parts(l1) = Parts(l2)
<1>1. DOMAIN Parts(l1) = DOMAIN Parts(l2)
  BY PartsFacts
<1> QED BY <1>1, PartsFacts

\* A list of two parts has what is on either of them.
LEMMA JoinCount ==
    ASSUME NEW u \in Seq(Char), NEW v \in Seq(Char), NEW m
    PROVE  Join(u, v) \in Seq(Char) /\ Count(Join(u, v), m) = Count(u, m) + Count(v, m)
<1> DEFINE w == Join(u, v)
           n == Len(u) + 1
           A == At(u, m)
           B == At(v, m)
           C == {n + a : a \in B}
           f == [a \in B |-> n + a]
<1>1. /\ \A a \in 0 .. Len(u) : a \in Places(w) <=> a \in Places(u)
      /\ \A a \in 0 .. Len(v) : n + a \in Places(w) <=> a \in Places(v)
      /\ \A x \in Places(w) : x \in 0 .. Len(u) \/ \E a \in 0 .. Len(v) : x = n + a
  BY JoinPlaces
<1>2. /\ \A a \in 0 .. Len(u) : Mask(w, a) = Mask(u, a)
      /\ \A a \in 0 .. Len(v) : Mask(w, n + a) = Mask(v, a)
  BY JoinMask
<1>3. A \subseteq 0 .. Len(u) /\ B \subseteq 0 .. Len(v) /\ IsFiniteSet(A) /\ IsFiniteSet(B)
  BY AtFacts
<1>4. n \in Nat /\ n > Len(u) /\ Len(u) \in Nat /\ Len(v) \in Nat
  OBVIOUS
<1> HIDE DEF w, n
<1>5. At(w, m) = A \cup C
  <2>1. ASSUME NEW x \in At(w, m) PROVE x \in A \cup C
    <3>1. x \in Places(w) /\ Mask(w, x) = m
      BY <2>1 DEF At
    <3>2. CASE x \in 0 .. Len(u)
      BY <1>1, <1>2, <3>1, <3>2 DEF At
    <3>3. CASE \E a \in 0 .. Len(v) : x = n + a
      <4>1. PICK a \in 0 .. Len(v) : x = n + a
        BY <3>3
      <4>2. a \in B
        BY <1>1, <1>2, <3>1, <4>1 DEF At
      <4> QED BY <4>1, <4>2
    <3> QED BY <1>1, <3>1, <3>2, <3>3
  <2>2. ASSUME NEW x \in A PROVE x \in At(w, m)
    BY <1>1, <1>2, <1>3 DEF At
  <2>3. ASSUME NEW a \in B PROVE n + a \in At(w, m)
    BY <1>1, <1>2, <1>3 DEF At
  <2> QED BY <2>1, <2>2, <2>3
<1> HIDE DEF A, B
<1>6. A \cap C = {}
  <2> SUFFICES ASSUME NEW a \in B, n + a \in A PROVE FALSE
    OBVIOUS
  <2> QED BY <1>3, <1>4
<1>7. IsFiniteSet(C) /\ Cardinality(C) = Cardinality(B)
  <2>1. \A x, y \in B : f[x] = f[y] => x = y
    BY <1>3, <1>4
  <2>2. f \in [B -> C] /\ \A c \in C : \E b \in B : f[b] = c
    OBVIOUS
  <2>3. f \in Bijection(B, C)
    <3> HIDE DEF f, C
    <3> QED BY <2>1, <2>2, Fun_IsBij
  <2> HIDE DEF f, C
  <2> QED BY <1>3, <2>3, FS_Bijection, Fun_ExistsBij
<1> HIDE DEF C
<1>8. Cardinality(A \cup C) = Cardinality(A) + Cardinality(C)
  <2>1. Cardinality(A \cup C) = Cardinality(A) + Cardinality(C) - Cardinality(A \cap C)
    BY <1>3, <1>7, FS_Union
  <2>2. Cardinality(A \cap C) = 0
    BY <1>6, FS_EmptySet
  <2>3. Cardinality(A) \in Nat /\ Cardinality(C) \in Nat
    BY <1>3, <1>7, FS_CardinalityType
  <2> QED BY <2>1, <2>2, <2>3
<1> QED BY <1>5, <1>7, <1>8, JoinFacts DEF Count, A, B, w

\* The empty list has no mask.
LEMMA EmptyCount ==
    ASSUME NEW list \in Seq(Char), Len(list) = 0, NEW m, m # <<>>
    PROVE  Count(list, m) = 0
<1>1. ASSUME NEW a \in At(list, m) PROVE FALSE
  <2>1. At(list, m) \subseteq 0 .. Len(list)
    BY AtFacts
  <2>2. a \in 0 .. Len(list) /\ Mask(list, a) = m
    BY <1>1, <2>1 DEF At
  <2>3. End(list, Comma, a) \in a .. Len(list)
    BY <2>2, EndFacts
  <2>4. m \in Seq(Char) /\ Len(m) = End(list, Comma, a) - a
    BY <2>2, PieceFacts DEF Mask
  <2>5. Len(m) = 0
    BY <2>2, <2>3, <2>4
  <2> QED BY <2>4, <2>5
<1> QED BY <1>1, AtFacts

\* A mask without commas is on the list that consists of it once, and no other mask is.
LEMMA SingleCount ==
    ASSUME NEW mask \in Seq(Char), \A i \in 1 .. Len(mask) : mask[i] # Comma, NEW m
    PROVE  Count(mask, m) = IF m = mask THEN 1 ELSE 0
<1>1. ASSUME NEW a \in Places(mask) PROVE a = 0
  BY DEF Places, Starts
<1>2. 0 \in Places(mask)
  BY DEF Places, Starts
<1>3. End(mask, Comma, 0) = Len(mask)
  <2>1. 0 \in 0 .. Len(mask) /\ Len(mask) \in 0 .. Len(mask)
    OBVIOUS
  <2> QED BY <2>1, EndUnique
<1>4. Mask(mask, 0) = mask
  <2> DEFINE x == Piece(mask, Comma, 0)
  <2>1. x \in Seq(Char) /\ Len(x) = Len(mask) - 0 /\ \A i \in 1 .. Len(mask) - 0 : x[i] = mask[0 + i]
    BY <1>3, PieceFacts
  <2> HIDE DEF x
  <2>2. x = mask
    BY <2>1, SeqEqual
  <2> QED BY <2>2 DEF x, Mask
<1>5. CASE m = mask
  <2>1. At(mask, m) = {0}
    BY <1>1, <1>2, <1>4, <1>5 DEF At
  <2> QED BY <1>5, <2>1, FS_Singleton DEF Count
<1>6. CASE m # mask
  <2>1. At(mask, m) = {}
    BY <1>1, <1>2, <1>4, <1>6 DEF At
  <2> QED BY <1>6, <2>1, FS_EmptySet DEF Count
<1> QED BY <1>5, <1>6

-----------------------------------------------------------------------------
(* What a removal leaves *)

\* A list is what is before a comma of it and what is after that comma.
LEMMA CutComma ==
    ASSUME NEW s \in Seq(Char), NEW k \in 1 .. Len(s), s[k] = Comma
    PROVE  /\ SubSeq(s, 1, k - 1) \in Seq(Char) /\ From(s, k) \in Seq(Char)
           /\ SubSeq(s, 1, k) = Append(SubSeq(s, 1, k - 1), Comma)
           /\ s = Join(SubSeq(s, 1, k - 1), From(s, k))
<1> DEFINE u == SubSeq(s, 1, k - 1)
           v == From(s, k)
           l == SubSeq(s, 1, k)
           x == Append(u, Comma)
<1>1. u \in Seq(Char) /\ Len(u) = k - 1 /\ \A i \in 1 .. k - 1 : u[i] = s[i]
  <2>1. k - 1 \in Nat /\ 1 \in Nat \ {0} /\ 1 <= (k - 1) + 1 /\ k - 1 <= Len(s)
    OBVIOUS
  <2>2. u \in Seq(Char) /\ Len(u) = (k - 1) - 1 + 1
        /\ \A i \in 1 .. (k - 1) - 1 + 1 : u[i] = s[1 + i - 1]
    BY <2>1, Part
  <2> HIDE DEF u
  <2> QED BY <2>2
<1>2. l \in Seq(Char) /\ Len(l) = k /\ \A i \in 1 .. k : l[i] = s[i]
  <2>1. k \in Nat /\ 1 \in Nat \ {0} /\ 1 <= k + 1 /\ k <= Len(s)
    OBVIOUS
  <2>2. l \in Seq(Char) /\ Len(l) = k - 1 + 1 /\ \A i \in 1 .. k - 1 + 1 : l[i] = s[1 + i - 1]
    BY <2>1, Part
  <2> HIDE DEF l
  <2> QED BY <2>2
<1>3. v \in Seq(Char) /\ Len(v) = Len(s) - k /\ \A i \in 1 .. Len(s) - k : v[i] = s[k + i]
  <2>1. k \in 0 .. Len(s)
    OBVIOUS
  <2> QED BY <2>1, FromFacts
<1> HIDE DEF u, v, l
<1>4. l = x
  <2>1. Comma \in Char
    BY DEF Char
  <2>2. x \in Seq(Char) /\ Len(x) = Len(u) + 1 /\ x[Len(u) + 1] = Comma
        /\ \A i \in 1 .. Len(u) : x[i] = u[i]
    BY <1>1, <2>1
  <2> HIDE DEF x
  <2>3. Len(x) = k /\ Len(l) = k
    BY <1>1, <1>2, <2>2
  <2>4. ASSUME NEW i \in 1 .. Len(l) PROVE l[i] = x[i]
    <3>1. CASE i = k
      BY <1>1, <1>2, <2>2, <3>1
    <3>2. CASE i # k
      <4>1. i \in 1 .. k - 1 /\ i \in 1 .. Len(u)
        BY <1>1, <1>2, <3>2
      <4> QED BY <1>1, <1>2, <2>2, <4>1
    <3> QED BY <3>1, <3>2
  <2> QED BY <1>2, <2>2, <2>3, <2>4, SeqEqual
<1>5. s = Join(u, v)
  <2> DEFINE w == Join(u, v)
  <2>1. /\ w \in Seq(Char) /\ Len(w) = Len(u) + 1 + Len(v)
        /\ \A i \in 1 .. Len(u) : w[i] = u[i]
        /\ w[Len(u) + 1] = Comma
        /\ \A i \in 1 .. Len(v) : w[Len(u) + 1 + i] = v[i]
    BY <1>1, <1>3, JoinFacts
  <2> HIDE DEF w
  <2>2. Len(u) + 1 = k /\ Len(w) = Len(s)
    BY <1>1, <1>3, <2>1
  <2>3. ASSUME NEW i \in 1 .. Len(s) PROVE s[i] = w[i]
    <3>1. CASE i = k
      BY <2>1, <2>2, <3>1
    <3>2. CASE i < k
      <4>1. i \in 1 .. k - 1 /\ i \in 1 .. Len(u)
        BY <1>1, <3>2
      <4> QED BY <1>1, <2>1, <4>1
    <3>3. CASE i > k
      <4>1. i - k \in 1 .. Len(s) - k /\ i - k \in 1 .. Len(v) /\ k + (i - k) = i
        BY <1>3, <3>3
      <4>2. w[k + (i - k)] = v[i - k] /\ v[i - k] = s[k + (i - k)]
        BY <1>3, <2>1, <2>2, <4>1
      <4> QED BY <4>1, <4>2
    <3> QED BY <3>1, <3>2, <3>3
  <2>4. s = w
    BY <2>1, <2>2, <2>3, SeqEqual
  <2> QED BY <2>4 DEF w
<1> QED BY <1>1, <1>3, <1>4, <1>5 DEF u, v, l

\* What remove makes of a list with a mask at `start`, and where it goes on after the mask.
NextStart(list, start, mask) ==
    IF start + Len(mask) < Len(list) THEN start + Len(mask) + 1 ELSE start + Len(mask)
Left(list, start, mask) == SubSeq(list, 1, start) \o From(list, NextStart(list, start, mask))

\* From a mask on, a list has that mask and what comes after it.
LEMMA TailCount ==
    ASSUME NEW list \in Seq(Char), NEW start \in 0 .. Len(list), NEW mask,
           mask = Mask(list, start), NEW m, m # <<>>
    PROVE  /\ NextStart(list, start, mask) \in start .. Len(list)
           /\ Count(From(list, start), m) =
                Count(From(list, NextStart(list, start, mask)), m) + IF m = mask THEN 1 ELSE 0
<1> DEFINE e == End(list, Comma, start)
           n == Len(mask)
           x == From(list, start)
<1>1. e \in start .. Len(list) /\ (\A i \in start + 1 .. e : list[i] # Comma)
      /\ (e < Len(list) => list[e + 1] = Comma)
  BY EndFacts
<1>2. mask \in Seq(Char) /\ n = e - start /\ \A i \in 1 .. e - start : mask[i] = list[start + i]
  BY PieceFacts DEF Mask
<1> HIDE DEF e
<1>3. x \in Seq(Char) /\ Len(x) = Len(list) - start
      /\ \A i \in 1 .. Len(list) - start : x[i] = list[start + i]
  BY FromFacts
<1> HIDE DEF x
<1>4. n \in Nat /\ start + n = e
  BY <1>1, <1>2
<1> HIDE DEF n
<1>5. ASSUME NEW i \in 1 .. n PROVE mask[i] = x[i] /\ mask[i] # Comma
  <2>1. i \in 1 .. e - start /\ i \in 1 .. Len(list) - start /\ start + i \in start + 1 .. e
    BY <1>1, <1>4
  <2> QED BY <1>1, <1>2, <1>3, <2>1
<1>6. Count(mask, m) = IF m = mask THEN 1 ELSE 0
  BY <1>2, <1>5, SingleCount DEF n
<1>7. CASE e < Len(list)
  <2> DEFINE k == n + 1
             l == SubSeq(x, 1, k - 1)
  <2>1. k \in 1 .. Len(x) /\ k \in 1 .. Len(list) - start /\ start + k = e + 1
    BY <1>1, <1>3, <1>4, <1>7
  <2>2. x[k] = Comma
    BY <1>1, <1>3, <1>7, <2>1
  <2>3. l \in Seq(Char) /\ From(x, k) \in Seq(Char) /\ x = Join(l, From(x, k))
    <3> HIDE DEF k
    <3> QED BY <1>3, <2>1, <2>2, CutComma
  <2>4. l = mask
    <3>1. n <= Len(x) /\ k - 1 = n /\ 1 \in Nat \ {0} /\ 1 <= n + 1
      BY <1>4, <2>1
    <3>2. SubSeq(x, 1, n) \in Seq(Char) /\ Len(SubSeq(x, 1, n)) = n - 1 + 1
          /\ \A i \in 1 .. n - 1 + 1 : SubSeq(x, 1, n)[i] = x[1 + i - 1]
      BY <1>3, <1>4, <3>1, Part
    <3>3. l = SubSeq(x, 1, n)
      BY <3>1
    <3> HIDE DEF l, k
    <3>4. l \in Seq(Char) /\ Len(l) = n /\ \A i \in 1 .. n : l[i] = x[i]
      BY <1>4, <2>3, <3>2, <3>3
    <3>5. Len(mask) = n /\ \A i \in 1 .. n : l[i] = mask[i]
      BY <1>5, <3>4 DEF n
    <3> QED BY <1>2, <3>4, <3>5, SeqEqual
  <2>5. From(x, k) = From(list, start + k)
    <3>1. k \in 0 .. Len(list) - start
      BY <2>1
    <3> HIDE DEF k
    <3> QED BY <3>1, FromFrom DEF x
  <2>6. NextStart(list, start, mask) = start + k
    BY <1>4, <1>7, <2>1 DEF NextStart, n
  <2>7. Count(x, m) = Count(mask, m) + Count(From(x, k), m)
    <3> HIDE DEF k, l
    <3> QED BY <2>3, <2>4, JoinCount
  <2>8. Count(mask, m) \in Nat /\ Count(From(x, k), m) \in Nat
    <3> HIDE DEF k
    <3> QED BY <1>2, <2>3, AtFacts
  <2>9. start + k \in start .. Len(list)
    BY <1>1, <1>7, <2>1
  <2> HIDE DEF k, l
  <2>10. Count(x, m) = Count(From(list, start + k), m) + IF m = mask THEN 1 ELSE 0
    BY <1>6, <2>5, <2>7, <2>8
  <2> QED BY <2>6, <2>9, <2>10 DEF x
<1>8. CASE e = Len(list)
  <2>1. x = mask
    <3>1. Len(x) = n
      BY <1>3, <1>4, <1>8
    <3> QED BY <1>2, <1>3, <1>5, <3>1, SeqEqual DEF n
  <2>2. NextStart(list, start, mask) = e
    BY <1>4, <1>8 DEF NextStart, n
  <2>3. From(list, e) \in Seq(Char) /\ Len(From(list, e)) = Len(list) - e /\ Len(list) - e = 0
    BY <1>8, FromFacts
  <2>4. Count(From(list, e), m) = 0
    BY <2>3, EmptyCount
  <2>5. e \in start .. Len(list)
    BY <1>1
  <2> QED BY <1>6, <2>1, <2>2, <2>4, <2>5 DEF x
<1> QED BY <1>1, <1>7, <1>8

\* Removal takes the mask off once and touches no other.
LEMMA RemoveCount ==
    ASSUME NEW list \in Seq(Char), NEW start \in Places(list), NEW mask,
           mask = Mask(list, start), NEW m, m # <<>>
    PROVE  /\ Left(list, start, mask) \in Seq(Char)
           /\ Count(list, m) = Count(Left(list, start, mask), m) + IF m = mask THEN 1 ELSE 0
<1> DEFINE x == From(list, start)
           y == From(list, NextStart(list, start, mask))
           left == SubSeq(list, 1, start) \o y
           one == IF m = mask THEN 1 ELSE 0
<1>1. start \in 0 .. Len(list) /\ (start = 0 \/ list[start] = Comma)
  <2> HIDE DEF x, y, left, one
  <2> QED BY DEF Places, Starts
<1>2. NextStart(list, start, mask) \in start .. Len(list) /\ Count(x, m) = Count(y, m) + one
  <2>1. start \in 0 .. Len(list)
    BY <1>1
  <2> HIDE DEF left
  <2> QED BY <2>1, TailCount
<1>3. x \in Seq(Char)
  BY <1>1, FromFacts
<1>4. y \in Seq(Char)
  <2>1. NextStart(list, start, mask) \in 0 .. Len(list)
    BY <1>1, <1>2
  <2> QED BY <2>1, FromFacts
<1>5. one \in Nat
  OBVIOUS
<1>6. Count(y, m) \in Nat
  BY <1>4, AtFacts
<1> HIDE DEF y, one
<1>7. CASE start = 0
  <2>1. x = list
    <3>1. Len(x) = Len(list) - start /\ \A i \in 1 .. Len(list) - start : x[i] = list[start + i]
      BY <1>1, FromFacts
    <3> HIDE DEF x
    <3> QED BY <1>3, <1>7, <3>1, SeqEqual
  <2>2. left = y
    <3> DEFINE l == SubSeq(list, 1, start)
    <3>1. l = <<>>
      BY <1>7, SubSeqEmpty
    <3>2. <<>> \o y = y
      BY <1>4, ConcatEmptySeq
    <3> HIDE DEF l
    <3>3. l \o y = y
      BY <3>1, <3>2
    <3> QED BY <3>3 DEF l
  <2> QED BY <1>2, <1>4, <2>1, <2>2 DEF y, one, Left
<1>8. CASE start # 0
  <2> DEFINE u == SubSeq(list, 1, start - 1)
  <2>1. start \in 1 .. Len(list) /\ list[start] = Comma
    BY <1>1, <1>8
  <2>2. u \in Seq(Char) /\ SubSeq(list, 1, start) = Append(u, Comma) /\ list = Join(u, x)
    BY <2>1, CutComma
  <2>3. left = Join(u, y)
    BY <2>2 DEF Join
  <2> HIDE DEF u, x, left
  <2>4. Count(list, m) = Count(u, m) + Count(x, m)
    BY <1>3, <2>2, JoinCount
  <2>5. left \in Seq(Char) /\ Count(left, m) = Count(u, m) + Count(y, m)
    BY <1>4, <2>2, <2>3, JoinCount
  <2>6. Count(u, m) \in Nat
    BY <2>2, AtFacts
  <2>7. Count(list, m) = Count(left, m) + one
    BY <1>2, <1>5, <1>6, <2>4, <2>5, <2>6
  <2> QED BY <2>5, <2>7 DEF y, one, left, Left
<1> QED BY <1>7, <1>8

-----------------------------------------------------------------------------
(* The invariant *)

\* The list is a string of characters, and its masks are masks that MODE may be given.
MaskIInv ==
    /\ raw \in Seq(Char)
    /\ ListIsKept
    /\ DOMAIN listed \subseteq Masks

LEMMA PlusParts ==
    ASSUME NEW l1 \in Seq(Char), NEW l2 \in Seq(Char), NEW l3 \in Seq(Char),
           \A m : m # <<>> => Count(l3, m) = Count(l1, m) + Count(l2, m)
    PROVE  Parts(l3) = Parts(l1) (+) Parts(l2)
<1> DEFINE P(l) == Parts(l)
           D == DOMAIN P(l1) \cup DOMAIN P(l2)
           B == [m \in D |-> (IF m \in DOMAIN P(l1) THEN P(l1)[m] ELSE 0)
                             + (IF m \in DOMAIN P(l2) THEN P(l2)[m] ELSE 0)]
<1>1. B = P(l1) (+) P(l2)
  BY DEF (+)
<1>2. ASSUME NEW m, m # <<>>
      PROVE  /\ Count(l1, m) \in Nat /\ Count(l2, m) \in Nat /\ Count(l3, m) \in Nat
             /\ Count(l3, m) = Count(l1, m) + Count(l2, m)
  BY <1>2, AtFacts
<1>3. ASSUME NEW l \in {l1, l2, l3}
      PROVE  /\ P(l) = [m \in DOMAIN P(l) |-> Count(l, m)]
             /\ \A m : m \in DOMAIN P(l) <=> m # <<>> /\ Count(l, m) > 0
  BY PartsFacts
<1> HIDE DEF P
<1>4. \A m : m \in DOMAIN P(l3) <=> m \in D
  <2> SUFFICES ASSUME NEW m, m # <<>> PROVE m \in DOMAIN P(l3) <=> m \in D
    BY <1>3
  <2> QED BY <1>2, <1>3
<1>5. \A m \in DOMAIN P(l3) : P(l3)[m] = B[m]
  <2> SUFFICES ASSUME NEW m \in DOMAIN P(l3) PROVE Count(l3, m) = B[m]
    BY <1>3
  <2>1. m # <<>> /\ m \in D
    BY <1>3, <1>4
  <2>2. (IF m \in DOMAIN P(l1) THEN P(l1)[m] ELSE 0) = Count(l1, m)
    BY <1>2, <1>3, <2>1
  <2>3. (IF m \in DOMAIN P(l2) THEN P(l2)[m] ELSE 0) = Count(l2, m)
    BY <1>2, <1>3, <2>1
  <2>4. B[m] = Count(l1, m) + Count(l2, m)
    BY <2>1, <2>2, <2>3
  <2> QED BY <1>2, <2>1, <2>4
<1>6. P(l3) = [m \in DOMAIN P(l3) |-> P(l3)[m]] /\ DOMAIN B = D
  BY <1>3
<1> HIDE DEF B, D
<1>7. DOMAIN P(l3) = D
  BY <1>4
<1>8. B = [m \in D |-> B[m]]
  BY DEF B
<1>9. P(l3) = B
  BY <1>5, <1>6, <1>7, <1>8
<1> QED BY <1>1, <1>9 DEF P

LEMMA MinusParts ==
    ASSUME NEW l1 \in Seq(Char), NEW l3 \in Seq(Char), NEW mask,
           \A m : m # <<>> => Count(l1, m) = Count(l3, m) + IF m = mask THEN 1 ELSE 0
    PROVE  Parts(l3) = Parts(l1) (-) SetToBag({mask})
<1> DEFINE P(l) == Parts(l)
           S == SetToBag({mask})
           B == [m \in DOMAIN P(l1) |-> IF m \in DOMAIN S THEN P(l1)[m] - S[m] ELSE P(l1)[m]]
           E == {d \in DOMAIN B : B[d] > 0}
<1>1. P(l1) (-) S = [m \in E |-> B[m]]
  BY DEF (-)
<1>2. DOMAIN S = {mask} /\ S[mask] = 1
  BY DEF SetToBag
<1>3. ASSUME NEW m, m # <<>>
      PROVE  /\ Count(l1, m) \in Nat /\ Count(l3, m) \in Nat
             /\ Count(l3, m) = IF m = mask THEN Count(l1, m) - 1 ELSE Count(l1, m)
  <2>1. Count(l1, m) \in Nat /\ Count(l3, m) \in Nat
    BY AtFacts
  <2>2. Count(l1, m) = Count(l3, m) + IF m = mask THEN 1 ELSE 0
    BY <1>3
  <2> QED BY <2>1, <2>2
<1>4. ASSUME NEW l \in {l1, l3}
      PROVE  /\ P(l) = [m \in DOMAIN P(l) |-> Count(l, m)]
             /\ \A m : m \in DOMAIN P(l) <=> m # <<>> /\ Count(l, m) > 0
  BY PartsFacts
<1> HIDE DEF P, S
<1>5. \A m \in DOMAIN P(l1) : B[m] = Count(l3, m)
  <2> SUFFICES ASSUME NEW m \in DOMAIN P(l1) PROVE B[m] = Count(l3, m)
    OBVIOUS
  <2>1. m # <<>> /\ P(l1)[m] = Count(l1, m)
    BY <1>4
  <2> QED BY <1>2, <1>3, <2>1
<1>6. DOMAIN B = DOMAIN P(l1)
  OBVIOUS
<1> HIDE DEF B
<1>7. \A m : m \in DOMAIN P(l3) <=> m \in E
  <2> SUFFICES ASSUME NEW m, m # <<>> PROVE m \in DOMAIN P(l3) <=> m \in E
    BY <1>4, <1>6
  <2>1. Count(l3, m) > 0 => Count(l1, m) > 0
    BY <1>3
  <2>2. m \in E <=> m \in DOMAIN P(l1) /\ Count(l3, m) > 0
    BY <1>5, <1>6
  <2> QED BY <1>4, <2>1, <2>2
<1>8. \A m \in E : P(l3)[m] = B[m]
  <2> SUFFICES ASSUME NEW m \in E PROVE P(l3)[m] = B[m]
    OBVIOUS
  <2>1. m \in DOMAIN P(l1) /\ m \in DOMAIN P(l3)
    BY <1>6, <1>7
  <2> QED BY <1>4, <1>5, <2>1
<1> HIDE DEF E
<1>9. DOMAIN P(l3) = E
  BY <1>7
<1>10. P(l3) = [m \in E |-> P(l3)[m]]
  BY <1>4, <1>9
<1>11. P(l3) = [m \in E |-> B[m]]
  BY <1>8, <1>10
<1> QED BY <1>1, <1>11 DEF P, S

\* The masks that a mask with commas is cut into are masks too.
LEMMA PartsOfMask ==
    ASSUME NEW mask \in Masks
    PROVE  /\ mask \in Seq(Char) /\ Len(mask) > 0
           /\ DOMAIN Parts(mask) \subseteq Masks
<1>1. PICK n \in 0 .. MaxMask : mask \in [1 .. n -> MaskChars]
  BY DEF Masks, BoundedSeq, SeqOf
<1>2. MaskChars \subseteq Char /\ MaxMask \in Nat
  BY MaskAssumption DEF Char
<1>3. mask \in Seq(Char) /\ Len(mask) = n
  BY <1>1, <1>2
<1>4. Len(mask) > 0
  BY <1>3 DEF Masks
<1>5. ASSUME NEW m \in DOMAIN Parts(mask) PROVE m \in Masks
  <2>1. m # <<>>
    BY <1>3, PartsFacts
  <2>2. PICK a \in Places(mask) : m = Mask(mask, a)
    BY <1>5 DEF Parts
  <2>3. a \in 0 .. Len(mask)
    BY DEF Places, Starts
  <2> DEFINE e == End(mask, Comma, a)
  <2>4. e \in a .. Len(mask)
    BY <1>3, <2>3, EndFacts
  <2>5. m \in Seq(Char) /\ Len(m) = e - a /\ \A i \in 1 .. e - a : m[i] = mask[a + i]
    BY <1>3, <2>2, <2>3, PieceFacts DEF Mask
  <2> HIDE DEF e
  <2>6. \A i \in 1 .. e - a : m[i] \in MaskChars
    <3> SUFFICES ASSUME NEW i \in 1 .. e - a PROVE mask[a + i] \in MaskChars
      BY <2>5
    <3>1. a + i \in 1 .. n
      BY <1>3, <2>3, <2>4
    <3> QED BY <1>1, <3>1
  <2>7. e - a \in 0 .. MaxMask
    BY <1>2, <1>3, <2>3, <2>4
  <2>8. m \in [1 .. e - a -> MaskChars]
    BY <2>5, <2>6
  <2>9. m \in BoundedSeq(MaskChars, MaxMask)
    BY <2>7, <2>8 DEF BoundedSeq, SeqOf
  <2> QED BY <2>1, <2>9 DEF Masks
<1> QED BY <1>3, <1>4, <1>5

LEMMA MaskInitIInv == MaskInit => MaskIInv
<1> SUFFICES ASSUME MaskInit PROVE MaskIInv
  OBVIOUS
<1>1. raw = <<>> /\ raw \in Seq(Char) /\ Len(raw) = 0
  BY DEF MaskInit
<1>2. DOMAIN listed = {} /\ listed = [m \in {} |-> 1]
  BY DEF MaskInit, EmptyBag, SetToBag
<1>3. \A m : m \notin DOMAIN Parts(raw)
  <2> SUFFICES ASSUME NEW m, m \in DOMAIN Parts(raw) PROVE FALSE
    OBVIOUS
  <2>1. m # <<>> /\ Count(raw, m) > 0
    BY <1>1, PartsFacts
  <2>2. Count(raw, m) = 0
    BY <1>1, <2>1, EmptyCount
  <2> QED BY <2>1, <2>2
<1>4. Parts(raw) = [m \in DOMAIN Parts(raw) |-> Count(raw, m)]
  BY <1>1, PartsFacts
<1>5. DOMAIN Parts(raw) = {}
  BY <1>3
<1>6. Parts(raw) = listed
  BY <1>2, <1>4, <1>5
<1> QED BY <1>1, <1>2, <1>6 DEF MaskIInv, ListIsKept

LEMMA InsertKeeps ==
    ASSUME MaskIInv, NEW mask \in Masks, insert(mask)
    PROVE  MaskIInv'
<1>1. raw \in Seq(Char) /\ Parts(raw) = listed /\ DOMAIN listed \subseteq Masks
  BY DEF MaskIInv, ListIsKept
<1>2. mask \in Seq(Char) /\ Len(mask) > 0 /\ DOMAIN Parts(mask) \subseteq Masks
  BY PartsOfMask
<1>3. CASE UNCHANGED maskVars
  BY <1>1, <1>3 DEF MaskIInv, ListIsKept, maskVars
<1>4. CASE /\ raw' = (IF raw = <<>> THEN raw ELSE Append(raw, Comma)) \o mask
           /\ listed' = listed (+) Parts(mask)
  <2>1. /\ raw' \in Seq(Char)
        /\ \A m : m # <<>> => Count(raw', m) = Count(raw, m) + Count(mask, m)
    <3>1. CASE raw = <<>>
      <4>1. raw' = mask
        BY <1>2, <1>4, <3>1, ConcatEmptySeq
      <4>2. ASSUME NEW m, m # <<>> PROVE Count(raw, m) = 0 /\ Count(mask, m) \in Nat
        BY <1>1, <1>2, <3>1, <4>2, EmptyCount, AtFacts
      <4>3. \A m : m # <<>> => Count(mask, m) = Count(raw, m) + Count(mask, m)
        BY <4>2
      <4> QED BY <1>2, <4>1, <4>3
    <3>2. CASE raw # <<>>
      <4>1. raw' = Join(raw, mask)
        BY <1>4, <3>2 DEF Join
      <4>2. Join(raw, mask) \in Seq(Char)
        BY <1>1, <1>2, JoinFacts
      <4>3. \A m : Count(Join(raw, mask), m) = Count(raw, m) + Count(mask, m)
        BY <1>1, <1>2, JoinCount
      <4> QED BY <4>1, <4>2, <4>3
    <3> QED BY <3>1, <3>2
  <2>2. Parts(raw') = Parts(raw) (+) Parts(mask)
    BY <1>1, <1>2, <2>1, PlusParts
  <2>3. ListIsKept'
    BY <1>1, <1>4, <2>2 DEF ListIsKept
  <2>4. DOMAIN listed' \subseteq Masks
    <3>1. DOMAIN listed' = DOMAIN listed \cup DOMAIN Parts(mask)
      BY <1>4 DEF (+)
    <3> QED BY <1>1, <1>2, <3>1
  <2> QED BY <2>1, <2>3, <2>4 DEF MaskIInv
<1> QED BY <1>3, <1>4 DEF insert

LEMMA RemoveKeeps ==
    ASSUME MaskIInv, NEW mask \in Masks, remove(mask)
    PROVE  MaskIInv'
<1>1. raw \in Seq(Char) /\ Parts(raw) = listed /\ DOMAIN listed \subseteq Masks
  BY DEF MaskIInv, ListIsKept
<1> DEFINE same  == {a \in Places(raw) : Mask(raw, a) = mask}
           start == Min(same)
           left  == Left(raw, start, mask)
<1>2. CASE UNCHANGED maskVars
  BY <1>1, <1>2 DEF MaskIInv, ListIsKept, maskVars
<1>3. CASE same # {} /\ raw' = left /\ listed' = listed (-) SetToBag({mask})
  <2>1. same \in SUBSET Nat
    BY DEF Places, Starts
  <2>2. start \in same
    BY <1>3, <2>1, MinFacts
  <2>3. start \in Places(raw) /\ mask = Mask(raw, start)
    BY <2>2
  <2> HIDE DEF same, start
  <2>4. ASSUME NEW m, m # <<>>
        PROVE  left \in Seq(Char) /\ Count(raw, m) = Count(left, m) + IF m = mask THEN 1 ELSE 0
    BY <1>1, <2>3, <2>4, RemoveCount
  <2> HIDE DEF left
  <2>5. left \in Seq(Char)
    <3>1. mask # <<>>
      BY DEF Masks
    <3> QED BY <2>4, <3>1
  <2>6. Parts(left) = Parts(raw) (-) SetToBag({mask})
    <3>1. \A m : m # <<>> => Count(raw, m) = Count(left, m) + IF m = mask THEN 1 ELSE 0
      BY <2>4
    <3> QED BY <1>1, <2>5, <3>1, MinusParts
  <2>7. ListIsKept'
    BY <1>1, <1>3, <2>6 DEF ListIsKept
  <2>8. DOMAIN listed' \subseteq Masks
    <3>1. DOMAIN listed' \subseteq DOMAIN listed
      BY <1>3 DEF (-)
    <3> QED BY <1>1, <3>1
  <2> QED BY <1>3, <2>5, <2>7, <2>8 DEF MaskIInv
<1>4. \/ UNCHANGED maskVars
      \/ same # {} /\ raw' = left /\ listed' = listed (-) SetToBag({mask})
  BY DEF remove, Left, NextStart
<1> HIDE DEF same, left
<1> QED BY <1>2, <1>3, <1>4

\* The invariant holds in every state of a list.
THEOREM MaskInvariance == MaskSpec => []MaskIInv
<1>1. MaskInit => MaskIInv
  BY MaskInitIInv
<1>2. MaskIInv /\ [MaskNext]_maskVars => MaskIInv'
  <2> SUFFICES ASSUME MaskIInv, [MaskNext]_maskVars PROVE MaskIInv'
    OBVIOUS
  <2>1. CASE UNCHANGED maskVars
    BY <2>1 DEF MaskIInv, ListIsKept, maskVars
  <2>2. ASSUME NEW mask \in Masks, insert(mask) PROVE MaskIInv'
    BY <2>2, InsertKeeps
  <2>3. ASSUME NEW mask \in Masks, remove(mask) PROVE MaskIInv'
    BY <2>3, RemoveKeeps
  <2> QED BY <2>1, <2>2, <2>3 DEF MaskNext
<1> QED BY <1>1, <1>2, PTL DEF MaskSpec

\* MaskSet: a list is what was put on it and not removed.  insert and remove splice one
\* string with commas, and never join a mask to a neighbour or lose one.
THEOREM ListsAreKept == MaskSpec => []ListIsKept
<1>1. MaskIInv => ListIsKept
  BY DEF MaskIInv
<1> QED BY <1>1, MaskInvariance, PTL

\* is_match: a name is on a list exactly if some mask put on it matches the name by the
\* definition of masks, unless match_mask panics, which needs a star on the list and a
\* character of several bytes in the name.
THEOREM ListsMatchByDefinition == MaskSpec => []MatchesByDefinition
<1>1. MaskIInv => MatchesByDefinition
  <2> SUFFICES ASSUME MaskIInv, NEW s \in Names
               PROVE  LET panics == (\E i \in DOMAIN s : s[i] \in Wide)
                                     /\ (\E i \in DOMAIN raw : raw[i] = "*")
                          on_list == \E mask \in BagToSet(listed) : s \in Globs[mask]
                      IN  \/ is_match(s) = IF on_list THEN "yes" ELSE "no"
                          \/ is_match(s) = "panic" /\ panics
    BY DEF MatchesByDefinition
  <2> DEFINE P    == Places(raw)
             hits == {a \in P : match_mask(Mask(raw, a), s) # "no"}
             on_list == \E mask \in BagToSet(listed) : s \in Globs[mask]
  <2>1. raw \in Seq(Char) /\ Parts(raw) = listed /\ DOMAIN listed \subseteq Masks
    BY DEF MaskIInv, ListIsKept
  <2>2. s \in Seq(Char) /\ Len(s) > 0
    <3>1. s \in Seq(STRING) /\ s # <<>>
      BY MaskAssumption
    <3>2. \A i \in 1 .. Len(s) : s[i] \in Char
      BY <3>1 DEF Char
    <3>3. s \in [1 .. Len(s) -> Char] /\ Len(s) \in Nat
      BY <3>1, <3>2
    <3> QED BY <3>1, <3>3
  <2>3. P \subseteq 0 .. Len(raw)
    BY DEF Places, Starts
  <2>4. ASSUME NEW a \in P
        PROVE  /\ Mask(raw, a) \in Seq(Char)
               /\ HasStar(Mask(raw, a)) => HasStar(raw)
    <3> DEFINE m == Mask(raw, a)
               e == End(raw, Comma, a)
    <3>1. e \in a .. Len(raw) /\ a \in 0 .. Len(raw)
      BY <2>1, <2>3, EndFacts
    <3>2. m \in Seq(Char) /\ Len(m) = e - a /\ \A i \in 1 .. e - a : m[i] = raw[a + i]
      BY <2>1, <2>3, PieceFacts DEF Mask
    <3> HIDE DEF m, e, P
    <3>3. \A i \in 1 .. Len(m) : a + i \in 1 .. Len(raw) /\ m[i] = raw[a + i]
      BY <2>1, <3>1, <3>2
    <3>4. HasStar(m) => HasStar(raw)
      BY <3>3 DEF HasStar
    <3> QED BY <3>2, <3>4 DEF m
  <2>5. on_list <=> \E a \in P : Glob(Mask(raw, a), s)
    <3>1. BagToSet(listed) = {Mask(raw, a) : a \in P} \ {<<>>}
      BY <2>1 DEF BagToSet, Parts
    <3>2. \A mask \in Masks : s \in Globs[mask] <=> Glob(mask, s)
      BY DEF Globs
    <3>3. ASSUME NEW a \in P, Glob(Mask(raw, a), s) PROVE Mask(raw, a) # <<>>
      BY <2>2, <2>4, <3>3, GlobEmpty
    <3>4. BagToSet(listed) \subseteq Masks
      BY <2>1 DEF BagToSet
    <3> HIDE DEF P
    <3> QED BY <3>1, <3>2, <3>3, <3>4
  <2>6. ASSUME NEW a \in P
        PROVE  \/ match_mask(Mask(raw, a), s) = "yes" /\ Glob(Mask(raw, a), s)
               \/ match_mask(Mask(raw, a), s) = "no" /\ ~Glob(Mask(raw, a), s)
               \/ match_mask(Mask(raw, a), s) = "panic" /\ HasWide(s) /\ HasStar(raw)
    BY <2>2, <2>4, <2>6, MatchMaskIsGlob
  <2>7. is_match(s) = IF hits = {} THEN "no" ELSE match_mask(Mask(raw, Min(hits)), s)
    BY DEF is_match
  <2>8. HasWide(s) /\ HasStar(raw) => (\E i \in DOMAIN s : s[i] \in Wide)
                                       /\ (\E i \in DOMAIN raw : raw[i] = "*")
    BY <2>1, <2>2 DEF HasWide, HasStar
  <2>9. CASE hits = {}
    <3>1. \A a \in P : match_mask(Mask(raw, a), s) = "no"
      BY <2>9
    <3>2. ~on_list
      <4> HIDE DEF P, on_list
      <4> QED BY <2>5, <2>6, <3>1
    <3>3. is_match(s) = "no"
      BY <2>7, <2>9
    <3> QED BY <3>2, <3>3
  <2>10. CASE hits # {}
    <3> DEFINE a == Min(hits)
    <3>1. a \in P /\ match_mask(Mask(raw, a), s) # "no"
      <4>1. hits \in SUBSET Nat
        BY <2>3
      <4>2. a \in hits
        <5> HIDE DEF hits
        <5> QED BY <2>10, <4>1, MinFacts
      <4> HIDE DEF a
      <4> QED BY <4>2
    <3>2. is_match(s) = match_mask(Mask(raw, a), s)
      BY <2>7, <2>10
    <3> HIDE DEF a, P, hits, on_list
    <3>3. CASE match_mask(Mask(raw, a), s) = "yes" /\ Glob(Mask(raw, a), s)
      <4>1. on_list
        BY <2>5, <3>1, <3>3
      <4> QED BY <3>2, <3>3, <4>1 DEF on_list
    <3>4. CASE match_mask(Mask(raw, a), s) = "panic" /\ HasWide(s) /\ HasStar(raw)
      BY <2>8, <3>2, <3>4
    <3> QED BY <2>6, <3>1, <3>3, <3>4
  <2> QED BY <2>9, <2>10
<1> QED BY <1>1, MaskInvariance, PTL

-----------------------------------------------------------------------------
(* Folds *)

LEMMA MaxOfPrefix ==
    ASSUME NEW i \in Nat \ {0}
    PROVE  /\ Max(1 .. i) = i /\ 1 .. i # {} /\ (1 .. i) \ {i} = 1 .. i - 1
<1>1. i \in 1 .. i /\ \A y \in 1 .. i : i >= y
  OBVIOUS
<1>2. \A x \in 1 .. i : (\A y \in 1 .. i : x >= y) => x = i
  BY <1>1
<1>3. Max(1 .. i) = i
  BY <1>1, <1>2 DEF Max
<1> QED BY <1>1, <1>3

LEMMA MaxOfBounded ==
    ASSUME NEW n \in Nat, NEW T \in SUBSET (1 .. n), n \in T
    PROVE  Max(T) = n
<1>1. \A y \in T : n >= y
  OBVIOUS
<1>2. \A x \in T : (\A y \in T : x >= y) => x = n
  BY <1>1
<1> QED BY <1>1, <1>2 DEF Max

LEMMA MaxIn ==
    ASSUME NEW n \in Nat, NEW T \in SUBSET (1 .. n), T # {}
    PROVE  Max(T) \in T /\ \A y \in T : Max(T) >= y
<1> DEFINE D == {n - x : x \in T}
<1>0. PICK z \in T : TRUE
  OBVIOUS
<1>1. D \in SUBSET Nat /\ n - z \in D
  OBVIOUS
<1>2. PICK d \in D : \A y \in D : d <= y
  <2> HIDE DEF D
  <2> QED BY <1>1, LeastNumber
<1>3. PICK x \in T : d = n - x
  BY <1>2
<1>4. \A y \in T : x >= y
  <2> TAKE y \in T
  <2>1. n - x <= n - y
    BY <1>2, <1>3
  <2> QED BY <2>1
<1> QED BY <1>4 DEF Max

\* The steps st of a fold of n elements keep its value in S, from base on.
Steps(n, S, base, st) == n \in Nat /\ base \in S /\ st \in [1 .. n -> [S -> S]]

\* g is the function over subsets by which a fold is defined.
IsFold(g, n, S, base, st) ==
    /\ g \in [SUBSET (1 .. n) -> S]
    /\ \A T \in SUBSET (1 .. n) : g[T] = IF T = {} THEN base ELSE st[Max(T)][g[T \ {Max(T)}]]

\* h are the values of the fold after each number of elements.
FoldValues(h, n, S, base, st) ==
    h \in [0 .. n -> S] /\ h[0] = base /\ \A i \in 1 .. n : h[i] = st[i][h[i - 1]]

\* g follows the equation of the fold wherever its values are in S.
FollowsSteps(g, n, S, base, st) ==
    /\ g[{}] = base
    /\ \A T \in SUBSET (1 .. n) :
          T # {} /\ g[T \ {Max(T)}] \in S => g[T] = st[Max(T)][g[T \ {Max(T)}]]

\* A fold over n steps exists.
LEMMA FoldExists ==
    ASSUME NEW n, NEW S, NEW base, NEW st, Steps(n, S, base, st)
    PROVE  \E g : IsFold(g, n, S, base, st)
<1> USE DEF Steps
<1> DEFINE Good(g, k) ==
              \A T \in SUBSET (1 .. k) :
                  g[T] = IF T = {} THEN base ELSE st[Max(T)][g[T \ {Max(T)}]]
           Has(k) == \E g \in [SUBSET (1 .. k) -> S] : Good(g, k)
           K == {k \in Nat : k <= n => Has(k)}
<1>1. 0 \in K
  <2> DEFINE g == [T \in SUBSET (1 .. 0) |-> base]
  <2>1. g \in [SUBSET (1 .. 0) -> S] /\ Good(g, 0)
    OBVIOUS
  <2>2. Has(0)
    BY <2>1
  <2> HIDE DEF Has
  <2> QED BY <2>2
<1>2. ASSUME NEW k \in Nat, k \in K PROVE k + 1 \in K
  <2> SUFFICES ASSUME k + 1 <= n PROVE Has(k + 1)
    <3> HIDE DEF Has
    <3> QED OBVIOUS
  <2>0. Has(k)
    <3> HIDE DEF Has
    <3> QED BY <1>2
  <2>1. PICK g \in [SUBSET (1 .. k) -> S] : Good(g, k)
    BY <2>0
  <2> DEFINE m == k + 1
             G == [T \in SUBSET (1 .. m) |-> IF m \in T THEN st[m][g[T \ {m}]] ELSE g[T]]
  <2>2. m \in Nat /\ m \in 1 .. n
    OBVIOUS
  <2>3. \A T \in SUBSET (1 .. m) : T \ {m} \in SUBSET (1 .. k) /\ (m \notin T => T \in SUBSET (1 .. k))
    OBVIOUS
  <2>4. G \in [SUBSET (1 .. m) -> S]
    <3> SUFFICES ASSUME NEW T \in SUBSET (1 .. m)
                 PROVE  (IF m \in T THEN st[m][g[T \ {m}]] ELSE g[T]) \in S
      OBVIOUS
    <3>1. CASE m \in T
      <4>1. g[T \ {m}] \in S /\ st[m] \in [S -> S]
        BY <2>2, <2>3
      <4> QED BY <3>1, <4>1
    <3>2. CASE m \notin T
      BY <2>3, <3>2
    <3> QED BY <3>1, <3>2
  <2>5. ASSUME NEW T \in SUBSET (1 .. m)
        PROVE  G[T] = IF T = {} THEN base ELSE st[Max(T)][G[T \ {Max(T)}]]
    <3>1. CASE m \in T
      <4>1. Max(T) = m
        BY <2>2, <3>1, MaxOfBounded
      <4>2. G[T] = st[m][g[T \ {m}]]
        BY <3>1
      <4>3. T \ {m} \in SUBSET (1 .. m) /\ m \notin T \ {m}
        OBVIOUS
      <4>4. G[T \ {m}] = g[T \ {m}]
        BY <4>3
      <4> HIDE DEF G, m
      <4> QED BY <3>1, <4>1, <4>2, <4>4
    <3>2. CASE m \notin T
      <4>1. T \in SUBSET (1 .. k) /\ G[T] = g[T]
        BY <2>3, <3>2
      <4>2. g[T] = IF T = {} THEN base ELSE st[Max(T)][g[T \ {Max(T)}]]
        BY <2>1, <4>1
      <4>3. T \ {Max(T)} \in SUBSET (1 .. m) /\ m \notin T \ {Max(T)}
        BY <3>2
      <4>4. G[T \ {Max(T)}] = g[T \ {Max(T)}]
        BY <4>3
      <4> HIDE DEF G, m
      <4> QED BY <4>1, <4>2, <4>4
    <3> QED BY <3>1, <3>2
  <2>6. Good(G, m)
    <3> HIDE DEF G
    <3> QED BY <2>5
  <2> HIDE DEF G, Good
  <2> QED BY <2>4, <2>6
<1>3. n \in K
  <2> HIDE DEF K
  <2> QED BY <1>1, <1>2, SetInduction
<1>4. Has(n)
  <2> HIDE DEF Has
  <2> QED BY <1>3
<1> QED BY <1>4 DEF IsFold

\* What g is on the first numbers, if g follows the equation of a fold.
LEMMA FoldRun ==
    ASSUME NEW n, NEW S, NEW base, NEW st, Steps(n, S, base, st),
           NEW g, FollowsSteps(g, n, S, base, st)
    PROVE  \E h : FoldValues(h, n, S, base, st) /\ h[n] = g[1 .. n]
<1> USE DEF Steps
<1>0. /\ g[{}] = base
      /\ \A T \in SUBSET (1 .. n) :
            T # {} /\ g[T \ {Max(T)}] \in S => g[T] = st[Max(T)][g[T \ {Max(T)}]]
  BY DEF FollowsSteps
<1> DEFINE h == [i \in 0 .. n |-> g[1 .. i]]
<1>1. h[0] = base
  <2>1. 1 .. 0 = {} /\ 0 \in 0 .. n
    OBVIOUS
  <2> QED BY <1>0, <2>1
<1>2. ASSUME NEW i \in 1 .. n, h[i - 1] \in S PROVE h[i] = st[i][h[i - 1]]
  <2>1. Max(1 .. i) = i /\ 1 .. i # {} /\ (1 .. i) \ {i} = 1 .. i - 1
    <3> i \in Nat \ {0}
      OBVIOUS
    <3> QED BY MaxOfPrefix
  <2>2. 1 .. i \in SUBSET (1 .. n) /\ i \in 0 .. n /\ i - 1 \in 0 .. n
    OBVIOUS
  <2>3. h[i] = g[1 .. i] /\ h[i - 1] = g[1 .. i - 1]
    BY <2>2
  <2> HIDE DEF h
  <2>4. g[1 .. i] = st[i][g[1 .. i - 1]]
    BY <1>0, <1>2, <2>1, <2>2, <2>3
  <2> QED BY <2>3, <2>4
<1>3. h[n] = g[1 .. n] /\ h = [i \in 0 .. n |-> h[i]]
  OBVIOUS
<1> DEFINE K == {k \in Nat : k <= n => h[k] \in S}
<1> HIDE DEF h
<1>4. 0 \in K
  BY <1>1
<1>5. ASSUME NEW k \in Nat, k \in K PROVE k + 1 \in K
  <2> SUFFICES ASSUME k + 1 <= n PROVE h[k + 1] \in S
    OBVIOUS
  <2>1. k + 1 \in 1 .. n /\ (k + 1) - 1 = k /\ h[k] \in S
    BY <1>5
  <2>2. st[k + 1] \in [S -> S]
    BY <2>1
  <2> QED BY <1>2, <2>1, <2>2
<1>6. \A k \in Nat : k \in K
  <2> HIDE DEF K
  <2> QED BY <1>4, <1>5, SetInduction
<1>7. h \in [0 .. n -> S]
  BY <1>3, <1>6
<1>8. \A i \in 1 .. n : h[i - 1] \in S
  BY <1>7
<1>9. FoldValues(h, n, S, base, st)
  BY <1>1, <1>2, <1>7, <1>8 DEF FoldValues
<1> QED BY <1>3, <1>9

-----------------------------------------------------------------------------
(* Places in order *)

\* How many numbers of I there are up to i.
UpTo(I, i) == {j \in I : j <= i}
Rank(I, i) == Cardinality(UpTo(I, i))

LEMMA UpToIsFinite ==
    ASSUME NEW n \in Nat, NEW I \in SUBSET (1 .. n), NEW i
    PROVE  IsFiniteSet(UpTo(I, i)) /\ Rank(I, i) \in Nat
<1>1. UpTo(I, i) \in SUBSET (1 .. n)
  BY DEF UpTo
<1>2. IsFiniteSet(1 .. n)
  BY FS_Interval
<1>3. IsFiniteSet(UpTo(I, i))
  BY <1>1, <1>2, FS_Subset
<1> QED BY <1>3, FS_CardinalityType DEF Rank

LEMMA RankStep ==
    ASSUME NEW n \in Nat, NEW I \in SUBSET (1 .. n), NEW i \in Nat
    PROVE  /\ i + 1 \in I => Rank(I, i + 1) = Rank(I, i) + 1
           /\ i + 1 \notin I => Rank(I, i + 1) = Rank(I, i)
<1>1. IsFiniteSet(UpTo(I, i))
  BY UpToIsFinite
<1>4. i + 1 \notin UpTo(I, i)
  BY DEF UpTo
<1>5. \A x \in I : x <= i + 1 <=> x <= i \/ x = i + 1
  OBVIOUS
<1>2. ASSUME i + 1 \in I PROVE Rank(I, i + 1) = Rank(I, i) + 1
  <2>1. UpTo(I, i + 1) = UpTo(I, i) \cup {i + 1}
    BY <1>2, <1>5 DEF UpTo
  <2> QED BY <1>1, <1>4, <2>1, FS_AddElement DEF Rank
<1>3. ASSUME i + 1 \notin I PROVE Rank(I, i + 1) = Rank(I, i)
  <2>1. UpTo(I, i + 1) = UpTo(I, i)
    BY <1>3, <1>5 DEF UpTo
  <2> QED BY <2>1 DEF Rank
<1> QED BY <1>2, <1>3

LEMMA RankEnds ==
    ASSUME NEW n \in Nat, NEW I \in SUBSET (1 .. n)
    PROVE  Rank(I, 0) = 0 /\ Rank(I, n) = Cardinality(I)
<1>1. \A x \in I : ~(x <= 0) /\ x <= n
  OBVIOUS
<1>2. UpTo(I, 0) = {}
  BY <1>1 DEF UpTo
<1>3. UpTo(I, n) = I
  BY <1>1 DEF UpTo
<1> QED BY <1>2, <1>3, FS_EmptySet DEF Rank

LEMMA RankAscends ==
    ASSUME NEW n \in Nat, NEW I \in SUBSET (1 .. n), NEW i, NEW j \in Nat, i \in Nat, i <= j
    PROVE  Rank(I, i) <= Rank(I, j)
<1>1. \A x \in I : x <= i => x <= j
  OBVIOUS
<1>2. UpTo(I, i) \in SUBSET UpTo(I, j)
  BY <1>1 DEF UpTo
<1>3. IsFiniteSet(UpTo(I, j))
  BY UpToIsFinite
<1> QED BY <1>2, <1>3, FS_Subset DEF Rank

\* The numbers of I have the ranks from 1 to its cardinality, each one its own.
LEMMA RankOfMember ==
    ASSUME NEW n \in Nat, NEW I \in SUBSET (1 .. n), NEW i \in I
    PROVE  Rank(I, i) \in 1 .. Cardinality(I) /\ Rank(I, i - 1) = Rank(I, i) - 1
<1>1. i - 1 \in Nat /\ (i - 1) + 1 = i /\ i \in Nat /\ i <= n
  OBVIOUS
<1>2. Rank(I, i) = Rank(I, i - 1) + 1
  BY <1>1, RankStep
<1>3. Rank(I, i - 1) \in Nat /\ Rank(I, i) \in Nat
  BY UpToIsFinite
<1>4. Rank(I, i) <= Rank(I, n) /\ Rank(I, n) = Cardinality(I) /\ Rank(I, n) \in Nat
  BY <1>1, RankAscends, RankEnds, UpToIsFinite
<1> QED BY <1>2, <1>3, <1>4

LEMMA RankInjective ==
    ASSUME NEW n \in Nat, NEW I \in SUBSET (1 .. n), NEW i \in I, NEW j \in I
    PROVE  i < j => Rank(I, i) < Rank(I, j)
<1> SUFFICES ASSUME i < j PROVE Rank(I, i) < Rank(I, j)
  OBVIOUS
<1>1. i \in Nat /\ j - 1 \in Nat /\ i <= j - 1
  OBVIOUS
<1>2. Rank(I, i) <= Rank(I, j - 1) /\ Rank(I, j - 1) = Rank(I, j) - 1
  BY <1>1, RankAscends, RankOfMember
<1>3. Rank(I, i) \in Nat /\ Rank(I, j) \in Nat
  BY UpToIsFinite
<1> QED BY <1>2, <1>3

LEMMA RankOnto ==
    ASSUME NEW n \in Nat, NEW I \in SUBSET (1 .. n), NEW m \in 1 .. Cardinality(I)
    PROVE  \E i \in I : Rank(I, i) = m
<1> DEFINE K == {k \in Nat : m <= Rank(I, k) => \E i \in I : Rank(I, i) = m}
<1>1. Cardinality(I) \in Nat /\ Rank(I, n) = Cardinality(I) /\ Rank(I, 0) = 0
  BY RankEnds, UpToIsFinite
<1>2. 0 \in K
  BY <1>1
<1>3. ASSUME NEW k \in Nat, k \in K PROVE k + 1 \in K
  <2> SUFFICES ASSUME m <= Rank(I, k + 1) PROVE \E i \in I : Rank(I, i) = m
    OBVIOUS
  <2>1. CASE m <= Rank(I, k)
    BY <1>3, <2>1
  <2>2. CASE ~(m <= Rank(I, k))
    <3>1. Rank(I, k) \in Nat /\ Rank(I, k + 1) \in Nat /\ m \in Nat
      BY <1>1, UpToIsFinite
    <3>2. k + 1 \in I => Rank(I, k + 1) = Rank(I, k) + 1
      BY RankStep
    <3>3. k + 1 \notin I => Rank(I, k + 1) = Rank(I, k)
      BY RankStep
    <3>4. k + 1 \in I
      BY <2>2, <3>3
    <3>5. Rank(I, k + 1) = m
      BY <2>2, <3>1, <3>2, <3>4
    <3> QED BY <3>4, <3>5
  <2> QED BY <2>1, <2>2
<1>4. n \in K
  <2> HIDE DEF K
  <2> QED BY <1>2, <1>3, SetInduction
<1> QED BY <1>1, <1>4

\* What Ordinal finds.
LEMMA OrdinalFacts ==
    ASSUME NEW n \in Nat, NEW I \in SUBSET (1 .. n), NEW m \in 1 .. Cardinality(I)
    PROVE  Ordinal(I, m) \in I /\ Rank(I, Ordinal(I, m)) = m
<1>1. PICK i \in I : Rank(I, i) = m
  BY RankOnto
<1> QED BY <1>1 DEF Ordinal, Rank, UpTo

LEMMA OrdinalOfRank ==
    ASSUME NEW n \in Nat, NEW I \in SUBSET (1 .. n), NEW i \in I
    PROVE  Ordinal(I, Rank(I, i)) = i
<1> DEFINE m == Rank(I, i)
           j == Ordinal(I, m)
<1>0. m \in 1 .. Cardinality(I)
  BY RankOfMember
<1>1. j \in I /\ Rank(I, j) = m
  <2> HIDE DEF m
  <2> QED BY <1>0, OrdinalFacts
<1> HIDE DEF j
<1>2. ~(i < j) /\ ~(j < i)
  <2>1. Rank(I, i) \in Nat
    BY UpToIsFinite
  <2>2. i < j => Rank(I, i) < Rank(I, j)
    BY <1>1, RankInjective
  <2>3. j < i => Rank(I, j) < Rank(I, i)
    BY <1>1, RankInjective
  <2> QED BY <1>1, <2>1, <2>2, <2>3
<1>3. i \in Nat /\ j \in Nat
  BY <1>1
<1>4. i = j
  BY <1>2, <1>3
<1> QED BY <1>4 DEF j, m

\* What is picked from a sequence.
LEMMA PickFacts ==
    ASSUME NEW S, NEW s \in Seq(S), NEW I \in SUBSET (DOMAIN s)
    PROVE  /\ Pick(s, I) \in Seq(S) /\ Len(Pick(s, I)) = Cardinality(I) /\ Cardinality(I) \in Nat
           /\ \A m \in 1 .. Cardinality(I) : Pick(s, I)[m] = s[Ordinal(I, m)]
           /\ \A i \in I : Pick(s, I)[Rank(I, i)] = s[i]
<1> DEFINE n == Len(s)
           p == Pick(s, I)
<1>1. n \in Nat /\ I \in SUBSET (1 .. n)
  OBVIOUS
<1>2. Cardinality(I) \in Nat
  <2>1. Rank(I, n) = Cardinality(I) /\ Rank(I, n) \in Nat
    BY <1>1, RankEnds, UpToIsFinite
  <2> QED BY <2>1
<1>3. ASSUME NEW m \in 1 .. Cardinality(I) PROVE s[Ordinal(I, m)] \in S
  <2>1. Ordinal(I, m) \in I
    BY <1>1, OrdinalFacts
  <2> QED BY <2>1
<1>4. p = [m \in 1 .. Cardinality(I) |-> s[Ordinal(I, m)]]
  BY DEF Pick
<1>5. p \in Seq(S) /\ Len(p) = Cardinality(I)
  BY <1>2, <1>3, <1>4
<1>6. ASSUME NEW i \in I PROVE p[Rank(I, i)] = s[i]
  <2>1. Rank(I, i) \in 1 .. Cardinality(I) /\ Ordinal(I, Rank(I, i)) = i
    BY <1>1, RankOfMember, OrdinalOfRank
  <2> QED BY <1>4, <2>1
<1> HIDE DEF p
<1> QED BY <1>2, <1>4, <1>5, <1>6 DEF p

\* What the letters of a query and its changes are made of.
Item    == [value : BOOLEAN, mode : Char]
Query   == [value : BOOLEAN, items : Seq(Item)]
Changes == [kind : {"change", "get", "missing", "unknown"}, mode : Char, value : BOOLEAN,
            param : Seq(Char)]
Reading == [params : Seq(Seq(Char)), out : Seq(Changes)]

LEMMA ChangeIsTyped ==
    ASSUME NEW kind \in {"change", "get", "missing", "unknown"}, NEW m \in Char, NEW v \in BOOLEAN,
           NEW p \in Seq(Char)
    PROVE  Change(kind, m, v, p) \in Changes
BY DEF Change, Changes

LEMMA StarIsChar == "*" \in Char
BY DEF Char

LEMMA WithoutIsTyped ==
    ASSUME NEW m \in Char, NEW v \in BOOLEAN
    PROVE  WithoutParam(v, m) \in Changes
<1>1. /\ Change("change", m, v, <<>>) \in Changes /\ Change("get", m, FALSE, <<>>) \in Changes
      /\ Change("missing", m, v, <<>>) \in Changes /\ Change("unknown", m, v, <<>>) \in Changes
      /\ Change("change", m, v, <<"*">>) \in Changes
  BY StarIsChar DEF Change, Changes
<1> QED BY <1>1 DEF WithoutParam

\* SimpleQuery after each number of characters.
LEMMA QueryFold ==
    ASSUME NEW s \in Seq(Char)
    PROVE  \E h \in [0 .. Len(s) -> Query] :
              /\ h[0] = [value |-> TRUE, items |-> <<>>]
              /\ \A i \in 1 .. Len(s) : h[i] = IF s[i] \in Signs THEN [h[i - 1] EXCEPT !.value = (s[i] = "+")]
                    ELSE [h[i - 1] EXCEPT !.items = Append(@, [value |-> h[i - 1].value, mode |-> s[i]])]
              /\ SimpleQuery(s) = h[Len(s)].items
<1> DEFINE Next(q, c) == IF c \in Signs THEN [q EXCEPT !.value = (c = "+")]
                         ELSE [q EXCEPT !.items = Append(@, [value |-> q.value, mode |-> c])]
           base == [value |-> TRUE, items |-> <<>>]
           n == Len(s)
           F(g) == [T \in SUBSET (1 .. n) |->
                      IF T = {} THEN base ELSE Next(g[T \ {Max(T)}], s[Max(T)])]
           g0 == CHOOSE g : g = F(g)
           st == [i \in 1 .. n |-> [q \in Query |-> Next(q, s[i])]]
<1>1. SimpleQuery(s) = g0[1 .. n].items
  <2>1. DOMAIN (s) = 1 .. n
    OBVIOUS
  <2> QED BY <2>1, Zenon DEF SimpleQuery, FoldLeft, MapThenFoldSet
<1>2. base \in Query
  BY DEF Query, Item
<1>3. ASSUME NEW q \in Query, NEW c \in Char PROVE Next(q, c) \in Query
  <2>1. Append(q.items, [value |-> q.value, mode |-> c]) \in Seq(Item)
    <3>1. [value |-> q.value, mode |-> c] \in Item
      BY DEF Query, Item
    <3> QED BY <3>1 DEF Query
  <2>2. [q EXCEPT !.items = Append(@, [value |-> q.value, mode |-> c])] \in Query
    BY <2>1 DEF Query
  <2>3. [q EXCEPT !.value = (c = "+")] \in Query
    BY DEF Query
  <2> QED BY <2>2, <2>3
<1>4. st \in [1 .. n -> [Query -> Query]] /\ n \in Nat
  <2>1. \A i \in 1 .. n : s[i] \in Char
    OBVIOUS
  <2> HIDE DEF Next
  <2> QED BY <1>3, <2>1
<1>5. \A i \in 1 .. n, q \in Query : st[i][q] = Next(q, s[i])
  OBVIOUS
<1> HIDE DEF Next, base, st, n
<1>6. Steps(n, Query, base, st)
  BY <1>2, <1>4 DEF Steps
<1>7. \E g : g = F(g)
  <2>1. PICK g : IsFold(g, n, Query, base, st)
    BY <1>6, FoldExists
  <2>2. /\ g \in [SUBSET (1 .. n) -> Query]
        /\ \A T \in SUBSET (1 .. n) : g[T] = IF T = {} THEN base ELSE st[Max(T)][g[T \ {Max(T)}]]
    BY <2>1 DEF IsFold
  <2>3. ASSUME NEW T \in SUBSET (1 .. n), T # {} PROVE g[T] = Next(g[T \ {Max(T)}], s[Max(T)])
    <3>1. Max(T) \in 1 .. n /\ g[T \ {Max(T)}] \in Query
      BY <1>4, <2>2, <2>3, MaxIn
    <3> QED BY <1>5, <2>2, <2>3, <3>1
  <2> QED BY <2>2, <2>3
<1>8. g0 = F(g0)
  BY <1>7
<1> HIDE DEF g0
<1>9. g0[{}] = base
  <2> {} \in SUBSET (1 .. n)
    OBVIOUS
  <2> QED BY <1>8
<1>10. ASSUME NEW T \in SUBSET (1 .. n), T # {}, g0[T \ {Max(T)}] \in Query
       PROVE  g0[T] = st[Max(T)][g0[T \ {Max(T)}]]
  <2>1. Max(T) \in 1 .. n
    BY <1>4, <1>10, MaxIn
  <2> QED BY <1>5, <1>8, <1>10, <2>1
<1>11. FollowsSteps(g0, n, Query, base, st)
  BY <1>9, <1>10 DEF FollowsSteps
<1>12. PICK h : FoldValues(h, n, Query, base, st) /\ h[n] = g0[1 .. n]
  BY <1>6, <1>11, FoldRun
<1>13. h \in [0 .. n -> Query] /\ h[0] = base /\ \A i \in 1 .. n : h[i] = st[i][h[i - 1]]
  BY <1>12 DEF FoldValues
<1>14. \A i \in 1 .. n : h[i] = Next(h[i - 1], s[i])
  <2> \A i \in 1 .. n : h[i - 1] \in Query
    BY <1>4, <1>13
  <2> QED BY <1>5, <1>13
<1> QED BY <1>1, <1>12, <1>13, <1>14 DEF Next, base, n

\* h is what was read after each number of letters.
ChangesPath(h, items, given) ==
    /\ h \in [0 .. Len(items) -> Reading] /\ h[0] = [params |-> given, out |-> <<>>]
    /\ \A i \in 1 .. Len(items) :
          h[i] = IF Takes(items[i].value, items[i].mode) /\ h[i - 1].params # <<>>
                 THEN [params |-> Tail(h[i - 1].params),
                       out |-> Append(h[i - 1].out,
                                      WithParam(items[i].value, items[i].mode, Head(h[i - 1].params)))]
                 ELSE [h[i - 1] EXCEPT !.out = Append(@, WithoutParam(items[i].value, items[i].mode))]

\* The changes of a query after each number of letters.
LEMMA ChangesFold ==
    ASSUME NEW s, NEW args, SimpleQuery(s) \in Seq(Item), non_empty(args) \in Seq(Seq(Char)),
           NEW items, items = SimpleQuery(s), NEW given, given = non_empty(args)
    PROVE  \E h : ChangesPath(h, items, given) /\ channel_query(s, args) = h[Len(items)].out
<1> DEFINE letters == SimpleQuery(s)
           words == non_empty(args)
           Next(q, c) == IF Takes(c.value, c.mode) /\ q.params # <<>>
                         THEN [params |-> Tail(q.params),
                               out |-> Append(q.out, WithParam(c.value, c.mode, Head(q.params)))]
                         ELSE [q EXCEPT !.out = Append(@, WithoutParam(c.value, c.mode))]
           base == [params |-> words, out |-> <<>>]
           n == Len(letters)
           F(g) == [T \in SUBSET (1 .. n) |->
                      IF T = {} THEN base ELSE Next(g[T \ {Max(T)}], letters[Max(T)])]
           g0 == CHOOSE g : g = F(g)
           st == [i \in 1 .. n |-> [q \in Reading |-> Next(q, letters[i])]]
<1>1. channel_query(s, args) = g0[1 .. n].out
  <2>1. DOMAIN letters = 1 .. n
    OBVIOUS
  <2> QED BY <2>1, Zenon DEF channel_query, FoldLeft, MapThenFoldSet
<1>0. letters \in Seq(Item) /\ words \in Seq(Seq(Char)) /\ letters = items /\ words = given
  OBVIOUS
<1> HIDE DEF letters, words
<1>2. base \in Reading
  BY <1>0 DEF Reading
<1>3. ASSUME NEW q \in Reading, NEW c \in Item PROVE Next(q, c) \in Reading
  <2>1. CASE Takes(c.value, c.mode) /\ q.params # <<>>
    <3>1. Tail(q.params) \in Seq(Seq(Char)) /\ Head(q.params) \in Seq(Char)
      BY <2>1 DEF Reading
    <3>2. WithParam(c.value, c.mode, Head(q.params)) \in Changes
      BY <3>1 DEF WithParam, Change, Changes, Item
    <3>3. Append(q.out, WithParam(c.value, c.mode, Head(q.params))) \in Seq(Changes)
      BY <3>2 DEF Reading
    <3> QED BY <2>1, <3>1, <3>3 DEF Reading
  <2>2. CASE ~(Takes(c.value, c.mode) /\ q.params # <<>>)
    <3>1. WithoutParam(c.value, c.mode) \in Changes
      BY WithoutIsTyped DEF Item
    <3>2. Append(q.out, WithoutParam(c.value, c.mode)) \in Seq(Changes)
      BY <3>1 DEF Reading
    <3>3. [q EXCEPT !.out = Append(@, WithoutParam(c.value, c.mode))] \in Reading
      BY <3>2 DEF Reading
    <3> QED BY <2>2, <3>3
  <2> QED BY <2>1, <2>2
<1>4. st \in [1 .. n -> [Reading -> Reading]] /\ n \in Nat
  <2>1. n \in Nat /\ \A i \in 1 .. n : letters[i] \in Item
    BY <1>0
  <2> HIDE DEF Next
  <2> QED BY <1>3, <2>1
<1>5. \A i \in 1 .. n, q \in Reading : st[i][q] = Next(q, letters[i])
  OBVIOUS
<1> HIDE DEF Next, base, st, n
<1>6. Steps(n, Reading, base, st)
  BY <1>2, <1>4 DEF Steps
<1>7. \E g : g = F(g)
  <2>1. PICK g : IsFold(g, n, Reading, base, st)
    BY <1>6, FoldExists
  <2>2. /\ g \in [SUBSET (1 .. n) -> Reading]
        /\ \A T \in SUBSET (1 .. n) : g[T] = IF T = {} THEN base ELSE st[Max(T)][g[T \ {Max(T)}]]
    BY <2>1 DEF IsFold
  <2>3. ASSUME NEW T \in SUBSET (1 .. n), T # {} PROVE g[T] = Next(g[T \ {Max(T)}], letters[Max(T)])
    <3>1. Max(T) \in 1 .. n /\ g[T \ {Max(T)}] \in Reading
      BY <1>4, <2>2, <2>3, MaxIn
    <3> QED BY <1>5, <2>2, <2>3, <3>1
  <2> QED BY <2>2, <2>3
<1>8. g0 = F(g0)
  BY <1>7
<1> HIDE DEF g0
<1>9. g0[{}] = base
  <2> {} \in SUBSET (1 .. n)
    OBVIOUS
  <2> QED BY <1>8
<1>10. ASSUME NEW T \in SUBSET (1 .. n), T # {}, g0[T \ {Max(T)}] \in Reading
       PROVE  g0[T] = st[Max(T)][g0[T \ {Max(T)}]]
  <2>1. Max(T) \in 1 .. n
    BY <1>4, <1>10, MaxIn
  <2> QED BY <1>5, <1>8, <1>10, <2>1
<1>11. FollowsSteps(g0, n, Reading, base, st)
  BY <1>9, <1>10 DEF FollowsSteps
<1>12. PICK h : FoldValues(h, n, Reading, base, st) /\ h[n] = g0[1 .. n]
  BY <1>6, <1>11, FoldRun
<1>13. h \in [0 .. n -> Reading] /\ h[0] = base /\ \A i \in 1 .. n : h[i] = st[i][h[i - 1]]
  BY <1>12 DEF FoldValues
<1>14. \A i \in 1 .. n : h[i] = Next(h[i - 1], letters[i])
  <2> \A i \in 1 .. n : h[i - 1] \in Reading
    BY <1>4, <1>13
  <2> QED BY <1>5, <1>13
<1>15. ChangesPath(h, items, given)
  BY <1>0, <1>13, <1>14 DEF Next, base, n, ChangesPath
<1> QED BY <1>0, <1>1, <1>12, <1>15 DEF n

-----------------------------------------------------------------------------
(* The letters of a query *)

\* The letters of a query by their places, the sign in force at a place, and the letters
\* that have a parameter.
Letters(s)   == {j \in DOMAIN s : s[j] \notin Signs}
SignIn(s, i) ==
    LET before == {j \in 1 .. i : s[j] \in Signs}
    IN  before = {} \/ s[Max(before)] = "+"
Takers(s)    == {j \in Letters(s) : Takes(SignIn(s, j), s[j])}

LEMMA SignStarts == ASSUME NEW s PROVE SignIn(s, 0)
<1>1. {j \in 1 .. 0 : s[j] \in Signs} = {}
  OBVIOUS
<1> QED BY <1>1 DEF SignIn

LEMMA SignSteps ==
    ASSUME NEW s \in Seq(Char), NEW i \in Nat, i + 1 <= Len(s)
    PROVE  /\ s[i + 1] \in Signs => (SignIn(s, i + 1) <=> s[i + 1] = "+")
           /\ s[i + 1] \notin Signs => (SignIn(s, i + 1) <=> SignIn(s, i))
<1> DEFINE B(k) == {j \in 1 .. k : s[j] \in Signs}
           m == i + 1
<1>1. ASSUME s[m] \in Signs PROVE SignIn(s, m) <=> s[m] = "+"
  <2>1. B(m) \in SUBSET (1 .. m) /\ m \in B(m) /\ m \in Nat
    BY <1>1
  <2>2. Max(B(m)) = m
    <3> HIDE DEF B, m
    <3> QED BY <2>1, MaxOfBounded
  <2>3. SignIn(s, m) <=> (B(m) = {} \/ s[Max(B(m))] = "+")
    BY DEF SignIn
  <2> HIDE DEF B, m
  <2> QED BY <2>1, <2>2, <2>3
<1>2. ASSUME s[m] \notin Signs PROVE SignIn(s, m) <=> SignIn(s, i)
  <2>1. B(m) = B(i)
    <3>1. \A j \in 1 .. m : j \in 1 .. i \/ j = m
      OBVIOUS
    <3>2. \A j \in 1 .. i : j \in 1 .. m
      OBVIOUS
    <3> HIDE DEF m
    <3> QED BY <1>2, <3>1, <3>2
  <2>2. /\ SignIn(s, m) <=> (B(m) = {} \/ s[Max(B(m))] = "+")
        /\ SignIn(s, i) <=> (B(i) = {} \/ s[Max(B(i))] = "+")
    BY DEF SignIn
  <2> HIDE DEF B, m
  <2> QED BY <2>1, <2>2
<1> QED BY <1>1, <1>2

\* The letters that were read are those up to place i, each with the sign in force there.
LettersRead(s, i, q) ==
    /\ q.value <=> SignIn(s, i)
    /\ Len(q.items) = Rank(Letters(s), i)
    /\ \A j \in UpTo(Letters(s), i) :
          /\ q.items[Rank(Letters(s), j)].mode = s[j]
          /\ q.items[Rank(Letters(s), j)].value <=> SignIn(s, j)

LEMMA LetterRead ==
    ASSUME NEW s \in Seq(Char), NEW i \in Nat, i + 1 <= Len(s), NEW q \in Query,
           LettersRead(s, i, q), NEW r,
           r = IF s[i + 1] \in Signs THEN [q EXCEPT !.value = (s[i + 1] = "+")]
               ELSE [q EXCEPT !.items = Append(@, [value |-> q.value, mode |-> s[i + 1]])]
    PROVE  LettersRead(s, i + 1, r)
<1> DEFINE I == Letters(s)
           n == Len(s)
           m == i + 1
           x == q.items
<1>1. n \in Nat /\ I \in SUBSET (1 .. n) /\ m \in 1 .. n /\ (m \in I <=> s[m] \notin Signs)
  BY DEF Letters
<1>2. x \in Seq(Item) /\ q.value \in BOOLEAN
  BY DEF Query
<1>3. /\ q.value <=> SignIn(s, i)
      /\ Len(x) = Rank(I, i)
      /\ \A j \in UpTo(I, i) : x[Rank(I, j)].mode = s[j] /\ (x[Rank(I, j)].value <=> SignIn(s, j))
  BY DEF LettersRead
<1>4. \A j \in UpTo(I, i) : Rank(I, j) \in 1 .. Len(x)
  <2> SUFFICES ASSUME NEW j \in UpTo(I, i) PROVE Rank(I, j) \in 1 .. Len(x)
    OBVIOUS
  <2>1. j \in I /\ j <= i
    BY DEF UpTo
  <2>2. j \in Nat
    BY <1>1, <2>1
  <2> HIDE DEF I
  <2>3. Rank(I, j) \in 1 .. Cardinality(I) /\ Rank(I, j) <= Rank(I, i)
    BY <1>1, <2>1, <2>2, RankOfMember, RankAscends
  <2> QED BY <1>2, <1>3, <2>3
<1>5. \A j \in UpTo(I, m) : j \in UpTo(I, i) \/ j = m
  BY <1>1 DEF UpTo
<1>6. CASE s[m] \in Signs
  <2>1. r.value = (s[m] = "+") /\ r.items = x
    BY <1>6 DEF Query
  <2>2. r.value <=> SignIn(s, m)
    BY <1>6, <2>1, SignSteps
  <2>3. m \notin I
    BY <1>1, <1>6
  <2> HIDE DEF I, x
  <2>4. Len(r.items) = Rank(I, m)
    BY <1>1, <1>3, <2>1, <2>3, RankStep
  <2>5. m \notin UpTo(I, m)
    BY <2>3 DEF UpTo
  <2>6. ASSUME NEW j \in UpTo(I, m)
        PROVE  r.items[Rank(I, j)].mode = s[j] /\ (r.items[Rank(I, j)].value <=> SignIn(s, j))
    <3>1. j \in UpTo(I, i)
      BY <1>5, <2>5
    <3> QED BY <1>3, <2>1, <3>1
  <2> QED BY <2>2, <2>4, <2>6 DEF LettersRead, I
<1>7. CASE s[m] \notin Signs
  <2> DEFINE c == [value |-> q.value, mode |-> s[m]]
  <2>1. r.value = q.value /\ r.items = Append(x, c)
    BY <1>7 DEF Query
  <2>2. (r.value <=> SignIn(s, m)) /\ (c.value <=> SignIn(s, m)) /\ c.mode = s[m]
    BY <1>3, <1>7, <2>1, SignSteps
  <2>3. m \in I
    BY <1>1, <1>7
  <2>4. c \in Item
    BY <1>1, <1>2 DEF Item
  <2>5. Len(r.items) = Len(x) + 1 /\ r.items[Len(x) + 1] = c /\ \A l \in 1 .. Len(x) : r.items[l] = x[l]
    BY <1>2, <2>1, <2>4, AppendProperties
  <2> HIDE DEF I, x, c
  <2>6. Rank(I, m) = Len(x) + 1
    BY <1>1, <1>3, <2>3, RankStep
  <2>7. ASSUME NEW j \in UpTo(I, m)
        PROVE  r.items[Rank(I, j)].mode = s[j] /\ (r.items[Rank(I, j)].value <=> SignIn(s, j))
    <3>1. CASE j = m
      BY <2>2, <2>5, <2>6, <3>1
    <3>2. CASE j \in UpTo(I, i)
      BY <1>3, <1>4, <2>5, <3>2
    <3> QED BY <1>5, <3>1, <3>2
  <2> QED BY <2>2, <2>5, <2>6, <2>7 DEF LettersRead, I
<1> QED BY <1>6, <1>7

\* SimpleQuery returns the letters of the query.
LEMMA QueryFacts ==
    ASSUME NEW s \in Seq(Char)
    PROVE  /\ SimpleQuery(s) \in Seq(Item) /\ Len(SimpleQuery(s)) = Cardinality(Letters(s))
           /\ \A j \in Letters(s) :
                 /\ SimpleQuery(s)[Rank(Letters(s), j)].mode = s[j]
                 /\ SimpleQuery(s)[Rank(Letters(s), j)].value <=> SignIn(s, j)
<1> DEFINE n == Len(s)
           I == Letters(s)
<1>1. PICK h \in [0 .. Len(s) -> Query] :
              /\ h[0] = [value |-> TRUE, items |-> <<>>]
              /\ \A i \in 1 .. Len(s) :
                    h[i] = IF s[i] \in Signs THEN [h[i - 1] EXCEPT !.value = (s[i] = "+")]
                           ELSE [h[i - 1] EXCEPT !.items = Append(@, [value |-> h[i - 1].value, mode |-> s[i]])]
              /\ SimpleQuery(s) = h[Len(s)].items
  BY QueryFold
<1>2. n \in Nat /\ I \in SUBSET (1 .. n)
  BY DEF Letters
<1> DEFINE K == {k \in Nat : k <= n => LettersRead(s, k, h[k])}
<1>3. 0 \in K
  <2>1. UpTo(I, 0) = {}
    BY <1>2 DEF UpTo
  <2>2. Rank(I, 0) = 0
    <3> HIDE DEF I, n
    <3> QED BY <1>2, RankEnds
  <2>3. SignIn(s, 0) /\ h[0].value /\ h[0].items = <<>>
    BY <1>1, SignStarts
  <2> QED BY <2>1, <2>2, <2>3 DEF LettersRead
<1>4. ASSUME NEW k \in Nat, k \in K PROVE k + 1 \in K
  <2> SUFFICES ASSUME k + 1 <= n PROVE LettersRead(s, k + 1, h[k + 1])
    OBVIOUS
  <2>1. k + 1 \in 1 .. n /\ (k + 1) - 1 = k /\ k \in 0 .. Len(s)
    BY <1>2
  <2>2. h[k] \in Query /\ LettersRead(s, k, h[k])
    BY <1>4, <2>1
  <2>3. h[k + 1] = IF s[k + 1] \in Signs THEN [h[k] EXCEPT !.value = (s[k + 1] = "+")]
                   ELSE [h[k] EXCEPT !.items = Append(@, [value |-> h[k].value, mode |-> s[k + 1]])]
    BY <1>1, <2>1
  <2> QED BY <2>2, <2>3, LetterRead
<1>5. n \in K
  <2> HIDE DEF K
  <2> QED BY <1>2, <1>3, <1>4, SetInduction
<1>6. LettersRead(s, n, h[n]) /\ h[n] \in Query
  BY <1>2, <1>5
<1>7. UpTo(I, n) = I
  BY <1>2 DEF UpTo
<1>8. Rank(I, n) = Cardinality(I)
  <2> HIDE DEF I, n
  <2> QED BY <1>2, RankEnds
<1> QED BY <1>1, <1>6, <1>7, <1>8 DEF LettersRead, Query

-----------------------------------------------------------------------------
(* The changes of a query *)

\* The letters that have a parameter, by their places among the letters, and the change that
\* a letter stands for.
TakersOf(items) == {m \in DOMAIN items : Takes(items[m].value, items[m].mode)}
ChangeAt(items, given, m) ==
    IF m \in TakersOf(items) /\ Rank(TakersOf(items), m) <= Len(given)
    THEN WithParam(items[m].value, items[m].mode, given[Rank(TakersOf(items), m)])
    ELSE WithoutParam(items[m].value, items[m].mode)

\* As many letters before a place have a parameter as among the first letters.
LEMMA TakersCount ==
    ASSUME NEW s \in Seq(Char), NEW i \in 0 .. Len(s)
    PROVE  Rank(TakersOf(SimpleQuery(s)), Rank(Letters(s), i)) = Rank(Takers(s), i)
<1> DEFINE n == Len(s)
           I == Letters(s)
           X == SimpleQuery(s)
           T == Takers(s)
           TX == TakersOf(X)
           N == Len(X)
<1>1. n \in Nat /\ I \in SUBSET (1 .. n) /\ T \in SUBSET (1 .. n)
  BY DEF Letters, Takers
<1>2. /\ X \in Seq(Item) /\ N = Cardinality(I)
      /\ \A j \in I : X[Rank(I, j)].mode = s[j] /\ (X[Rank(I, j)].value <=> SignIn(s, j))
  BY QueryFacts
<1>3. N \in Nat /\ TX \in SUBSET (1 .. N)
  BY <1>2 DEF TakersOf
<1>4. ASSUME NEW j \in I PROVE Rank(I, j) \in TX <=> j \in T
  <2> DEFINE l == Rank(I, j)
  <2>1. l \in 1 .. N
    <3> HIDE DEF I
    <3> QED BY <1>1, <1>2, RankOfMember
  <2> HIDE DEF l
  <2>2. l \in DOMAIN X /\ X[l].mode = s[j] /\ (X[l].value <=> SignIn(s, j))
    BY <1>2, <2>1 DEF l
  <2> HIDE DEF X
  <2>3. Takes(X[l].value, X[l].mode) <=> Takes(SignIn(s, j), s[j])
    BY <2>2 DEF Takes
  <2>4. l \in TX <=> j \in T
    BY <2>2, <2>3 DEF TakersOf, Takers
  <2> QED BY <2>4 DEF l
<1> DEFINE K == {k \in Nat : k <= n => Rank(TX, Rank(I, k)) = Rank(T, k)}
<1> HIDE DEF I, X, T, TX, N, n
<1>5. 0 \in K
  <2>1. Rank(I, 0) = 0 /\ Rank(T, 0) = 0
    BY <1>1, RankEnds
  <2>2. Rank(TX, 0) = 0
    BY <1>3, RankEnds
  <2> QED BY <2>1, <2>2
<1>6. ASSUME NEW k \in Nat, k \in K PROVE k + 1 \in K
  <2> SUFFICES ASSUME k + 1 <= n PROVE Rank(TX, Rank(I, k + 1)) = Rank(T, k + 1)
    OBVIOUS
  <2> DEFINE m == k + 1
             r == Rank(I, k)
  <2>1. Rank(TX, r) = Rank(T, k)
    BY <1>1, <1>6
  <2>2. r \in Nat
    BY <1>1, UpToIsFinite
  <2>3. /\ m \in I => Rank(I, m) = r + 1
        /\ m \notin I => Rank(I, m) = r
        /\ m \in T => Rank(T, m) = Rank(T, k) + 1
        /\ m \notin T => Rank(T, m) = Rank(T, k)
    BY <1>1, RankStep
  <2> HIDE DEF r
  <2>4. /\ r + 1 \in TX => Rank(TX, r + 1) = Rank(TX, r) + 1
        /\ r + 1 \notin TX => Rank(TX, r + 1) = Rank(TX, r)
    BY <1>3, <2>2, RankStep
  <2> HIDE DEF m
  <2>5. CASE m \in I
    <3>1. r + 1 \in TX <=> m \in T
      BY <1>4, <2>3, <2>5
    <3> QED BY <2>1, <2>3, <2>4, <2>5, <3>1 DEF m
  <2>6. CASE m \notin I
    <3>1. m \notin T
      BY <2>6 DEF Takers, I, T
    <3> QED BY <2>1, <2>3, <2>6, <3>1 DEF r, m
  <2> QED BY <2>5, <2>6
<1>7. i \in K
  <2>1. i \in Nat
    BY DEF n
  <2> HIDE DEF K
  <2> QED BY <1>5, <1>6, <2>1, SetInduction
<1>8. i <= n
  BY DEF n
<1> QED BY <1>7, <1>8 DEF I, X, T, TX

\* The first m letters are read: they took the first parameters, one each.
ChangesRead(items, given, m, st) ==
    LET taken == Rank(TakersOf(items), m)
        k     == IF taken <= Len(given) THEN taken ELSE Len(given)
    IN  /\ Len(st.out) = m
        /\ \A l \in 1 .. m : st.out[l] = ChangeAt(items, given, l)
        /\ Len(st.params) = Len(given) - k
        /\ \A i \in 1 .. Len(given) - k : st.params[i] = given[k + i]

LEMMA ShiftPlaces ==
    ASSUME NEW g \in Nat, NEW k \in 0 .. g, NEW K, K = k + 1
    PROVE  \A i \in 1 .. g - K : i + 1 \in 1 .. g - k /\ k + (i + 1) = K + i
<1> SUFFICES ASSUME NEW i \in 1 .. g - (k + 1)
             PROVE  i + 1 \in 1 .. g - k /\ k + (i + 1) = (k + 1) + i
  OBVIOUS
<1>1. i \in Int /\ i >= 1 /\ i <= g - (k + 1)
  OBVIOUS
<1> QED BY <1>1

LEMMA ChangeRead ==
    ASSUME NEW items \in Seq(Item), NEW given \in Seq(Seq(Char)), NEW m \in Nat, m + 1 <= Len(items),
           NEW q \in Reading, ChangesRead(items, given, m, q), NEW r, NEW c, c = items[m + 1],
           r = IF Takes(c.value, c.mode) /\ q.params # <<>>
               THEN [params |-> Tail(q.params),
                     out |-> Append(q.out, WithParam(c.value, c.mode, Head(q.params)))]
               ELSE [q EXCEPT !.out = Append(@, WithoutParam(c.value, c.mode))]
    PROVE  ChangesRead(items, given, m + 1, r)
<1> DEFINE TX == TakersOf(items)
           t == Rank(TX, m)
           g == Len(given)
           k == IF t <= g THEN t ELSE g
           M == m + 1
           T == Rank(TX, M)
           K == IF T <= g THEN T ELSE g
<1>1. /\ TX \in SUBSET (1 .. Len(items)) /\ Len(items) \in Nat /\ g \in Nat
      /\ M \in TX <=> Takes(c.value, c.mode)
  BY DEF TakersOf
<1>2. t \in Nat /\ T \in Nat
  <2> HIDE DEF TX, M
  <2> QED BY <1>1, UpToIsFinite
<1>3. (M \in TX => T = t + 1) /\ (M \notin TX => T = t)
  <2> HIDE DEF TX
  <2> QED BY <1>1, RankStep
<1>4. /\ Len(q.out) = m /\ (\A l \in 1 .. m : q.out[l] = ChangeAt(items, given, l))
      /\ Len(q.params) = g - k /\ \A i \in 1 .. g - k : q.params[i] = given[k + i]
  BY DEF ChangesRead
<1>5. q.out \in Seq(Changes) /\ q.params \in Seq(Seq(Char)) /\ k \in 0 .. g /\ c \in Item
  <2>1. k \in 0 .. g
    BY <1>1, <1>2
  <2>2. c \in Item
    OBVIOUS
  <2> QED BY <2>1, <2>2 DEF Reading
<1> DEFINE new == ChangeAt(items, given, M)
           o == r.out
           p == r.params
           w == q.params
           u == q.out
<1>6. /\ k = IF t <= g THEN t ELSE g
      /\ K = IF T <= g THEN T ELSE g
      /\ M = m + 1
      /\ new = IF M \in TX /\ T <= g THEN WithParam(c.value, c.mode, given[T])
               ELSE WithoutParam(c.value, c.mode)
      /\ M \in TX /\ w # <<>> => o = Append(u, WithParam(c.value, c.mode, Head(w))) /\ p = Tail(w)
      /\ ~(M \in TX /\ w # <<>>) => o = Append(u, WithoutParam(c.value, c.mode)) /\ p = w
  <2>1. /\ M \in TX /\ w # <<>> => o = Append(u, WithParam(c.value, c.mode, Head(w))) /\ p = Tail(w)
        /\ ~(M \in TX /\ w # <<>>) => o = Append(u, WithoutParam(c.value, c.mode)) /\ p = w
    <3> HIDE DEF TX
    <3> QED BY <1>1 DEF Reading
  <2> QED BY <2>1 DEF ChangeAt
<1>7. u \in Seq(Changes) /\ w \in Seq(Seq(Char))
  BY <1>5
<1>12. k \in 0 .. g /\ g \in Nat
  BY <1>1, <1>5
<1>8. SUFFICES /\ o = Append(u, new) /\ new \in Changes
               /\ Len(p) = g - K /\ \A i \in 1 .. g - K : p[i] = given[K + i]
  <2>1. Len(o) = M /\ \A l \in 1 .. M : o[l] = ChangeAt(items, given, l)
    <3>1. Len(u) = m /\ \A l \in 1 .. m : u[l] = ChangeAt(items, given, l)
      BY <1>4
    <3> HIDE DEF new, o, u
    <3>2. Len(o) = m + 1 /\ o[m + 1] = new /\ \A l \in 1 .. m : o[l] = u[l]
      BY <1>7, <1>8, <3>1, AppendProperties
    <3>3. \A l \in 1 .. M : l \in 1 .. m \/ l = M
      OBVIOUS
    <3> QED BY <3>1, <3>2, <3>3 DEF new
  <2> HIDE DEF new
  <2> QED BY <1>8, <2>1 DEF ChangesRead
<1>9. Len(w) = g - k /\ \A i \in 1 .. g - k : w[i] = given[k + i]
  BY <1>4
<1> HIDE DEF new, o, p, w, u, k, K, t, T, M, TX, g
<1>10. CASE M \in TX /\ w # <<>>
  <2>1. k < g /\ k = t /\ T = t + 1 /\ K = k + 1
    <3>1. Len(w) # 0
      BY <1>7, <1>10
    <3>2. k < g
      <4>1. g - k # 0
        BY <1>9, <3>1
      <4> QED BY <1>12, <4>1
    <3>3. k = t
      BY <1>2, <1>6, <1>12, <3>2
    <3> QED BY <1>1, <1>2, <1>3, <1>6, <1>10, <3>2, <3>3
  <2>2. Head(w) = given[T]
    <3>1. 1 \in 1 .. g - k /\ Head(w) = w[1]
      BY <1>1, <1>5, <1>7, <1>10, <2>1
    <3> QED BY <1>9, <2>1, <3>1
  <2>3. new = WithParam(c.value, c.mode, given[T])
    BY <1>1, <1>2, <1>5, <1>6, <1>10, <2>1
  <2>4. new \in Changes
    <3>1. given[T] \in Seq(Char)
      <4>1. T \in 1 .. g
        BY <1>1, <1>2, <2>1
      <4> QED BY <4>1 DEF g
    <3> QED BY <1>5, <2>3, <3>1 DEF WithParam, Change, Changes, Item
  <2>5. o = Append(u, new) /\ p = Tail(w)
    BY <1>6, <1>10, <2>2, <2>3
  <2>6. Len(Tail(w)) = g - K /\ \A i \in 1 .. g - K : Tail(w)[i] = w[i + 1]
    <3>1. Len(Tail(w)) = Len(w) - 1 /\ \A i \in 1 .. Len(w) - 1 : Tail(w)[i] = w[i + 1]
      BY <1>7, <1>10, HeadTailProperties
    <3>2. Len(w) - 1 = g - K
      <4>1. (g - k) - 1 = g - (k + 1)
        BY <1>12
      <4> QED BY <1>9, <2>1, <4>1
    <3> QED BY <3>1, <3>2
  <2>7. \A i \in 1 .. g - K : i + 1 \in 1 .. g - k /\ k + (i + 1) = K + i
    BY <1>12, <2>1, ShiftPlaces
  <2> QED BY <1>9, <2>4, <2>5, <2>6, <2>7
<1>11. CASE ~(M \in TX /\ w # <<>>)
  <2>1. K = k
    <3>1. CASE M \notin TX
      BY <1>3, <1>6, <3>1
    <3>2. CASE M \in TX
      <4>1. g - k = 0
        BY <1>7, <1>9, <1>11, <3>2
      <4>2. k = g
        BY <1>1, <1>5, <4>1
      <4> QED BY <1>1, <1>2, <1>3, <1>6, <3>2, <4>2
    <3> QED BY <3>1, <3>2
  <2>2. new = WithoutParam(c.value, c.mode)
    <3>1. ~(M \in TX /\ T <= g)
      <4> SUFFICES ASSUME M \in TX, T <= g PROVE FALSE
        OBVIOUS
      <4>1. g - k = 0 /\ T = t + 1
        BY <1>3, <1>7, <1>9, <1>11
      <4> QED BY <1>1, <1>2, <1>5, <1>6, <4>1
    <3> QED BY <1>6, <3>1
  <2>3. new \in Changes
    BY <1>5, <2>2, WithoutIsTyped DEF Item
  <2>4. o = Append(u, new) /\ p = w
    BY <1>6, <1>11, <2>2
  <2> QED BY <1>9, <2>1, <2>3, <2>4
<1> QED BY <1>10, <1>11

\* What channel_query returns.
LEMMA ChannelFacts ==
    ASSUME NEW s \in Seq(Char), NEW args, non_empty(args) \in Seq(Seq(Char))
    PROVE  /\ channel_query(s, args) \in Seq(Changes)
           /\ Len(channel_query(s, args)) = Len(SimpleQuery(s))
           /\ \A m \in 1 .. Len(SimpleQuery(s)) :
                 channel_query(s, args)[m] = ChangeAt(SimpleQuery(s), non_empty(args), m)
<1> DEFINE items == SimpleQuery(s)
           given == non_empty(args)
           n == Len(items)
<1>1. items \in Seq(Item) /\ given \in Seq(Seq(Char)) /\ n \in Nat
  BY QueryFacts
<1>2. PICK h : ChangesPath(h, items, given) /\ channel_query(s, args) = h[n].out
  BY <1>1, ChangesFold
<1> HIDE DEF items, given
<1>3. /\ h \in [0 .. n -> Reading] /\ h[0] = [params |-> given, out |-> <<>>]
      /\ \A i \in 1 .. n :
            h[i] = IF Takes(items[i].value, items[i].mode) /\ h[i - 1].params # <<>>
                   THEN [params |-> Tail(h[i - 1].params),
                         out |-> Append(h[i - 1].out,
                                        WithParam(items[i].value, items[i].mode, Head(h[i - 1].params)))]
                   ELSE [h[i - 1] EXCEPT !.out = Append(@, WithoutParam(items[i].value, items[i].mode))]
  BY <1>2 DEF ChangesPath
<1> DEFINE K == {k \in Nat : k <= n => ChangesRead(items, given, k, h[k])}
<1>4. 0 \in K
  <2> DEFINE TX == TakersOf(items)
  <2>1. TX \in SUBSET (1 .. n)
    BY <1>1 DEF TakersOf
  <2>2. Rank(TX, 0) = 0
    <3> HIDE DEF TX, n
    <3> QED BY <1>1, <2>1, RankEnds
  <2>3. Len(given) \in Nat /\ h[0].params = given /\ h[0].out = <<>>
    BY <1>1, <1>3
  <2>4. \A i \in 1 .. Len(given) : 0 + i = i
    OBVIOUS
  <2> QED BY <2>2, <2>3, <2>4 DEF ChangesRead
<1>5. ASSUME NEW k \in Nat, k \in K PROVE k + 1 \in K
  <2> SUFFICES ASSUME k + 1 <= n PROVE ChangesRead(items, given, k + 1, h[k + 1])
    OBVIOUS
  <2>1. k + 1 \in 1 .. n /\ (k + 1) - 1 = k /\ k \in 0 .. n
    BY <1>1
  <2>2. h[k] \in Reading /\ ChangesRead(items, given, k, h[k])
    BY <1>3, <1>5, <2>1
  <2> DEFINE c == items[k + 1]
  <2>3. h[k + 1] = IF Takes(c.value, c.mode) /\ h[k].params # <<>>
                   THEN [params |-> Tail(h[k].params),
                         out |-> Append(h[k].out, WithParam(c.value, c.mode, Head(h[k].params)))]
                   ELSE [h[k] EXCEPT !.out = Append(@, WithoutParam(c.value, c.mode))]
    BY <1>3, <2>1
  <2> QED BY <1>1, <2>2, <2>3, ChangeRead
<1>6. n \in K
  <2> HIDE DEF K, n
  <2> QED BY <1>1, <1>4, <1>5, SetInduction
<1>7. ChangesRead(items, given, n, h[n]) /\ h[n] \in Reading
  <2> HIDE DEF n
  <2> QED BY <1>1, <1>3, <1>6
<1> QED BY <1>2, <1>7 DEF ChangesRead, Reading, items, given

\* What a letter without a parameter means.
LEMMA WithoutFacts ==
    ASSUME NEW v \in BOOLEAN, NEW m
    PROVE  /\ WithoutParam(v, m).mode = m
           /\ WithoutParam(v, m).kind # "get" => WithoutParam(v, m).value = v
           /\ WithoutParam(v, m).param = IF m = "k" /\ ~v THEN <<"*">> ELSE <<>>
           /\ WithoutParam(v, m).kind \in {"change", "get"} <=>
                 m \in SimpleModes \cup ListModes \/ (m \in {"k", "l"} /\ ~v)
BY DEF WithoutParam, Takes, Change, SimpleModes, ListModes, MemberModes

LEMMA WithFacts ==
    ASSUME NEW v, NEW m, NEW p
    PROVE  /\ WithParam(v, m, p).mode = m /\ WithParam(v, m, p).value = v
           /\ WithParam(v, m, p).kind = "change" /\ WithParam(v, m, p).param = p
BY DEF WithParam, Change

LEMMA NonEmptyIsTyped ==
    ASSUME NEW words \in Seq(Seq(Char))
    PROVE  non_empty(words) \in Seq(Seq(Char))
<1> DEFINE I == {i \in DOMAIN words : words[i] # <<>>}
<1>1. I \in SUBSET (DOMAIN words)
  OBVIOUS
<1>2. Pick(words, I) \in Seq(Seq(Char))
  <2> HIDE DEF I
  <2> QED BY <1>1, PickFacts
<1> QED BY <1>2 DEF non_empty

LEMMA NoneOfNone == non_empty(<<>>) = <<>>
<1> DEFINE none == <<>>
           I == {i \in DOMAIN none : none[i] # <<>>}
<1>1. I = {} /\ none \in Seq(Seq(Char)) /\ I \in SUBSET (DOMAIN none)
  OBVIOUS
<1>2. Pick(none, I) \in Seq(Seq(Char)) /\ Len(Pick(none, I)) = 0
  <2> HIDE DEF I, none
  <2> QED BY <1>1, PickFacts, FS_EmptySet
<1>3. Pick(none, I) = <<>>
  <2> HIDE DEF I, none
  <2> QED BY <1>2
<1> QED BY <1>3 DEF non_empty

\* The sign and the parameter of a letter of the text that was typed.
LEMMA SignFacts ==
    ASSUME NEW i
    PROVE  /\ SignAt(i) <=> SignIn(text, i)
           /\ HasParam(i) <=> Takes(SignIn(text, i), text[i])
<1>1. SignAt(i) <=> SignIn(text, i)
  BY DEF SignAt, SignIn
<1>2. HasParam(i) <=> Takes(SignIn(text, i), text[i])
  BY <1>1 DEF HasParam, Takes, ListModes, MemberModes
<1> QED BY <1>1, <1>2

LEMMA UserFacts ==
    ASSUME NEW s \in Seq(Char)
    PROVE  /\ Len(user_query(s)) = Len(SimpleQuery(s))
           /\ \A m \in DOMAIN SimpleQuery(s) :
                 /\ user_query(s)[m].mode = SimpleQuery(s)[m].mode
                 /\ user_query(s)[m].value = SimpleQuery(s)[m].value
<1> DEFINE X == SimpleQuery(s)
           kind(v, m) == IF m = "i" \/ (m = "o" /\ ~v) THEN "change"
                         ELSE IF m \in {"a", "o"} THEN "unchangeable" ELSE "unknown"
<1>1. X \in Seq(Item)
  BY QueryFacts
<1>2. user_query(s) = [i \in DOMAIN X |-> Change(kind(X[i].value, X[i].mode), X[i].mode, X[i].value, <<>>)]
  BY DEF user_query
<1> HIDE DEF X, kind
<1>3. DOMAIN user_query(s) = 1 .. Len(X) /\ Len(X) \in Nat
  BY <1>1, <1>2
<1>4. Len(user_query(s)) = Len(X)
  BY <1>2, <1>3
<1>5. \A m \in DOMAIN X : user_query(s)[m].mode = X[m].mode /\ user_query(s)[m].value = X[m].value
  BY <1>2 DEF Change
<1> QED BY <1>4, <1>5 DEF X

\* One letter of the query.
LetterRight(i) ==
    LET changes == channel_query(text, params)
        users   == user_query(text)
        given   == non_empty(params)
        at      == Rank(Letters(text), i)
        nth     == Rank(Takers(text), i)
        c       == changes[at]
    IN  /\ c.mode = text[i] /\ users[at].mode = text[i]
        /\ c.kind # "get" => c.value = SignAt(i)
        /\ users[at].value = SignAt(i)
        /\ IF HasParam(i) /\ nth <= Len(given)
           THEN c.kind = "change" /\ c.param = given[nth]
           ELSE c.param = IF text[i] = "k" /\ ~SignAt(i) THEN <<"*">> ELSE <<>>

LEMMA EachLetter ==
    ASSUME text \in Seq(Char), params \in Seq(Seq(Char)), NEW i \in Letters(text)
    PROVE  LetterRight(i)
<1> DEFINE X == SimpleQuery(text)
           n == Len(text)
           I == Letters(text)
           T == Takers(text)
           given == non_empty(params)
           C == channel_query(text, params)
           U == user_query(text)
           at == Rank(I, i)
           nth == Rank(T, i)
           sign == SignIn(text, i)
           letter == text[i]
<1>1. given \in Seq(Seq(Char))
  BY NonEmptyIsTyped
<1>2. /\ X \in Seq(Item) /\ Len(X) = Cardinality(I)
      /\ X[at].mode = letter /\ (X[at].value <=> sign)
  BY QueryFacts
<1>3. i \in 0 .. n /\ I \in SUBSET (1 .. n) /\ n \in Nat /\ i \in I
  BY DEF Letters
<1>4. at \in 1 .. Len(X) /\ at \in DOMAIN X
  <2> HIDE DEF I, n
  <2>1. at \in 1 .. Cardinality(I)
    BY <1>3, RankOfMember
  <2> HIDE DEF at
  <2> QED BY <1>2, <2>1
<1>5. C[at] = ChangeAt(X, given, at)
  <2> HIDE DEF X, at
  <2> QED BY <1>1, <1>4, ChannelFacts DEF X
<1>6. Rank(TakersOf(X), at) = nth
  BY <1>3, TakersCount
<1>7. U[at].mode = X[at].mode /\ U[at].value = X[at].value
  BY <1>4, UserFacts
<1>8. (SignAt(i) <=> sign) /\ (HasParam(i) <=> Takes(sign, letter))
  BY SignFacts
<1>9. X[at].value \in BOOLEAN /\ sign \in BOOLEAN /\ SignAt(i) \in BOOLEAN
  <2>1. X[at] \in Item
    <3> HIDE DEF X, at
    <3> QED BY <1>2, <1>4
  <2> QED BY <2>1 DEF Item, SignIn, SignAt
<1> HIDE DEF I, T, X, at, nth, given, C, U, sign, letter
<1>10. X[at].value = sign /\ SignAt(i) = sign
  BY <1>2, <1>8, <1>9
<1>11. (at \in TakersOf(X)) <=> HasParam(i)
  BY <1>2, <1>4, <1>8, <1>10 DEF TakersOf
<1>12. CASE HasParam(i) /\ nth <= Len(given)
  <2>1. C[at] = WithParam(sign, letter, given[nth])
    BY <1>2, <1>5, <1>6, <1>10, <1>11, <1>12 DEF ChangeAt
  <2>2. /\ C[at].mode = letter /\ C[at].value = sign
        /\ C[at].kind = "change" /\ C[at].param = given[nth]
    BY <2>1, WithFacts
  <2> QED BY <1>2, <1>7, <1>10, <1>12, <2>2 DEF LetterRight, I, T, at, nth, given, C, U, letter
<1>13. CASE ~(HasParam(i) /\ nth <= Len(given))
  <2>1. C[at] = WithoutParam(sign, letter)
    BY <1>2, <1>5, <1>6, <1>10, <1>11, <1>13 DEF ChangeAt
  <2>2. /\ C[at].mode = letter /\ (C[at].kind # "get" => C[at].value = sign)
        /\ C[at].param = IF letter = "k" /\ ~sign THEN <<"*">> ELSE <<>>
    BY <1>9, <2>1, WithoutFacts
  <2>3. C[at].param = IF letter = "k" /\ ~SignAt(i) THEN <<"*">> ELSE <<>>
    BY <1>10, <2>2
  <2> QED BY <1>2, <1>7, <1>10, <1>13, <2>2, <2>3 DEF LetterRight, I, T, at, nth, given, C, U, letter
<1> QED BY <1>12, <1>13

\* Which queries are default modes of the configuration.
LEMMA DefaultModes ==
    ASSUME text \in Seq(Char)
    PROVE  is_channel_mode_string(text) <=>
              \A i \in Letters(text) : text[i] \in SimpleModes \cup ListModes
                                        \/ (text[i] \in {"k", "l"} /\ ~SignAt(i))
<1> DEFINE X == SimpleQuery(text)
           n == Len(text)
           I == Letters(text)
           none == <<>>
           C == channel_query(text, none)
           Fine(i) == text[i] \in SimpleModes \cup ListModes \/ (text[i] \in {"k", "l"} /\ ~SignAt(i))
           Kind(m) == C[m].kind \in {"change", "get"}
<1>1. /\ X \in Seq(Item) /\ Len(X) = Cardinality(I)
      /\ \A i \in I : X[Rank(I, i)].mode = text[i] /\ (X[Rank(I, i)].value <=> SignIn(text, i))
  BY QueryFacts
<1>2. I \in SUBSET (1 .. n) /\ n \in Nat
  BY DEF Letters
<1>3. non_empty(none) = <<>> /\ non_empty(none) \in Seq(Seq(Char))
  <2>1. none \in Seq(Seq(Char))
    OBVIOUS
  <2> QED BY <2>1, NoneOfNone
<1>4. /\ C \in Seq(Changes) /\ Len(C) = Len(X)
      /\ \A m \in 1 .. Len(X) : C[m] = ChangeAt(X, non_empty(none), m)
  <2> HIDE DEF none
  <2> QED BY <1>3, ChannelFacts
<1>5. DOMAIN C = 1 .. Cardinality(I)
  <2> HIDE DEF C, I, X
  <2> QED BY <1>1, <1>4
<1>6. ASSUME NEW i \in I PROVE Rank(I, i) \in 1 .. Cardinality(I) /\ (Kind(Rank(I, i)) <=> Fine(i))
  <2> DEFINE m == Rank(I, i)
  <2>1. m \in 1 .. Cardinality(I)
    <3> HIDE DEF I
    <3> QED BY <1>2, RankOfMember
  <2> HIDE DEF m
  <2>2. m \in 1 .. Len(X) /\ m \in DOMAIN X
    <3> HIDE DEF X
    <3> QED BY <1>1, <2>1
  <2>3. X[m].mode = text[i] /\ (X[m].value <=> SignIn(text, i)) /\ (SignAt(i) <=> SignIn(text, i))
    BY <1>1, SignFacts DEF m
  <2>4. X[m] \in Item /\ Rank(TakersOf(X), m) \in Nat
    <3>1. TakersOf(X) \in SUBSET (1 .. Len(X)) /\ Len(X) \in Nat
      BY <1>1 DEF TakersOf
    <3>2. X[m] \in Item
      BY <1>1, <2>2
    <3> QED BY <3>1, <3>2, UpToIsFinite
  <2> HIDE DEF X, C
  <2>5. C[m] = ChangeAt(X, <<>>, m)
    BY <1>3, <1>4, <2>2
  <2>6. C[m] = WithoutParam(X[m].value, X[m].mode)
    <3>1. ~(m \in TakersOf(X) /\ Rank(TakersOf(X), m) <= Len(<<>>))
      <4> SUFFICES ASSUME m \in TakersOf(X), Rank(TakersOf(X), m) <= 0 PROVE FALSE
        BY <2>4
      <4>1. TakersOf(X) \in SUBSET (1 .. Len(X)) /\ Len(X) \in Nat
        BY <1>1 DEF TakersOf
      <4>2. Rank(TakersOf(X), m) \in 1 .. Cardinality(TakersOf(X))
        BY <4>1, RankOfMember
      <4> QED BY <4>2
    <3> QED BY <2>5, <3>1 DEF ChangeAt
  <2>7. Kind(m) <=> (X[m].mode \in SimpleModes \cup ListModes \/ (X[m].mode \in {"k", "l"} /\ ~X[m].value))
    <3>1. X[m].value \in BOOLEAN
      BY <2>4 DEF Item
    <3> QED BY <2>6, <3>1, WithoutFacts
  <2>8. Kind(m) <=> Fine(i)
    BY <2>3, <2>7
  <2> QED BY <2>1, <2>8 DEF m
<1>7. \A m \in 1 .. Cardinality(I) : \E i \in I : Rank(I, i) = m
  <2> HIDE DEF I, n
  <2> QED BY <1>2, RankOnto
<1>8. (\A m \in DOMAIN C : Kind(m)) <=> (\A i \in I : Fine(i))
  <2> HIDE DEF Kind, Fine, I, C
  <2> QED BY <1>5, <1>6, <1>7
<1>9. is_channel_mode_string(text) <=> \A m \in DOMAIN C : Kind(m)
  BY DEF is_channel_mode_string
<1> QED BY <1>8, <1>9

\* Every text that is a query is read as it is defined.
LEMMA QueryIsRight ==
    ASSUME text \in Seq(Char), params \in Seq(Seq(Char))
    PROVE  QueryByDefinition
<1> DEFINE I == Letters(text)
           letters == {i \in DOMAIN text : text[i] \notin Signs}
<1>1. letters = I
  BY DEF Letters
<1>2. \A i \in I : LetterRight(i)
  BY EachLetter
<1>3. \A i \in I : {j \in I : j <= i /\ HasParam(j)} = UpTo(Takers(text), i)
  <2>1. \A j : HasParam(j) <=> Takes(SignIn(text, j), text[j])
    BY SignFacts
  <2> QED BY <2>1 DEF Takers, UpTo
<1>4. \A i \in I : /\ Cardinality({j \in I : j <= i}) = Rank(I, i)
                   /\ Cardinality({j \in I : j <= i /\ HasParam(j)}) = Rank(Takers(text), i)
  BY <1>3 DEF Rank, UpTo
<1>5. Len(channel_query(text, params)) = Cardinality(I) /\ Len(user_query(text)) = Cardinality(I)
  <2>1. non_empty(params) \in Seq(Seq(Char))
    BY NonEmptyIsTyped
  <2> QED BY <2>1, ChannelFacts, UserFacts, QueryFacts
<1>6. is_channel_mode_string(text) <=>
          \A i \in I : text[i] \in SimpleModes \cup ListModes \/ (text[i] \in {"k", "l"} /\ ~SignAt(i))
  BY DefaultModes
<1>7. \A i \in I :
        LET c == channel_query(text, params)[Cardinality({j \in I : j <= i})]
            u == user_query(text)[Cardinality({j \in I : j <= i})]
            nth == Cardinality({j \in I : j <= i /\ HasParam(j)})
        IN  /\ c.mode = text[i] /\ u.mode = text[i]
            /\ c.kind # "get" => c.value = SignAt(i)
            /\ u.value = SignAt(i)
            /\ IF HasParam(i) /\ nth <= Len(non_empty(params))
               THEN c.kind = "change" /\ c.param = non_empty(params)[nth]
               ELSE c.param = IF text[i] = "k" /\ ~SignAt(i) THEN <<"*">> ELSE <<>>
  BY <1>2, <1>4 DEF LetterRight
<1> HIDE DEF I, letters
<1> QED BY <1>1, <1>5, <1>6, <1>7 DEF QueryByDefinition, letters

-----------------------------------------------------------------------------
(* What is typed *)

\* A text and parameters of characters, for every job.
TypedIInv == text \in Seq(STRING) /\ params \in Seq(Seq(STRING))

\* Characters are typed, and mask lists changed, by every job.
THEOREM TypedInvariance == TextSpec => []TypedIInv
<1>1. TextInit => TypedIInv
  <2> SUFFICES ASSUME TextInit PROVE TypedIInv
    OBVIOUS
  <2>1. <<>> \in Seq(STRING) /\ <<>> \in Seq(Seq(STRING))
    OBVIOUS
  <2> QED BY <2>1, TextAssumption DEF TextInit, TypedIInv
<1>2. TypedIInv /\ [TextNext]_textVars => TypedIInv'
  <2> SUFFICES ASSUME TypedIInv, [TextNext]_textVars PROVE TypedIInv'
    OBVIOUS
  <2>1. ASSUME NEW c \in LineChars \cup TagChars \cup ModeChars, type_char(c) PROVE TypedIInv'
    BY <2>1, TextAssumption DEF type_char, TypedIInv
  <2>2. ASSUME NEW mask \in Masks, change_list(mask) PROVE TypedIInv'
    BY <2>2 DEF change_list, TypedIInv
  <2>3. CASE UNCHANGED textVars
    BY <2>3 DEF TypedIInv, textVars
  <2> QED BY <2>1, <2>2, <2>3 DEF TextNext
<1> QED BY <1>1, <1>2, PTL DEF TextSpec

LEMMA SeqOfMore ==
    ASSUME NEW S, NEW T, S \subseteq T
    PROVE  Seq(S) \subseteq Seq(T)
<1> SUFFICES ASSUME NEW s \in Seq(S) PROVE s \in Seq(T)
  OBVIOUS
<1>1. Len(s) \in Nat /\ \A i \in 1 .. Len(s) : s[i] \in T
  OBVIOUS
<1>2. s = [i \in 1 .. Len(s) |-> s[i]]
  OBVIOUS
<1>3. s \in [1 .. Len(s) -> T]
  <2> DEFINE n == Len(s)
  <2>1. s = [i \in 1 .. n |-> s[i]] /\ \A i \in 1 .. n : s[i] \in T
    BY <1>1, <1>2
  <2> HIDE DEF n
  <2>2. s \in [1 .. n -> T]
    BY <2>1
  <2> QED BY <2>2 DEF n
<1> QED BY <1>1, <1>3, SeqDef

LEMMA TypedChars == ASSUME TypedIInv PROVE text \in Seq(Char) /\ params \in Seq(Seq(Char))
<1>1. STRING \subseteq Char
  BY DEF Char
<1>2. Seq(STRING) \subseteq Seq(Char)
  BY <1>1, SeqOfMore
<1>3. Seq(Seq(STRING)) \subseteq Seq(Seq(Char))
  BY <1>2, SeqOfMore
<1> QED BY <1>2, <1>3 DEF TypedIInv

\* A MODE query is read letter by letter as its definition says, whatever its letters, signs
\* and parameters.
THEOREM QueriesReadByDefinition == TextSpec => []QueryByDefinition
<1>1. TypedIInv => QueryByDefinition
  BY TypedChars, QueryIsRight
<1> QED BY <1>1, TypedInvariance, PTL

-----------------------------------------------------------------------------
(* Pieces in order *)

\* g lists the n numbers of I upwards.
Ascends(g, n, I) ==
    /\ g \in [1 .. n -> I]
    /\ \A i \in 1 .. n, j \in 1 .. n : i < j => g[i] < g[j]
    /\ \A x \in I : \E i \in 1 .. n : x = g[i]

LEMMA AscendsFacts ==
    ASSUME NEW n \in Nat, NEW I \in SUBSET Nat, NEW g, Ascends(g, n, I)
    PROVE  Cardinality(I) = n /\ \A m \in 1 .. n : Ordinal(I, m) = g[m]
<1>1. /\ g \in [1 .. n -> I]
      /\ \A i \in 1 .. n, j \in 1 .. n : i < j => g[i] < g[j]
      /\ \A x \in I : \E i \in 1 .. n : x = g[i]
  BY DEF Ascends
<1>2. \A i \in 1 .. n, j \in 1 .. n : (g[i] <= g[j] <=> i <= j) /\ (g[i] = g[j] => i = j)
  <2> SUFFICES ASSUME NEW i \in 1 .. n, NEW j \in 1 .. n
               PROVE  (g[i] <= g[j] <=> i <= j) /\ (g[i] = g[j] => i = j)
    OBVIOUS
  <2>1. g[i] \in Nat /\ g[j] \in Nat
    BY <1>1
  <2>2. (i < j => g[i] < g[j]) /\ (j < i => g[j] < g[i])
    BY <1>1
  <2>3. i < j \/ i = j \/ j < i
    OBVIOUS
  <2> QED BY <2>1, <2>2, <2>3
<1> DEFINE T(m) == {g[i] : i \in 1 .. m}
<1>3. ASSUME NEW m \in 0 .. n PROVE Cardinality(T(m)) = m
  <2> DEFINE f == [i \in 1 .. m |-> g[i]]
  <2>1. \A i \in 1 .. m : i \in 1 .. n
    OBVIOUS
  <2>2. f \in Bijection(1 .. m, T(m))
    <3>1. f \in [1 .. m -> T(m)]
      OBVIOUS
    <3>2. \A i \in 1 .. m, j \in 1 .. m : f[i] = f[j] => i = j
      BY <1>2, <2>1
    <3>3. \A x \in T(m) : \E i \in 1 .. m : f[i] = x
      OBVIOUS
    <3> HIDE DEF f, T
    <3> QED BY <3>1, <3>2, <3>3, Fun_IsBij
  <2>3. ExistsBijection(1 .. m, T(m)) /\ m \in Nat
    <3> HIDE DEF f, T
    <3> QED BY <2>2 DEF ExistsBijection
  <2> HIDE DEF T
  <2> QED BY <2>3, FS_CountingElements
<1>4. T(n) = I
  BY <1>1
<1>5. ASSUME NEW m \in 1 .. n PROVE {j \in I : j <= g[m]} = T(m)
  <2>1. \A j \in I : j <= g[m] => \E i \in 1 .. m : j = g[i]
    <3> SUFFICES ASSUME NEW j \in I, j <= g[m] PROVE \E i \in 1 .. m : j = g[i]
      OBVIOUS
    <3>1. PICK i \in 1 .. n : j = g[i]
      BY <1>1
    <3>2. i <= m
      BY <1>2, <3>1
    <3>3. i \in 1 .. m
      BY <3>2
    <3> QED BY <3>1, <3>3
  <2>2. \A i \in 1 .. m : g[i] \in I /\ g[i] <= g[m]
    <3> SUFFICES ASSUME NEW i \in 1 .. m PROVE g[i] \in I /\ g[i] <= g[m]
      OBVIOUS
    <3>1. i \in 1 .. n /\ i <= m
      OBVIOUS
    <3> QED BY <1>1, <1>2, <3>1
  <2> QED BY <2>1, <2>2
<1>6. \A m \in 1 .. n : Cardinality({j \in I : j <= g[m]}) = m
  <2> HIDE DEF T
  <2> QED BY <1>3, <1>5
<1>7. ASSUME NEW m \in 1 .. n PROVE Ordinal(I, m) = g[m]
  <2> DEFINE x == Ordinal(I, m)
  <2>1. g[m] \in I /\ Cardinality({j \in I : j <= g[m]}) = m
    BY <1>1, <1>6
  <2>2. x \in I /\ Cardinality({j \in I : j <= x}) = m
    BY <2>1 DEF Ordinal
  <2>3. PICK i \in 1 .. n : x = g[i]
    BY <1>1, <2>2
  <2>4. i = m
    BY <1>6, <2>2, <2>3
  <2> QED BY <2>3, <2>4
<1>8. Cardinality(I) = n
  <2> HIDE DEF T
  <2>1. n \in 0 .. n
    OBVIOUS
  <2> QED BY <1>3, <1>4, <2>1
<1> QED BY <1>7, <1>8

LEMMA OrdinalsAscend ==
    ASSUME NEW n \in Nat, NEW I \in SUBSET (1 .. n)
    PROVE  /\ Cardinality(I) \in Nat
           /\ Ascends([m \in 1 .. Cardinality(I) |-> Ordinal(I, m)], Cardinality(I), I)
<1> DEFINE N == Cardinality(I)
           g == [m \in 1 .. N |-> Ordinal(I, m)]
<1>1. N \in Nat
  <2>1. Rank(I, n) = N /\ Rank(I, n) \in Nat
    BY RankEnds, UpToIsFinite
  <2> QED BY <2>1
<1>2. \A m \in 1 .. N : g[m] \in I /\ g[m] \in Nat /\ Rank(I, g[m]) = m
  <2> SUFFICES ASSUME NEW m \in 1 .. N PROVE g[m] \in I /\ g[m] \in Nat /\ Rank(I, g[m]) = m
    OBVIOUS
  <2>1. Ordinal(I, m) \in I /\ Rank(I, Ordinal(I, m)) = m
    BY OrdinalFacts
  <2> HIDE DEF N
  <2>2. g[m] = Ordinal(I, m)
    OBVIOUS
  <2>3. \A x \in I : x \in Nat
    OBVIOUS
  <2> HIDE DEF g
  <2> QED BY <2>1, <2>2, <2>3
<1>3. ASSUME NEW i \in 1 .. N, NEW j \in 1 .. N, i < j PROVE g[i] < g[j]
  <2>1. g[i] \in Nat /\ g[j] \in Nat /\ Rank(I, g[i]) = i /\ Rank(I, g[j]) = j
    BY <1>2
  <2> HIDE DEF g, N
  <2>2. g[j] <= g[i] => j <= i
    BY <2>1, RankAscends
  <2>3. i \in Nat /\ j \in Nat
    BY <1>1, <1>3
  <2> QED BY <1>3, <2>1, <2>2, <2>3
<1>4. \A x \in I : \E i \in 1 .. N : x = g[i]
  <2> SUFFICES ASSUME NEW x \in I PROVE \E i \in 1 .. N : x = g[i]
    OBVIOUS
  <2>1. Rank(I, x) \in 1 .. N /\ Ordinal(I, Rank(I, x)) = x
    BY RankOfMember, OrdinalOfRank
  <2> HIDE DEF N
  <2>2. g[Rank(I, x)] = x
    BY <2>1
  <2> HIDE DEF g
  <2> QED BY <2>1, <2>2
<1>5. g \in [1 .. N -> I]
  BY <1>2
<1> HIDE DEF g, N
<1>6. Ascends(g, N, I)
  BY <1>3, <1>4, <1>5 DEF Ascends
<1> QED BY <1>1, <1>6 DEF g, N

\* The places where the pieces of a split start.
LEMMA StartsAscend ==
    ASSUME NEW s \in Seq(Char), NEW c
    PROVE  \E n \in Nat \ {0} : \E g : Ascends(g, n, Starts(s, c))
<1> DEFINE A == Starts(s, c)
           I == A \ {0}
           h == [m \in 1 .. Cardinality(I) |-> Ordinal(I, m)]
           N == Cardinality(I)
           M == N + 1
           g == [m \in 1 .. M |-> IF m = 1 THEN 0 ELSE h[m - 1]]
<1>1. I \in SUBSET (1 .. Len(s)) /\ Len(s) \in Nat /\ A = I \cup {0} /\ 0 \notin I
  BY DEF Starts
<1>2. N \in Nat /\ Ascends(h, N, I)
  <2> HIDE DEF I
  <2> QED BY <1>1, OrdinalsAscend
<1> HIDE DEF A, I, h, N
<1>3. /\ h \in [1 .. N -> I]
      /\ \A i \in 1 .. N, j \in 1 .. N : i < j => h[i] < h[j]
      /\ \A x \in I : \E i \in 1 .. N : x = h[i]
  BY <1>2 DEF Ascends
<1>4. \A m \in 1 .. M : m = 1 \/ m - 1 \in 1 .. N
  BY <1>2
<1>5. g \in [1 .. M -> A]
  BY <1>1, <1>3, <1>4
<1>6. ASSUME NEW i \in 1 .. M, NEW j \in 1 .. M, i < j PROVE g[i] < g[j]
  <2>0. j # 1
    BY <1>6
  <2>1. j - 1 \in 1 .. N /\ g[j] = h[j - 1]
    BY <1>4, <2>0
  <2>2. h[j - 1] \in I /\ h[j - 1] > 0 /\ h[j - 1] \in Nat
    <3>1. h[j - 1] \in I
      BY <1>3, <2>1
    <3>2. \A x \in I : x > 0 /\ x \in Nat
      BY <1>1
    <3> QED BY <3>1, <3>2
  <2>3. CASE i = 1
    BY <2>1, <2>2, <2>3
  <2>4. CASE i # 1
    <3>1. i - 1 \in 1 .. N /\ g[i] = h[i - 1]
      BY <1>4, <2>4
    <3>2. i - 1 < j - 1
      BY <1>6
    <3> QED BY <1>3, <2>1, <3>1, <3>2
  <2> QED BY <2>3, <2>4
<1>7. ASSUME NEW x \in A PROVE \E i \in 1 .. M : x = g[i]
  <2>1. CASE x = 0
    <3>1. 1 \in 1 .. M /\ g[1] = 0
      BY <1>2
    <3> QED BY <2>1, <3>1
  <2>2. CASE x # 0
    <3>1. PICK i \in 1 .. N : x = h[i]
      BY <1>1, <1>3, <2>2
    <3>2. i + 1 \in 1 .. M /\ i + 1 # 1 /\ (i + 1) - 1 = i
      BY <1>2
    <3>3. g[i + 1] = x
      BY <3>1, <3>2
    <3> HIDE DEF g
    <3> QED BY <3>2, <3>3
  <2> QED BY <2>1, <2>2
<1> HIDE DEF g
<1>8. Ascends(g, M, A) /\ M \in Nat \ {0}
  BY <1>2, <1>5, <1>6, <1>7 DEF Ascends
<1> QED BY <1>8 DEF A

-----------------------------------------------------------------------------
(* Splitting *)

\* items are the pieces of s between the c's.
Splits(s, c, items) ==
    \E g : /\ Ascends(g, Len(items), Starts(s, c))
           /\ \A m \in 1 .. Len(items) : items[m] = Piece(s, c, g[m])

LEMMA SplitIs ==
    ASSUME NEW s, NEW c, NEW items \in Seq(Seq(Char)), Splits(s, c, items), Starts(s, c) \in SUBSET Nat
    PROVE  split(s, c) = items
<1> DEFINE n == Len(items)
           A == Starts(s, c)
<1>1. PICK g : Ascends(g, n, A) /\ \A m \in 1 .. n : items[m] = Piece(s, c, g[m])
  BY DEF Splits
<1>2. n \in Nat
  OBVIOUS
<1>3. Cardinality(A) = n /\ \A m \in 1 .. n : Ordinal(A, m) = g[m]
  <2> HIDE DEF n, A
  <2> QED BY <1>1, <1>2, AscendsFacts DEF A
<1>4. split(s, c) = [m \in 1 .. n |-> Piece(s, c, Ordinal(A, m))]
  BY <1>3 DEF split
<1>5. \A m \in 1 .. n : Piece(s, c, Ordinal(A, m)) = items[m]
  BY <1>1, <1>3
<1>6. items = [m \in 1 .. n |-> items[m]]
  OBVIOUS
<1> HIDE DEF n, A
<1> QED BY <1>4, <1>5, <1>6

\* A text splits into pieces without c.
LEMMA SplitExists ==
    ASSUME NEW s \in Seq(Char), NEW c
    PROVE  /\ split(s, c) \in Seq(Seq(Char)) /\ split(s, c) # <<>> /\ Splits(s, c, split(s, c))
           /\ \A m \in DOMAIN split(s, c) :
                \E a \in 0 .. Len(s) :
                   /\ split(s, c)[m] = Piece(s, c, a)
                   /\ \A i \in DOMAIN split(s, c)[m] : split(s, c)[m][i] # c /\ split(s, c)[m][i] = s[a + i]
<1> DEFINE A == Starts(s, c)
           r == split(s, c)
<1>1. A \in SUBSET (0 .. Len(s)) /\ A \in SUBSET Nat
  BY DEF Starts
<1>0. PICK n \in Nat \ {0} : \E g : Ascends(g, n, A)
  BY StartsAscend
<1>2. PICK g : Ascends(g, n, A)
  BY <1>0
<1>3. Cardinality(A) = n /\ \A m \in 1 .. n : Ordinal(A, m) = g[m]
  <2> HIDE DEF A
  <2> QED BY <1>1, <1>2, AscendsFacts
<1>4. g \in [1 .. n -> A]
  BY <1>2 DEF Ascends
<1>5. r = [m \in 1 .. n |-> Piece(s, c, Ordinal(A, m))]
  BY <1>3 DEF split
<1> HIDE DEF A, r
<1>6. r = [m \in 1 .. n |-> Piece(s, c, g[m])]
  BY <1>3, <1>5
<1>7. \A m \in 1 .. n : g[m] \in 0 .. Len(s)
  BY <1>1, <1>4
<1>8. \A m \in 1 .. n : Piece(s, c, g[m]) \in Seq(Char)
  BY <1>7, PieceFacts
<1>9. r \in Seq(Seq(Char)) /\ Len(r) = n /\ DOMAIN r = 1 .. n
  BY <1>6, <1>8
<1>10. Splits(s, c, r)
  BY <1>2, <1>6, <1>9 DEF Splits, A
<1>11. ASSUME NEW m \in 1 .. n
       PROVE  \E a \in 0 .. Len(s) : /\ r[m] = Piece(s, c, a)
                                     /\ \A i \in DOMAIN r[m] : r[m][i] # c /\ r[m][i] = s[a + i]
  <2> DEFINE a == g[m]
             p == Piece(s, c, a)
             e == End(s, c, a)
  <2>1. a \in 0 .. Len(s) /\ r[m] = p
    BY <1>6, <1>7
  <2> HIDE DEF a
  <2>2. p \in Seq(Char) /\ Len(p) = e - a /\ \A i \in 1 .. e - a : p[i] = s[a + i]
    BY <2>1, PieceFacts
  <2>3. e \in a .. Len(s) /\ \A i \in a + 1 .. e : s[i] # c
    BY <2>1, EndFacts
  <2> HIDE DEF p, e
  <2>4. \A i \in 1 .. e - a : a + i \in a + 1 .. e
    BY <2>1, <2>3
  <2>5. DOMAIN p = 1 .. e - a
    BY <2>2
  <2>6. \A i \in DOMAIN p : p[i] # c /\ p[i] = s[a + i]
    BY <2>2, <2>3, <2>4, <2>5
  <2> QED BY <2>1, <2>6 DEF p
<1>12. r # <<>>
  BY <1>9
<1> QED BY <1>9, <1>10, <1>11, <1>12 DEF r

\* A text without c is its only piece.
LEMMA SplitWhole ==
    ASSUME NEW s \in Seq(Char), NEW c, \A i \in 1 .. Len(s) : s[i] # c
    PROVE  Splits(s, c, <<s>>)
<1> DEFINE A == Starts(s, c)
           g == [m \in 1 .. 1 |-> 0]
<1>1. A = {0}
  BY DEF Starts
<1>2. Ascends(g, 1, A)
  BY <1>1 DEF Ascends
<1>3. End(s, c, 0) = Len(s)
  <2>1. 0 \in 0 .. Len(s) /\ Len(s) \in 0 .. Len(s)
    OBVIOUS
  <2> QED BY <2>1, EndUnique
<1>4. Piece(s, c, 0) = s
  BY <1>3 DEF Piece
<1>5. Len(<<s>>) = 1 /\ \A m \in 1 .. 1 : <<s>>[m] = Piece(s, c, g[m])
  BY <1>4
<1> HIDE DEF g, A
<1> QED BY <1>2, <1>5 DEF Splits, A

\* K is I and then J, moved by n, and t is g and then h, moved by n.
Follows(K, I, n, J) ==
    /\ \A x \in I, y \in J : x < n + y
    /\ \A x \in I : x \in K
    /\ \A y \in J : n + y \in K
    /\ \A z \in K : z \in I \/ \E y \in J : z = n + y
Chained(t, g, p, n, h, q) ==
    (\A m \in 1 .. p : t[m] = g[m]) /\ \A m \in 1 .. q : t[p + m] = n + h[m]

LEMMA AscendsJoin ==
    ASSUME NEW p \in Nat, NEW q \in Nat, NEW n \in Nat, NEW g, NEW h,
           NEW I \in SUBSET Nat, NEW J \in SUBSET Nat, NEW K \in SUBSET Nat,
           Ascends(g, p, I), Ascends(h, q, J), Follows(K, I, n, J)
    PROVE  \E t : Ascends(t, p + q, K) /\ Chained(t, g, p, n, h, q)
<1> DEFINE t == [m \in 1 .. p + q |-> IF m <= p THEN g[m] ELSE n + h[m - p]]
<1>0. /\ \A x \in I, y \in J : x < n + y
      /\ \A x \in I : x \in K
      /\ \A y \in J : n + y \in K
      /\ \A z \in K : z \in I \/ \E y \in J : z = n + y
  BY DEF Follows
<1>1. /\ g \in [1 .. p -> I]
      /\ \A i \in 1 .. p, j \in 1 .. p : i < j => g[i] < g[j]
      /\ \A a \in I : \E i \in 1 .. p : a = g[i]
  BY DEF Ascends
<1>2. /\ h \in [1 .. q -> J]
      /\ \A i \in 1 .. q, j \in 1 .. q : i < j => h[i] < h[j]
      /\ \A a \in J : \E i \in 1 .. q : a = h[i]
  BY DEF Ascends
<1>3. \A m \in 1 .. p + q : m \in 1 .. p \/ (m - p \in 1 .. q /\ ~(m <= p))
  OBVIOUS
<1>4. \A m \in 1 .. p : m \in 1 .. p + q /\ m <= p
  OBVIOUS
<1>5. \A m \in 1 .. q : p + m \in 1 .. p + q /\ ~(p + m <= p) /\ (p + m) - p = m
  OBVIOUS
<1>6. /\ \A m \in 1 .. p : t[m] = g[m]
      /\ \A m \in 1 .. p + q : ~(m <= p) => t[m] = n + h[m - p]
      /\ \A m \in 1 .. q : t[p + m] = n + h[m]
  BY <1>4, <1>5
<1>7. t \in [1 .. p + q -> K]
  <2> SUFFICES ASSUME NEW m \in 1 .. p + q
               PROVE  (IF m <= p THEN g[m] ELSE n + h[m - p]) \in K
    OBVIOUS
  <2>1. CASE m \in 1 .. p
    BY <1>0, <1>1, <1>4, <2>1
  <2>2. CASE m - p \in 1 .. q /\ ~(m <= p)
    BY <1>0, <1>2, <2>2
  <2> QED BY <1>3, <2>1, <2>2
<1> HIDE DEF t
<1>8. ASSUME NEW i \in 1 .. p + q, NEW j \in 1 .. p + q, i < j PROVE t[i] < t[j]
  <2>1. CASE j \in 1 .. p
    <3>1. i \in 1 .. p
      BY <1>8, <2>1
    <3> QED BY <1>1, <1>6, <1>8, <2>1, <3>1
  <2>2. CASE j - p \in 1 .. q /\ ~(j <= p)
    <3>1. t[j] = n + h[j - p] /\ h[j - p] \in J
      BY <1>2, <1>6, <2>2
    <3>2. CASE i \in 1 .. p
      <4>1. t[i] \in I
        BY <1>1, <1>6, <3>2
      <4> QED BY <1>0, <3>1, <4>1
    <3>3. CASE i - p \in 1 .. q /\ ~(i <= p)
      <4>1. i - p < j - p
        BY <1>8
      <4>2. t[i] = n + h[i - p] /\ h[i - p] \in Nat /\ h[j - p] \in Nat /\ h[i - p] < h[j - p]
        BY <1>2, <1>6, <2>2, <3>3, <4>1
      <4> QED BY <3>1, <4>2
    <3> QED BY <1>3, <3>2, <3>3
  <2> QED BY <1>3, <2>1, <2>2
<1>9. ASSUME NEW a \in K PROVE \E m \in 1 .. p + q : a = t[m]
  <2>1. CASE a \in I
    <3>1. PICK m \in 1 .. p : a = g[m]
      BY <1>1, <2>1
    <3> QED BY <1>4, <1>6, <3>1
  <2>2. ASSUME NEW b \in J, a = n + b PROVE \E m \in 1 .. p + q : a = t[m]
    <3>1. PICK m \in 1 .. q : b = h[m]
      BY <1>2
    <3> QED BY <1>5, <1>6, <2>2, <3>1
  <2> QED BY <1>0, <2>1, <2>2
<1>10. Ascends(t, p + q, K)
  BY <1>7, <1>8, <1>9 DEF Ascends
<1> QED BY <1>6, <1>10 DEF Chained

\* The pieces of two texts with a c between them are those of the first and those of the second.
LEMMA SplitCut ==
    ASSUME NEW u \in Seq(Char), NEW c \in Char, NEW v \in Seq(Char),
           NEW x \in Seq(Seq(Char)), NEW y \in Seq(Seq(Char)), Splits(u, c, x), Splits(v, c, y)
    PROVE  Splits(Cut(u, c, v), c, x \o y)
<1> DEFINE w == Cut(u, c, v)
           n == Len(u) + 1
           p == Len(x)
           q == Len(y)
           I == Starts(u, c)
           J == Starts(v, c)
           K == Starts(w, c)
<1>1. PICK g : Ascends(g, p, I) /\ \A m \in 1 .. p : x[m] = Piece(u, c, g[m])
  BY DEF Splits
<1>2. PICK h : Ascends(h, q, J) /\ \A m \in 1 .. q : y[m] = Piece(v, c, h[m])
  BY DEF Splits
<1>3. n \in Nat /\ p \in Nat /\ q \in Nat
  OBVIOUS
<1>4. I \in SUBSET (0 .. Len(u)) /\ J \in SUBSET (0 .. Len(v)) /\ K \in SUBSET Nat
  BY DEF Starts
<1>5. /\ \A a \in 0 .. Len(u) : a \in K <=> a \in I
      /\ \A a \in 0 .. Len(v) : n + a \in K <=> a \in J
      /\ \A a \in K : a \in 0 .. Len(u) \/ \E b \in 0 .. Len(v) : a = n + b
  BY CutPlaces
<1>6. /\ \A a \in 0 .. Len(u) : Piece(w, c, a) = Piece(u, c, a)
      /\ \A a \in 0 .. Len(v) : Piece(w, c, n + a) = Piece(v, c, a)
  BY CutPieces
<1>7. \A a \in I, b \in J : a < n + b
  <2>1. \A a \in 0 .. Len(u), b \in 0 .. Len(v) : a < n + b
    OBVIOUS
  <2> QED BY <1>4, <2>1
<1>8. I \in SUBSET Nat /\ J \in SUBSET Nat
  BY <1>4
<1> HIDE DEF w, n, p, q, I, J, K
<1>9. Follows(K, I, n, J)
  BY <1>4, <1>5, <1>7 DEF Follows
<1>10. PICK t : Ascends(t, p + q, K) /\ Chained(t, g, p, n, h, q)
  BY <1>1, <1>2, <1>3, <1>4, <1>8, <1>9, AscendsJoin
<1> DEFINE z == x \o y
<1>11. Len(z) = p + q /\ (\A m \in 1 .. p : z[m] = x[m]) /\ \A m \in 1 .. q : z[p + m] = y[m]
  BY DEF p, q
<1> HIDE DEF z
<1>12. (\A m \in 1 .. p : g[m] \in 0 .. Len(u)) /\ \A m \in 1 .. q : h[m] \in 0 .. Len(v)
  BY <1>1, <1>2, <1>4 DEF Ascends
<1>13. ASSUME NEW m \in 1 .. p + q PROVE z[m] = Piece(w, c, t[m])
  <2>1. CASE m \in 1 .. p
    BY <1>1, <1>6, <1>10, <1>11, <1>12, <2>1 DEF Chained
  <2>2. CASE m \notin 1 .. p
    <3>1. m - p \in 1 .. q /\ p + (m - p) = m
      BY <1>3, <2>2
    <3>2. z[m] = y[m - p] /\ t[m] = n + h[m - p]
      BY <1>10, <1>11, <3>1 DEF Chained
    <3> QED BY <1>2, <1>6, <1>12, <3>1, <3>2
  <2> QED BY <2>1, <2>2
<1>14. Splits(w, c, z)
  BY <1>10, <1>11, <1>13 DEF Splits, K
<1> QED BY <1>14 DEF w, z

-----------------------------------------------------------------------------
(* Words *)

LEMMA UntilFacts ==
    ASSUME NEW s \in Seq(Char), NEW c
    PROVE  /\ Until(s, c) \in 0 .. Len(s) /\ \A i \in 1 .. Until(s, c) : s[i] # c
           /\ Until(s, c) < Len(s) => s[Until(s, c) + 1] = c
<1> DEFINE I == {i \in 1 .. Len(s) : s[i] = c}
           m == Min(I)
<1>1. Until(s, c) = LET i == IF I # {} THEN m ELSE 0 IN IF i = 0 THEN Len(s) ELSE i - 1
  BY DEF Until, SelectInSeq
<1>2. CASE I = {}
  BY <1>1, <1>2
<1>3. CASE I # {}
  <2>1. m \in I /\ \A y \in I : m <= y
    <3>1. I \in SUBSET Nat
      OBVIOUS
    <3> HIDE DEF I
    <3> QED BY <1>3, <3>1, MinFacts
  <2> HIDE DEF m
  <2>2. Until(s, c) = m - 1 /\ m \in 1 .. Len(s) /\ s[m] = c
    BY <1>1, <1>3, <2>1
  <2>3. \A i \in 1 .. m - 1 : s[i] # c
    BY <2>1, <2>2
  <2>4. m - 1 \in 0 .. Len(s) /\ (m - 1) + 1 = m
    BY <2>2
  <2> QED BY <2>2, <2>3, <2>4
<1> QED BY <1>2, <1>3

LEMMA UntilUnique ==
    ASSUME NEW s \in Seq(Char), NEW c, NEW k \in 0 .. Len(s), \A i \in 1 .. k : s[i] # c,
           k = Len(s) \/ s[k + 1] = c
    PROVE  Until(s, c) = k
<1> DEFINE d == Until(s, c)
<1>1. d \in 0 .. Len(s) /\ (\A i \in 1 .. d : s[i] # c) /\ (d < Len(s) => s[d + 1] = c)
  BY UntilFacts
<1> HIDE DEF d
<1>2. ~(d < k)
  <2> SUFFICES ASSUME d < k PROVE FALSE
    OBVIOUS
  <2>1. d + 1 \in 1 .. k /\ d < Len(s)
    BY <1>1
  <2> QED BY <1>1, <2>1
<1>3. ~(k < d)
  <2> SUFFICES ASSUME k < d PROVE FALSE
    OBVIOUS
  <2>1. k + 1 \in 1 .. d /\ k # Len(s)
    BY <1>1
  <2> QED BY <1>1, <2>1
<1>4. d = k
  BY <1>1, <1>2, <1>3
<1> QED BY <1>4 DEF d

\* No c is in s.
Lacks(s, c) == \A i \in 1 .. Len(s) : s[i] # c

\* split2 cuts at the first c.
LEMMA Split2Cut ==
    ASSUME NEW u \in Seq(Char), NEW c \in Char, NEW v \in Seq(Char), Lacks(u, c)
    PROVE  split2(Cut(u, c, v), c) = <<u, v>>
<1> DEFINE w == Cut(u, c, v)
           k == Len(u)
           j == k + 1
<1>0. IsCut(w, u, c, v)
  BY CutIsCut
<1> HIDE DEF w
<1>1. /\ w \in Seq(Char) /\ Len(w) = j + Len(v) /\ w[j] = c
      /\ (\A i \in 1 .. k : w[i] = u[i]) /\ \A i \in 1 .. Len(v) : w[j + i] = v[i]
  BY <1>0 DEF IsCut
<1>2. k \in 0 .. Len(w) /\ j \in 0 .. Len(w) /\ k # Len(w) /\ k \in Nat
  BY <1>1
<1>3. Until(w, c) = k
  <2>1. \A i \in 1 .. k : w[i] # c
    BY <1>1 DEF Lacks
  <2> HIDE DEF k
  <2> QED BY <1>1, <1>2, <2>1, UntilUnique
<1>4. SubSeq(w, 1, k) = u
  <2>1. /\ SubSeq(w, 1, k) \in Seq(Char) /\ Len(SubSeq(w, 1, k)) = k
        /\ \A i \in 1 .. k : SubSeq(w, 1, k)[i] = w[i]
    BY <1>1, <1>2
  <2> QED BY <1>1, <2>1, SeqEqual
<1>5. From(w, j) = v
  <2>1. /\ From(w, j) \in Seq(Char) /\ Len(From(w, j)) = Len(w) - j
        /\ \A i \in 1 .. Len(w) - j : From(w, j)[i] = w[j + i]
    BY <1>1, <1>2, FromFacts
  <2>2. Len(w) - j = Len(v)
    BY <1>1, <1>2
  <2> HIDE DEF j
  <2> QED BY <1>1, <2>1, <2>2, SeqEqual
<1>6. split2(w, c) = <<SubSeq(w, 1, k), From(w, j)>>
  BY <1>2, <1>3 DEF split2
<1> QED BY <1>4, <1>5, <1>6 DEF w

LEMMA Split2Whole ==
    ASSUME NEW s \in Seq(Char), NEW c, Lacks(s, c)
    PROVE  split2(s, c) = <<s>>
<1>1. Until(s, c) = Len(s)
  <2>1. Len(s) \in 0 .. Len(s)
    OBVIOUS
  <2> QED BY <2>1, UntilUnique DEF Lacks
<1> QED BY <1>1 DEF split2

\* A text has no c, or can be cut at its first c.
LEMMA CutOrWhole ==
    ASSUME NEW s \in Seq(Char), NEW c
    PROVE  Lacks(s, c) \/ \E u \in Seq(Char), v \in Seq(Char) :
                             Lacks(u, c) /\ s = Cut(u, c, v)
<1> DEFINE k == Until(s, c)
           j == k + 1
<1>1. k \in 0 .. Len(s) /\ (\A i \in 1 .. k : s[i] # c) /\ (k < Len(s) => s[j] = c)
  BY UntilFacts
<1> HIDE DEF k
<1>2. CASE k = Len(s)
  BY <1>1, <1>2 DEF Lacks
<1>3. CASE k # Len(s)
  <2> DEFINE u == SubSeq(s, 1, k)
             v == From(s, j)
             w == Cut(u, c, v)
  <2>1. j \in 0 .. Len(s) /\ k < Len(s) /\ j \in Nat /\ k \in Nat /\ j \in 1 .. Len(s)
    BY <1>1, <1>3
  <2>2. u \in Seq(Char) /\ Len(u) = k /\ \A i \in 1 .. k : u[i] = s[i]
    BY <1>1, <2>1
  <2>3. v \in Seq(Char) /\ Len(v) = Len(s) - j /\ \A i \in 1 .. Len(s) - j : v[i] = s[j + i]
    BY <2>1, FromFacts
  <2>4. c \in Char /\ s[j] = c
    BY <1>1, <2>1
  <2> HIDE DEF u, v
  <2>5. IsCut(w, u, c, v)
    <3>1. u \in Seq(Char) /\ v \in Seq(Char) /\ c \in Char
      BY <2>2, <2>3, <2>4
    <3> QED BY <3>1, CutIsCut
  <2> HIDE DEF w
  <2>6. w \in Seq(Char) /\ Len(w) = j + Len(v) /\ w[j] = c
        /\ (\A i \in 1 .. k : w[i] = u[i]) /\ \A i \in 1 .. Len(v) : w[j + i] = v[i]
    BY <2>2, <2>5 DEF IsCut
  <2>7. Len(w) = Len(s)
    BY <2>1, <2>3, <2>6
  <2>8. ASSUME NEW i \in 1 .. Len(w) PROVE w[i] = s[i]
    <3>1. CASE i <= k
      <4>1. i \in 1 .. k
        BY <3>1
      <4> QED BY <2>2, <2>6, <4>1
    <3>2. CASE i = j
      BY <2>4, <2>6, <3>2
    <3>3. CASE i > j
      <4>1. i - j \in 1 .. Len(v) /\ i - j \in 1 .. Len(s) - j /\ j + (i - j) = i
        BY <2>1, <2>3, <2>7, <3>3
      <4> HIDE DEF j
      <4> QED BY <2>3, <2>6, <4>1
    <3> QED BY <2>1, <3>1, <3>2, <3>3
  <2>9. w = s
    BY <2>6, <2>7, <2>8, SeqEqual
  <2>10. Lacks(u, c)
    BY <1>1, <2>2 DEF Lacks
  <2> QED BY <2>2, <2>3, <2>9, <2>10 DEF w
<1> QED BY <1>2, <1>3

-----------------------------------------------------------------------------
(* Trimming *)

\* Nothing can be trimmed from t.
Trimmed(t) == t = <<>> \/ (t[1] \notin Whitespace /\ t[Len(t)] \notin Whitespace)

\* t is what s has between its first a characters and its last ones, which are all white.
Trims(s, a, t) ==
    /\ Trimmed(t) /\ a + Len(t) <= Len(s)
    /\ \A i \in 1 .. Len(t) : t[i] = s[a + i]
    /\ \A i \in 1 .. Len(s) : i <= a \/ a + Len(t) < i => s[i] \in Whitespace

LEMMA TrimEndFacts ==
    ASSUME NEW s \in Seq(Char)
    PROVE  \E k \in 0 .. Len(s) :
              /\ trim_end(s) = SubSeq(s, 1, k)
              /\ k > 0 => s[k] \notin Whitespace
              /\ \A i \in k + 1 .. Len(s) : s[i] \in Whitespace
<1> DEFINE I == {i \in 1 .. Len(s) : s[i] \notin Whitespace}
           m == Max(I)
           k == IF I # {} THEN m ELSE 0
<1>1. trim_end(s) = SubSeq(s, 1, k)
  BY DEF trim_end, SelectLastInSeq
<1>2. CASE I = {}
  <2>1. k = 0 /\ \A i \in 0 + 1 .. Len(s) : s[i] \in Whitespace
    BY <1>2
  <2> HIDE DEF k
  <2> QED BY <1>1, <2>1
<1>3. CASE I # {}
  <2>1. I \in SUBSET (1 .. Len(s)) /\ Len(s) \in Nat
    OBVIOUS
  <2>2. m \in I /\ \A y \in I : m >= y
    <3> DEFINE n == Len(s)
    <3> HIDE DEF I, n
    <3> QED BY <1>3, <2>1, MaxIn DEF n
  <2>3. k = m
    BY <1>3
  <2> HIDE DEF m, k
  <2>4. k \in 1 .. Len(s) /\ s[k] \notin Whitespace
    BY <2>2, <2>3
  <2>5. ASSUME NEW i \in k + 1 .. Len(s) PROVE s[i] \in Whitespace
    <3>1. i \in 1 .. Len(s) /\ ~(k >= i)
      BY <2>4
    <3> QED BY <2>2, <2>3, <3>1
  <2> QED BY <1>1, <2>4, <2>5
<1> QED BY <1>2, <1>3

LEMMA ReverseFacts ==
    ASSUME NEW s \in Seq(Char)
    PROVE  /\ Reverse(s) \in Seq(Char) /\ Len(Reverse(s)) = Len(s)
           /\ \A i \in 1 .. Len(s) : Reverse(s)[i] = s[(Len(s) - i) + 1]
<1> DEFINE n == Len(s)
<1>1. \A i \in 1 .. n : s[(n - i) + 1] \in Char
  <2> SUFFICES ASSUME NEW i \in 1 .. n PROVE s[(n - i) + 1] \in Char
    OBVIOUS
  <2>1. (n - i) + 1 \in 1 .. n
    OBVIOUS
  <2> QED BY <2>1
<1>2. Reverse(s) = [i \in 1 .. n |-> s[(n - i) + 1]]
  BY DEF Reverse
<1>3. n \in Nat
  OBVIOUS
<1> HIDE DEF n
<1>4. Reverse(s) \in Seq(Char) /\ Len(Reverse(s)) = n
  BY <1>1, <1>2, <1>3
<1> QED BY <1>2, <1>4 DEF n

LEMMA TrimStartFacts ==
    ASSUME NEW s \in Seq(Char)
    PROVE  \E a \in 0 .. Len(s) :
              /\ trim_start(s) = From(s, a)
              /\ a < Len(s) => s[a + 1] \notin Whitespace
              /\ \A i \in 1 .. a : s[i] \in Whitespace
<1> DEFINE n == Len(s)
           r == Reverse(s)
           e == trim_end(r)
<1>1. r \in Seq(Char) /\ Len(r) = n /\ \A i \in 1 .. n : r[i] = s[(n - i) + 1]
  BY ReverseFacts
<1>2. n \in Nat
  OBVIOUS
<1> HIDE DEF r, n
<1>3. PICK k \in 0 .. n : /\ e = SubSeq(r, 1, k)
                          /\ k > 0 => r[k] \notin Whitespace
                          /\ \A i \in k + 1 .. n : r[i] \in Whitespace
  BY <1>1, TrimEndFacts
<1> HIDE DEF e
<1>4. e \in Seq(Char) /\ Len(e) = k /\ \A i \in 1 .. k : e[i] = r[i]
  BY <1>1, <1>3
<1>5. /\ Reverse(e) \in Seq(Char) /\ Len(Reverse(e)) = k
      /\ \A i \in 1 .. k : Reverse(e)[i] = e[(k - i) + 1]
  BY <1>4, ReverseFacts
<1> DEFINE a == n - k
<1>6. a \in 0 .. n /\ n - a = k
  BY <1>2, <1>3
<1>7. /\ From(s, a) \in Seq(Char) /\ Len(From(s, a)) = k
      /\ \A i \in 1 .. k : From(s, a)[i] = s[a + i]
  <2>1. a \in 0 .. Len(s) /\ Len(s) - a = k
    BY <1>6 DEF n
  <2> HIDE DEF a
  <2> QED BY <2>1, FromFacts
<1>8. ASSUME NEW i \in 1 .. k PROVE Reverse(e)[i] = s[a + i]
  <2> DEFINE j == (k - i) + 1
  <2>1. j \in 1 .. k /\ j \in 1 .. n /\ (n - j) + 1 = a + i
    BY <1>2, <1>3
  <2>2. Reverse(e)[i] = e[j]
    BY <1>5
  <2> HIDE DEF j, a
  <2> QED BY <1>1, <1>4, <2>1, <2>2
<1>9. trim_start(s) = From(s, a)
  <2>1. trim_start(s) = Reverse(e)
    BY DEF trim_start, e, r
  <2> HIDE DEF a
  <2> QED BY <1>5, <1>7, <1>8, <2>1, SeqEqual
<1>10. ASSUME a < n PROVE s[a + 1] \notin Whitespace
  <2>1. k > 0 /\ k \in 1 .. n /\ (n - k) + 1 = a + 1
    BY <1>2, <1>3, <1>10
  <2> QED BY <1>1, <1>3, <2>1
<1>11. ASSUME NEW i \in 1 .. a PROVE s[i] \in Whitespace
  <2> DEFINE j == (n - i) + 1
  <2>1. j \in k + 1 .. n /\ j \in 1 .. n /\ (n - j) + 1 = i
    BY <1>2, <1>3
  <2> HIDE DEF j, a
  <2> QED BY <1>1, <1>3, <2>1
<1> HIDE DEF a
<1> QED BY <1>6, <1>9, <1>10, <1>11 DEF n

LEMMA TrimFacts ==
    ASSUME NEW s \in Seq(Char)
    PROVE  trim(s) \in Seq(Char) /\ \E a \in Nat : Trims(s, a, trim(s))
<1> DEFINE e == trim_end(s)
           n == Len(s)
<1>1. PICK k \in 0 .. n : /\ e = SubSeq(s, 1, k)
                          /\ k > 0 => s[k] \notin Whitespace
                          /\ \A i \in k + 1 .. n : s[i] \in Whitespace
  BY TrimEndFacts
<1>2. e \in Seq(Char) /\ Len(e) = k /\ \A i \in 1 .. k : e[i] = s[i]
  BY <1>1
<1> HIDE DEF e
<1>3. PICK a \in 0 .. k : /\ trim_start(e) = From(e, a)
                          /\ a < k => e[a + 1] \notin Whitespace
                          /\ \A i \in 1 .. a : e[i] \in Whitespace
  BY <1>2, TrimStartFacts
<1> DEFINE t == From(e, a)
           m == Len(t)
<1>4. t \in Seq(Char) /\ Len(t) = k - a /\ \A i \in 1 .. k - a : t[i] = e[a + i]
  BY <1>2, <1>3, FromFacts
<1>5. n \in Nat /\ k \in Nat /\ a \in Nat /\ a <= k /\ k <= n
  BY <1>1, <1>3
<1> HIDE DEF t, n
<1>6. m \in Nat /\ a + m = k
  BY <1>4, <1>5
<1> HIDE DEF m
<1>7. \A i \in 1 .. m : t[i] = s[a + i]
  <2> SUFFICES ASSUME NEW i \in 1 .. m PROVE t[i] = s[a + i]
    OBVIOUS
  <2>1. a + i \in 1 .. k /\ i \in 1 .. k - a
    BY <1>5, <1>6
  <2> QED BY <1>2, <1>4, <2>1
<1>8. Trimmed(t)
  <2>1. CASE m = 0
    BY <1>4, <2>1 DEF Trimmed, m
  <2>2. CASE m # 0
    <3>1. 1 \in 1 .. m /\ m \in 1 .. m /\ a < k /\ k > 0 /\ a + 1 \in 1 .. k
      BY <1>5, <1>6, <2>2
    <3>2. t[1] = s[a + 1] /\ t[m] = s[k]
      BY <1>6, <1>7, <3>1
    <3>3. s[a + 1] \notin Whitespace /\ s[k] \notin Whitespace
      BY <1>1, <1>2, <1>3, <3>1
    <3> QED BY <3>2, <3>3 DEF Trimmed, m
  <2> QED BY <2>1, <2>2
<1>9. ASSUME NEW i \in 1 .. n, i <= a \/ a + m < i PROVE s[i] \in Whitespace
  <2>1. CASE i <= a
    <3>1. i \in 1 .. a /\ i \in 1 .. k
      BY <1>5, <2>1
    <3> QED BY <1>2, <1>3, <3>1
  <2>2. CASE k < i
    <3>1. i \in k + 1 .. n
      BY <1>5, <2>2
    <3> QED BY <1>1, <3>1
  <2> QED BY <1>6, <1>9, <2>1, <2>2
<1>10. trim(s) = t
  BY <1>3 DEF trim, e, t
<1>11. Trims(s, a, t)
  BY <1>5, <1>6, <1>7, <1>8, <1>9 DEF Trims, m, n
<1> QED BY <1>4, <1>5, <1>10, <1>11

\* Only one text is what trimming leaves.
LEMMA TrimsUnique ==
    ASSUME NEW s \in Seq(Char), NEW a \in Nat, NEW b \in Nat, NEW t \in Seq(Char), NEW r \in Seq(Char),
           Trims(s, a, t), Trims(s, b, r)
    PROVE  t = r
<1> DEFINE n == Len(s)
           p == Len(t)
           q == Len(r)
<1>1. n \in Nat /\ p \in Nat /\ q \in Nat
  OBVIOUS
<1>2. /\ p = 0 \/ (t[1] \notin Whitespace /\ t[p] \notin Whitespace)
      /\ a + p <= n /\ (\A i \in 1 .. p : t[i] = s[a + i])
      /\ \A i \in 1 .. n : i <= a \/ a + p < i => s[i] \in Whitespace
  BY DEF Trims, Trimmed
<1>3. /\ q = 0 \/ (r[1] \notin Whitespace /\ r[q] \notin Whitespace)
      /\ b + q <= n /\ (\A i \in 1 .. q : r[i] = s[b + i])
      /\ \A i \in 1 .. n : i <= b \/ b + q < i => s[i] \in Whitespace
  BY DEF Trims, Trimmed
<1> HIDE DEF n, p, q
<1>4. ASSUME p # 0
      PROVE  b <= a /\ a + p <= b + q /\ q # 0
  <2>1. a + 1 \in 1 .. n /\ a + p \in 1 .. n /\ 1 \in 1 .. p /\ p \in 1 .. p
    BY <1>1, <1>2, <1>4
  <2>2. s[a + 1] \notin Whitespace /\ s[a + p] \notin Whitespace
    BY <1>2, <1>4, <2>1
  <2>3. /\ ~(a + 1 <= b) /\ ~(b + q < a + 1)
        /\ ~(a + p <= b) /\ ~(b + q < a + p)
    BY <1>3, <2>1, <2>2
  <2> QED BY <1>1, <2>3
<1>5. ASSUME q # 0
      PROVE  a <= b /\ b + q <= a + p /\ p # 0
  <2>1. b + 1 \in 1 .. n /\ b + q \in 1 .. n /\ 1 \in 1 .. q /\ q \in 1 .. q
    BY <1>1, <1>3, <1>5
  <2>2. s[b + 1] \notin Whitespace /\ s[b + q] \notin Whitespace
    BY <1>3, <1>5, <2>1
  <2>3. /\ ~(b + 1 <= a) /\ ~(a + p < b + 1)
        /\ ~(b + q <= a) /\ ~(a + p < b + q)
    BY <1>2, <2>1, <2>2
  <2> QED BY <1>1, <2>3
<1>6. CASE p = 0
  <2>1. q = 0
    BY <1>5, <1>6
  <2> QED BY <1>6, <2>1 DEF p, q
<1>7. CASE p # 0
  <2>1. a = b /\ p = q
    BY <1>1, <1>4, <1>5, <1>7
  <2>2. \A i \in 1 .. p : t[i] = r[i]
    BY <1>2, <1>3, <2>1
  <2> QED BY <2>1, <2>2, SeqEqual DEF p, q
<1> QED BY <1>6, <1>7

\* What trimming leaves, when that can be said.
LEMMA TrimIs ==
    ASSUME NEW s \in Seq(Char), NEW a \in Nat, NEW t \in Seq(Char), Trims(s, a, t)
    PROVE  trim(s) = t
<1>1. PICK b \in Nat : Trims(s, b, trim(s))
  BY TrimFacts
<1> QED BY <1>1, TrimFacts, TrimsUnique

LEMMA TrimOfTrimmed ==
    ASSUME NEW t \in Seq(Char), Trimmed(t)
    PROVE  trim(t) = t /\ trim_start(t) = t
<1>1. Trims(t, 0, t)
  BY DEF Trims
<1>2. PICK a \in 0 .. Len(t) : /\ trim_start(t) = From(t, a)
                               /\ a < Len(t) => t[a + 1] \notin Whitespace
                               /\ \A i \in 1 .. a : t[i] \in Whitespace
  BY TrimStartFacts
<1>3. a = 0
  <2> SUFFICES ASSUME a # 0 PROVE FALSE
    OBVIOUS
  <2>1. 1 \in 1 .. a /\ t # <<>>
    OBVIOUS
  <2> QED BY <1>2, <2>1 DEF Trimmed
<1>4. From(t, 0) = t
  BY DEF From
<1> QED BY <1>1, <1>2, <1>3, <1>4, TrimIs

-----------------------------------------------------------------------------
(* Keeping some elements of a sequence *)

Sifted(s, G) == {i \in DOMAIN s : s[i] \in G}
Sift(s, G)    == Pick(s, Sifted(s, G))

LEMMA PickBy ==
    ASSUME NEW S, NEW s \in Seq(S), NEW I \in SUBSET (DOMAIN s), NEW n \in Nat, NEW g, Ascends(g, n, I)
    PROVE  Pick(s, I) \in Seq(S) /\ Len(Pick(s, I)) = n /\ \A m \in 1 .. n : Pick(s, I)[m] = s[g[m]]
<1>1. I \in SUBSET Nat
  OBVIOUS
<1>2. Cardinality(I) = n /\ \A m \in 1 .. n : Ordinal(I, m) = g[m]
  BY <1>1, AscendsFacts
<1>3. g \in [1 .. n -> I]
  BY DEF Ascends
<1>4. Pick(s, I) = [m \in 1 .. n |-> s[g[m]]]
  BY <1>2 DEF Pick
<1>5. \A m \in 1 .. n : s[g[m]] \in S
  BY <1>3
<1> QED BY <1>4, <1>5

\* What is kept is in G, in the order it had.
LEMMA SiftFacts ==
    ASSUME NEW S, NEW s \in Seq(S), NEW G
    PROVE  /\ Sift(s, G) \in Seq(S) /\ (\A m \in 1 .. Len(Sift(s, G)) : Sift(s, G)[m] \in G)
           /\ \E g : /\ Ascends(g, Len(Sift(s, G)), Sifted(s, G))
                     /\ \A m \in 1 .. Len(Sift(s, G)) : Sift(s, G)[m] = s[g[m]]
<1> DEFINE I == Sifted(s, G)
           N == Cardinality(I)
           g == [m \in 1 .. N |-> Ordinal(I, m)]
<1>1. I \in SUBSET (1 .. Len(s)) /\ Len(s) \in Nat /\ I \in SUBSET (DOMAIN s)
  BY DEF Sifted
<1>2. N \in Nat /\ Ascends(g, N, I)
  <2> HIDE DEF I
  <2> QED BY <1>1, OrdinalsAscend
<1> HIDE DEF g, N
<1>3. Sift(s, G) \in Seq(S) /\ Len(Sift(s, G)) = N /\ \A m \in 1 .. N : Sift(s, G)[m] = s[g[m]]
  <2> HIDE DEF I
  <2> QED BY <1>1, <1>2, PickBy DEF Sift, I
<1>4. \A m \in 1 .. N : g[m] \in I
  BY <1>2 DEF Ascends
<1>5. \A m \in 1 .. N : Sift(s, G)[m] \in G
  BY <1>3, <1>4 DEF Sifted
<1> QED BY <1>2, <1>3, <1>5

LEMMA SiftCat ==
    ASSUME NEW S, NEW x \in Seq(S), NEW y \in Seq(S), NEW G
    PROVE  Sift(x \o y, G) = Sift(x, G) \o Sift(y, G)
<1> DEFINE I == Sifted(x, G)
           J == Sifted(y, G)
           z == x \o y
           K == Sifted(z, G)
           a == Sift(x, G)
           b == Sift(y, G)
           n == Len(x)
           p == Len(a)
           q == Len(b)
<1>1. a \in Seq(S) /\ b \in Seq(S) /\ p \in Nat /\ q \in Nat /\ n \in Nat
  BY SiftFacts
<1>2. PICK g : Ascends(g, p, I) /\ \A m \in 1 .. p : a[m] = x[g[m]]
  BY SiftFacts
<1>3. PICK h : Ascends(h, q, J) /\ \A m \in 1 .. q : b[m] = y[h[m]]
  BY SiftFacts
<1>4. z \in Seq(S) /\ Len(z) = n + Len(y) /\ (\A i \in 1 .. n : z[i] = x[i])
      /\ \A i \in 1 .. Len(y) : z[n + i] = y[i]
  OBVIOUS
<1>5. I \in SUBSET (1 .. n) /\ J \in SUBSET (1 .. Len(y)) /\ Len(y) \in Nat
  BY DEF Sifted
<1> HIDE DEF z, a, b, p, q
<1>6. DOMAIN z = 1 .. n + Len(y)
  BY <1>4
<1>7. Follows(K, I, n, J)
  <2>1. \A i \in I, j \in J : i < n + j
    BY <1>1, <1>5
  <2>2. \A i \in I : i \in K
    <3>1. \A i \in 1 .. n : i \in 1 .. n + Len(y)
      BY <1>5
    <3> HIDE DEF n
    <3> QED BY <1>4, <1>5, <1>6, <3>1 DEF Sifted
  <2>3. \A j \in J : n + j \in K
    <3>1. \A j \in 1 .. Len(y) : n + j \in 1 .. n + Len(y)
      BY <1>5
    <3> HIDE DEF n
    <3> QED BY <1>4, <1>5, <1>6, <3>1 DEF Sifted
  <2>4. \A i \in K : i \in I \/ \E j \in J : i = n + j
    <3> SUFFICES ASSUME NEW i \in K PROVE i \in I \/ \E j \in J : i = n + j
      OBVIOUS
    <3>1. i \in 1 .. n + Len(y) /\ z[i] \in G
      BY <1>6 DEF Sifted
    <3>2. CASE i <= n
      <4>1. i \in 1 .. n
        BY <1>1, <3>1, <3>2
      <4> QED BY <1>4, <3>1, <4>1 DEF Sifted
    <3>3. CASE ~(i <= n)
      <4>1. i - n \in 1 .. Len(y) /\ n + (i - n) = i
        BY <1>1, <1>5, <3>1, <3>3
      <4> HIDE DEF n
      <4>2. z[i] = y[i - n]
        BY <1>4, <4>1
      <4>3. i - n \in J
        BY <3>1, <4>1, <4>2 DEF Sifted
      <4> QED BY <4>1, <4>3
    <3> QED BY <3>2, <3>3
  <2> HIDE DEF I, J, K, n
  <2> QED BY <2>1, <2>2, <2>3, <2>4 DEF Follows
<1>8. I \in SUBSET Nat /\ J \in SUBSET Nat /\ K \in SUBSET Nat /\ K \in SUBSET (DOMAIN z)
  <2>1. K \in SUBSET (DOMAIN z)
    BY DEF Sifted
  <2> QED BY <1>5, <1>6, <2>1
<1> HIDE DEF I, J, K, n
<1>9. PICK t : Ascends(t, p + q, K) /\ Chained(t, g, p, n, h, q)
  BY <1>1, <1>2, <1>3, <1>7, <1>8, AscendsJoin
<1> DEFINE r == Pick(z, K)
<1>10. r \in Seq(S) /\ Len(r) = p + q /\ \A m \in 1 .. p + q : r[m] = z[t[m]]
  <2>1. p + q \in Nat
    BY <1>1
  <2>2. z \in Seq(S) /\ K \in SUBSET (DOMAIN z) /\ Ascends(t, p + q, K)
    BY <1>4, <1>8, <1>9
  <2> DEFINE N == p + q
  <2> HIDE DEF N
  <2> QED BY <2>1, <2>2, PickBy DEF N
<1> HIDE DEF r
<1> DEFINE c == a \o b
<1>11. c \in Seq(S) /\ Len(c) = p + q /\ (\A m \in 1 .. p : c[m] = a[m]) /\ \A m \in 1 .. q : c[p + m] = b[m]
  BY <1>1 DEF p, q
<1> HIDE DEF c
<1>12. (\A m \in 1 .. p : g[m] \in I) /\ \A m \in 1 .. q : h[m] \in J
  BY <1>2, <1>3 DEF Ascends
<1>13. ASSUME NEW m \in 1 .. p + q PROVE r[m] = c[m]
  <2>1. CASE m \in 1 .. p
    <3>1. t[m] = g[m] /\ g[m] \in 1 .. n
      BY <1>5, <1>9, <1>12, <2>1 DEF Chained
    <3> QED BY <1>2, <1>4, <1>10, <1>11, <2>1, <3>1
  <2>2. CASE m \notin 1 .. p
    <3>1. m - p \in 1 .. q /\ p + (m - p) = m
      BY <1>1, <2>2
    <3>2. t[m] = n + h[m - p] /\ h[m - p] \in 1 .. Len(y)
      BY <1>5, <1>9, <1>12, <3>1 DEF Chained
    <3>3. c[m] = b[m - p] /\ z[n + h[m - p]] = y[h[m - p]]
      BY <1>4, <1>11, <3>1, <3>2
    <3> QED BY <1>3, <1>10, <3>1, <3>2, <3>3
  <2> QED BY <2>1, <2>2
<1>14. r = c
  BY <1>10, <1>11, <1>13, SeqEqual
<1> QED BY <1>14 DEF r, c, a, b, z, K, Sift

LEMMA SiftNone ==
    ASSUME NEW S, NEW s \in Seq(S), NEW G, \A i \in 1 .. Len(s) : s[i] \notin G
    PROVE  Sift(s, G) = <<>>
<1>1. Sifted(s, G) = {}
  BY DEF Sifted
<1>2. Sift(s, G) \in Seq(S) /\ Len(Sift(s, G)) = Cardinality({})
  <2>1. {} \in SUBSET (DOMAIN s)
    OBVIOUS
  <2> QED BY <1>1, <2>1, PickFacts DEF Sift
<1> QED BY <1>2, FS_EmptySet

LEMMA SiftAll ==
    ASSUME NEW S, NEW s \in Seq(S), NEW G, \A i \in 1 .. Len(s) : s[i] \in G
    PROVE  Sift(s, G) = s
<1> DEFINE n == Len(s)
           g == [i \in 1 .. n |-> i]
           I == Sifted(s, G)
<1>1. I = 1 .. n /\ I \in SUBSET (DOMAIN s) /\ n \in Nat
  BY DEF Sifted
<1>2. Ascends(g, n, 1 .. n)
  BY DEF Ascends
<1> HIDE DEF I
<1>3. Pick(s, I) \in Seq(S) /\ Len(Pick(s, I)) = n /\ \A m \in 1 .. n : Pick(s, I)[m] = s[g[m]]
  <2> HIDE DEF g, n
  <2> QED BY <1>1, <1>2, PickBy
<1>4. \A m \in 1 .. n : Pick(s, I)[m] = s[m]
  BY <1>3
<1>5. Pick(s, I) = s
  <2> HIDE DEF g
  <2> QED BY <1>3, <1>4, SeqEqual
<1> QED BY <1>5 DEF Sift, I

-----------------------------------------------------------------------------
(* The words of a line *)

NonEmpty == Seq(Char) \ {<<>>}

LEMMA NonEmptyIsSift ==
    ASSUME NEW words \in Seq(Seq(Char))
    PROVE  non_empty(words) = Sift(words, NonEmpty)
<1>1. {i \in DOMAIN words : words[i] # <<>>} = Sifted(words, NonEmpty)
  BY DEF Sifted, NonEmpty
<1> QED BY <1>1 DEF non_empty, Sift

LEMMA NonEmptyOne ==
    ASSUME NEW a \in Seq(Char)
    PROVE  non_empty(<<a>>) = IF a = <<>> THEN <<>> ELSE <<a>>
<1> DEFINE s == <<a>>
<1>1. s \in Seq(Seq(Char)) /\ Len(s) = 1 /\ \A i \in 1 .. 1 : s[i] = a
  OBVIOUS
<1>2. non_empty(s) = Sift(s, NonEmpty)
  BY <1>1, NonEmptyIsSift
<1>3. CASE a = <<>>
  <2>1. \A i \in 1 .. Len(s) : s[i] \notin NonEmpty
    BY <1>1, <1>3 DEF NonEmpty
  <2> HIDE DEF s
  <2>2. Sift(s, NonEmpty) = <<>>
    BY <1>1, <2>1, SiftNone
  <2> QED BY <1>2, <1>3, <2>2 DEF s
<1>4. CASE a # <<>>
  <2>1. \A i \in 1 .. Len(s) : s[i] \in NonEmpty
    BY <1>1, <1>4 DEF NonEmpty
  <2> HIDE DEF s
  <2>2. Sift(s, NonEmpty) = s
    BY <1>1, <2>1, SiftAll
  <2> QED BY <1>2, <1>4, <2>2 DEF s
<1> QED BY <1>3, <1>4

LEMMA NonEmptyCat ==
    ASSUME NEW x \in Seq(Seq(Char)), NEW y \in Seq(Seq(Char))
    PROVE  non_empty(x \o y) = non_empty(x) \o non_empty(y)
<1>1. x \o y \in Seq(Seq(Char))
  OBVIOUS
<1>2. Sift(x \o y, NonEmpty) = Sift(x, NonEmpty) \o Sift(y, NonEmpty)
  BY SiftCat
<1>3. /\ non_empty(x \o y) = Sift(x \o y, NonEmpty)
      /\ non_empty(x) = Sift(x, NonEmpty) /\ non_empty(y) = Sift(y, NonEmpty)
  BY <1>1, NonEmptyIsSift
<1> QED BY <1>2, <1>3

LEMMA PairIsCat ==
    ASSUME NEW S, NEW a \in S, NEW b \in S
    PROVE  <<a>> \o <<b>> = <<a, b>>
<1> DEFINE x == <<a>>
           y == <<b>>
           w == <<a, b>>
           z == x \o y
<1>1. x \in Seq(S) /\ Len(x) = 1 /\ x[1] = a
  OBVIOUS
<1>2. y \in Seq(S) /\ Len(y) = 1 /\ y[1] = b
  OBVIOUS
<1>3. w \in Seq(S) /\ Len(w) = 2 /\ w[1] = a /\ w[2] = b
  OBVIOUS
<1> HIDE DEF x, y, w
<1>4. /\ z \in Seq(S) /\ Len(z) = Len(x) + Len(y)
      /\ \A i \in 1 .. Len(x) + Len(y) : z[i] = IF i <= Len(x) THEN x[i] ELSE y[i - Len(x)]
  BY <1>1, <1>2, ConcatProperties
<1>5. Len(z) = 2 /\ z[1] = x[1] /\ z[2] = y[1]
  <2> HIDE DEF z
  <2> QED BY <1>1, <1>2, <1>4
<1>6. \A i \in 1 .. 2 : z[i] = w[i]
  <2>1. \A i \in 1 .. 2 : i = 1 \/ i = 2
    OBVIOUS
  <2> HIDE DEF z
  <2> QED BY <1>1, <1>2, <1>3, <1>5, <2>1
<1>7. z = w
  <2> HIDE DEF z
  <2> QED BY <1>3, <1>4, <1>5, <1>6, SeqEqual
<1> QED BY <1>7 DEF x, y, w

LEMMA NonEmptyTwo ==
    ASSUME NEW a \in Seq(Char), NEW b \in Seq(Char), a # <<>>
    PROVE  non_empty(<<a, b>>) = IF b = <<>> THEN <<a>> ELSE <<a, b>>
<1> DEFINE x == <<a>>
           y == <<b>>
<1>1. x \in Seq(Seq(Char)) /\ y \in Seq(Seq(Char)) /\ x \o y = <<a, b>>
  BY PairIsCat
<1>2. non_empty(x) = x /\ non_empty(y) = IF b = <<>> THEN <<>> ELSE y
  BY NonEmptyOne
<1>3. non_empty(x \o y) = non_empty(x) \o non_empty(y)
  <2> HIDE DEF x, y
  <2> QED BY <1>1, NonEmptyCat
<1>4. CASE b = <<>>
  <2>1. non_empty(x) \o non_empty(y) = x
    <3> x \o <<>> = x
      OBVIOUS
    <3> QED BY <1>2, <1>4
  <2> QED BY <1>1, <1>3, <1>4, <2>1
<1>5. CASE b # <<>>
  <2>1. non_empty(x) \o non_empty(y) = x \o y
    BY <1>2, <1>5
  <2> QED BY <1>1, <1>3, <1>5, <2>1
<1> QED BY <1>4, <1>5

LEMMA SpaceIsChar == Space \in Char
BY DEF Char

\* parse_word of a text that is one word.
LEMMA WordWhole ==
    ASSUME NEW s \in Seq(Char), Lacks(s, Space)
    PROVE  parse_word(s) = [word |-> trim(s), rest |-> <<>>]
<1> DEFINE halves == split2(s, Space)
           t == trim(s)
           words == non_empty([i \in DOMAIN halves |-> trim(halves[i])])
<1>1. halves = <<s>> /\ t \in Seq(Char)
  BY Split2Whole, TrimFacts
<1> HIDE DEF halves
<1>2. [i \in DOMAIN halves |-> trim(halves[i])] = <<t>>
  <2>1. DOMAIN halves = {1} /\ halves[1] = s
    BY <1>1
  <2>2. \A i \in {1} : trim(halves[i]) = t
    BY <2>1
  <2> HIDE DEF t
  <2> QED BY <2>1, <2>2
<1> HIDE DEF t
<1>3. words = IF t = <<>> THEN <<>> ELSE <<t>>
  BY <1>1, <1>2, NonEmptyOne
<1>4. parse_word(s) = [word |-> IF Len(words) < 1 THEN <<>> ELSE words[1],
                       rest |-> IF Len(words) < 2 THEN <<>> ELSE words[2]]
  BY DEF parse_word, halves
<1> HIDE DEF words
<1>5. CASE t = <<>>
  BY <1>3, <1>4, <1>5 DEF t
<1>6. CASE t # <<>>
  <2>1. Len(words) = 1 /\ words[1] = t
    BY <1>3, <1>6
  <2> QED BY <1>4, <2>1 DEF t
<1> QED BY <1>5, <1>6

\* parse_word of a text that goes on after its first space.
LEMMA WordCut ==
    ASSUME NEW u \in Seq(Char), NEW v \in Seq(Char), Lacks(u, Space), trim(u) # <<>>
    PROVE  parse_word(Cut(u, Space, v)) = [word |-> trim(u), rest |-> trim(v)]
<1> DEFINE s == Cut(u, Space, v)
           halves == split2(s, Space)
           a == trim(u)
           b == trim(v)
           words == non_empty([i \in DOMAIN halves |-> trim(halves[i])])
<1>1. halves = <<u, v>> /\ a \in Seq(Char) /\ b \in Seq(Char) /\ a # <<>>
  BY SpaceIsChar, Split2Cut, TrimFacts
<1> HIDE DEF halves
<1>2. [i \in DOMAIN halves |-> trim(halves[i])] = <<a, b>>
  <2>1. DOMAIN halves = 1 .. 2 /\ halves[1] = u /\ halves[2] = v
    BY <1>1
  <2>2. [i \in 1 .. 2 |-> trim(halves[i])] = <<trim(halves[1]), trim(halves[2])>>
    OBVIOUS
  <2> HIDE DEF a, b
  <2> QED BY <2>1, <2>2 DEF a, b
<1> HIDE DEF a, b
<1>3. words = IF b = <<>> THEN <<a>> ELSE <<a, b>>
  BY <1>1, <1>2, NonEmptyTwo
<1>4. parse_word(s) = [word |-> IF Len(words) < 1 THEN <<>> ELSE words[1],
                       rest |-> IF Len(words) < 2 THEN <<>> ELSE words[2]]
  BY DEF parse_word, halves
<1> HIDE DEF words, s
<1>5. CASE b = <<>>
  <2>1. Len(words) = 1 /\ words[1] = a
    BY <1>3, <1>5
  <2> QED BY <1>4, <1>5, <2>1 DEF a, b, s
<1>6. CASE b # <<>>
  <2>1. Len(words) = 2 /\ words[1] = a /\ words[2] = b
    BY <1>3, <1>6
  <2> QED BY <1>4, <2>1 DEF a, b, s
<1> QED BY <1>5, <1>6

-----------------------------------------------------------------------------
(* Values of tags *)

LEMMA EscapedIsTyped == ASSUME NEW c \in Char PROVE escaped(c) \in Seq(Char)
<1>1. <<"\\", ":">> \in Seq(Char) /\ <<"\\", "s">> \in Seq(Char) /\ <<"\\", "r">> \in Seq(Char)
      /\ <<"\\", "n">> \in Seq(Char) /\ <<"\\", "\\">> \in Seq(Char) /\ <<c>> \in Seq(Char)
  <2>1. "\\" \in Char /\ ":" \in Char /\ "s" \in Char /\ "r" \in Char /\ "n" \in Char
    BY DEF Char
  <2> QED BY <2>1
<1> QED BY <1>1 DEF escaped

Chars == Seq(Char)

\* A value that is written, after each of its characters.
LEMMA WriteFold ==
    ASSUME NEW s \in Seq(Char)
    PROVE  \E h \in [0 .. Len(s) -> Chars] :
              /\ h[0] = <<>>
              /\ \A i \in 1 .. Len(s) : h[i] = h[i - 1] \o escaped(s[i])
              /\ write_escaped(s) = h[Len(s)]
<1> DEFINE Next(q, c) == q \o escaped(c)
           base == <<>>
           n == Len(s)
           F(g) == [T \in SUBSET (1 .. n) |->
                      IF T = {} THEN base ELSE Next(g[T \ {Max(T)}], s[Max(T)])]
           g0 == CHOOSE g : g = F(g)
           st == [i \in 1 .. n |-> [q \in Chars |-> Next(q, s[i])]]
<1>1. write_escaped(s) = g0[1 .. n]
  <2>1. DOMAIN (s) = 1 .. n
    OBVIOUS
  <2> QED BY <2>1, Zenon DEF write_escaped, FoldLeft, MapThenFoldSet
<1>2. base \in Chars
  BY DEF Chars
<1>3. ASSUME NEW q \in Chars, NEW c \in Char PROVE Next(q, c) \in Chars
  <2>1. escaped(c) \in Seq(Char)
    BY EscapedIsTyped
  <2> QED BY <2>1 DEF Chars
<1>4. st \in [1 .. n -> [Chars -> Chars]] /\ n \in Nat
  <2>1. \A i \in 1 .. n : s[i] \in Char
    OBVIOUS
  <2> HIDE DEF Next
  <2> QED BY <1>3, <2>1
<1>5. \A i \in 1 .. n, q \in Chars : st[i][q] = Next(q, s[i])
  OBVIOUS
<1> HIDE DEF Next, base, st, n
<1>6. Steps(n, Chars, base, st)
  BY <1>2, <1>4 DEF Steps
<1>7. \E g : g = F(g)
  <2>1. PICK g : IsFold(g, n, Chars, base, st)
    BY <1>6, FoldExists
  <2>2. /\ g \in [SUBSET (1 .. n) -> Chars]
        /\ \A T \in SUBSET (1 .. n) : g[T] = IF T = {} THEN base ELSE st[Max(T)][g[T \ {Max(T)}]]
    BY <2>1 DEF IsFold
  <2>3. ASSUME NEW T \in SUBSET (1 .. n), T # {} PROVE g[T] = Next(g[T \ {Max(T)}], s[Max(T)])
    <3>1. Max(T) \in 1 .. n /\ g[T \ {Max(T)}] \in Chars
      BY <1>4, <2>2, <2>3, MaxIn
    <3> QED BY <1>5, <2>2, <2>3, <3>1
  <2> QED BY <2>2, <2>3
<1>8. g0 = F(g0)
  BY <1>7
<1> HIDE DEF g0
<1>9. g0[{}] = base
  <2> {} \in SUBSET (1 .. n)
    OBVIOUS
  <2> QED BY <1>8
<1>10. ASSUME NEW T \in SUBSET (1 .. n), T # {}, g0[T \ {Max(T)}] \in Chars
       PROVE  g0[T] = st[Max(T)][g0[T \ {Max(T)}]]
  <2>1. Max(T) \in 1 .. n
    BY <1>4, <1>10, MaxIn
  <2> QED BY <1>5, <1>8, <1>10, <2>1
<1>11. FollowsSteps(g0, n, Chars, base, st)
  BY <1>9, <1>10 DEF FollowsSteps
<1>12. PICK h : FoldValues(h, n, Chars, base, st) /\ h[n] = g0[1 .. n]
  BY <1>6, <1>11, FoldRun
<1>13. h \in [0 .. n -> Chars] /\ h[0] = base /\ \A i \in 1 .. n : h[i] = st[i][h[i - 1]]
  BY <1>12 DEF FoldValues
<1>14. \A i \in 1 .. n : h[i] = Next(h[i - 1], s[i])
  <2> \A i \in 1 .. n : h[i - 1] \in Chars
    BY <1>4, <1>13
  <2> QED BY <1>5, <1>13
<1> QED BY <1>1, <1>12, <1>13, <1>14 DEF Next, base, n

\* A value that is read: what was read, and whether the last character was a backslash that
\* escapes the next one.
Unescaped == [res : Seq(Char), escape : BOOLEAN]

LEMMA TagEscapeIsTyped == ASSUME NEW c \in Char PROVE tag_escape(c) \in Char
BY DEF tag_escape, Char

\* A value that is read, after each of its characters.
LEMMA ReadFold ==
    ASSUME NEW s \in Seq(Char)
    PROVE  \E h \in [0 .. Len(s) -> Unescaped] :
              /\ h[0] = [res |-> <<>>, escape |-> FALSE]
              /\ \A i \in 1 .. Len(s) : h[i] = IF s[i] = "\\" /\ ~h[i - 1].escape THEN [h[i - 1] EXCEPT !.escape = TRUE]
                       ELSE [res |-> Append(h[i - 1].res, IF h[i - 1].escape THEN tag_escape(s[i]) ELSE s[i]),
                             escape |-> FALSE]
              /\ unescape_value(s) = h[Len(s)].res
<1> DEFINE Next(q, c) == IF c = "\\" /\ ~q.escape THEN [q EXCEPT !.escape = TRUE]
                         ELSE [res |-> Append(q.res, IF q.escape THEN tag_escape(c) ELSE c),
                               escape |-> FALSE]
           base == [res |-> <<>>, escape |-> FALSE]
           n == Len(s)
           F(g) == [T \in SUBSET (1 .. n) |->
                      IF T = {} THEN base ELSE Next(g[T \ {Max(T)}], s[Max(T)])]
           g0 == CHOOSE g : g = F(g)
           st == [i \in 1 .. n |-> [q \in Unescaped |-> Next(q, s[i])]]
<1>1. unescape_value(s) = g0[1 .. n].res
  <2>1. DOMAIN (s) = 1 .. n
    OBVIOUS
  <2> QED BY <2>1, Zenon DEF unescape_value, FoldLeft, MapThenFoldSet
<1>2. base \in Unescaped
  BY DEF Unescaped
<1>3. ASSUME NEW q \in Unescaped, NEW c \in Char PROVE Next(q, c) \in Unescaped
  <2>1. (IF q.escape THEN tag_escape(c) ELSE c) \in Char
    BY TagEscapeIsTyped
  <2>2. Append(q.res, IF q.escape THEN tag_escape(c) ELSE c) \in Seq(Char)
    BY <2>1 DEF Unescaped
  <2>3. [q EXCEPT !.escape = TRUE] \in Unescaped
    BY DEF Unescaped
  <2> QED BY <2>2, <2>3 DEF Unescaped
<1>4. st \in [1 .. n -> [Unescaped -> Unescaped]] /\ n \in Nat
  <2>1. \A i \in 1 .. n : s[i] \in Char
    OBVIOUS
  <2> HIDE DEF Next
  <2> QED BY <1>3, <2>1
<1>5. \A i \in 1 .. n, q \in Unescaped : st[i][q] = Next(q, s[i])
  OBVIOUS
<1> HIDE DEF Next, base, st, n
<1>6. Steps(n, Unescaped, base, st)
  BY <1>2, <1>4 DEF Steps
<1>7. \E g : g = F(g)
  <2>1. PICK g : IsFold(g, n, Unescaped, base, st)
    BY <1>6, FoldExists
  <2>2. /\ g \in [SUBSET (1 .. n) -> Unescaped]
        /\ \A T \in SUBSET (1 .. n) : g[T] = IF T = {} THEN base ELSE st[Max(T)][g[T \ {Max(T)}]]
    BY <2>1 DEF IsFold
  <2>3. ASSUME NEW T \in SUBSET (1 .. n), T # {} PROVE g[T] = Next(g[T \ {Max(T)}], s[Max(T)])
    <3>1. Max(T) \in 1 .. n /\ g[T \ {Max(T)}] \in Unescaped
      BY <1>4, <2>2, <2>3, MaxIn
    <3> QED BY <1>5, <2>2, <2>3, <3>1
  <2> QED BY <2>2, <2>3
<1>8. g0 = F(g0)
  BY <1>7
<1> HIDE DEF g0
<1>9. g0[{}] = base
  <2> {} \in SUBSET (1 .. n)
    OBVIOUS
  <2> QED BY <1>8
<1>10. ASSUME NEW T \in SUBSET (1 .. n), T # {}, g0[T \ {Max(T)}] \in Unescaped
       PROVE  g0[T] = st[Max(T)][g0[T \ {Max(T)}]]
  <2>1. Max(T) \in 1 .. n
    BY <1>4, <1>10, MaxIn
  <2> QED BY <1>5, <1>8, <1>10, <2>1
<1>11. FollowsSteps(g0, n, Unescaped, base, st)
  BY <1>9, <1>10 DEF FollowsSteps
<1>12. PICK h : FoldValues(h, n, Unescaped, base, st) /\ h[n] = g0[1 .. n]
  BY <1>6, <1>11, FoldRun
<1>13. h \in [0 .. n -> Unescaped] /\ h[0] = base /\ \A i \in 1 .. n : h[i] = st[i][h[i - 1]]
  BY <1>12 DEF FoldValues
<1>14. \A i \in 1 .. n : h[i] = Next(h[i - 1], s[i])
  <2> \A i \in 1 .. n : h[i - 1] \in Unescaped
    BY <1>4, <1>13
  <2> QED BY <1>5, <1>13
<1> QED BY <1>1, <1>12, <1>13, <1>14 DEF Next, base, n

LEMMA SpecialChars ==
    /\ \A d \in {":", "s", "r", "n", "\\", "=", "k", "t", "@"} : d # Semicolon /\ d \notin Whitespace
    /\ Semicolon \notin Whitespace /\ Space # "CR" /\ Space # "LF" /\ Semicolon # Space
    /\ Semicolon # "CR" /\ Semicolon # "LF"
<1>1. ":" # Semicolon /\ "s" # Semicolon /\ "r" # Semicolon /\ "n" # Semicolon /\ "\\" # Semicolon
      /\ "=" # Semicolon /\ "k" # Semicolon /\ "t" # Semicolon /\ "@" # Semicolon
  BY Zenon DEF Semicolon
<1>2. ":" # Space /\ "s" # Space /\ "r" # Space /\ "n" # Space /\ "\\" # Space /\ "=" # Space
      /\ "k" # Space /\ "t" # Space /\ "@" # Space
  BY Zenon DEF Space
<1>3. Space # "CR" /\ Space # "LF"
  BY Zenon DEF Space
<1>4. Semicolon # Space /\ Semicolon # "CR" /\ Semicolon # "LF"
  BY Zenon DEF Semicolon, Space
<1>5. Semicolon \notin Whitespace
  BY <1>4 DEF Whitespace
<1>6. \A d \in {":", "s", "r", "n", "\\", "=", "k", "t", "@"} : d \notin {"CR", "LF"}
  OBVIOUS
<1>7. \A d \in {":", "s", "r", "n", "\\", "=", "k", "t", "@"} : d \notin Whitespace
  BY <1>2, <1>6 DEF Whitespace
<1> QED BY <1>1, <1>3, <1>4, <1>5, <1>7

\* A character is written as it is, or as a backslash and what is read as the character.
LEMMA EscapedCases ==
    ASSUME NEW c \in Char
    PROVE  \/ escaped(c) = <<c>> /\ c # "\\" /\ c # Semicolon /\ c \notin Whitespace
           \/ \E d \in {":", "s", "r", "n", "\\"} : escaped(c) = <<"\\", d>> /\ tag_escape(d) = c
<1>1. CASE c = Semicolon
  BY <1>1, SpecialChars DEF escaped, tag_escape
<1>2. CASE c = Space
  BY <1>2, SpecialChars DEF escaped, tag_escape
<1>3. CASE c = "CR"
  BY <1>3, SpecialChars DEF escaped, tag_escape
<1>4. CASE c = "LF"
  BY <1>4, SpecialChars DEF escaped, tag_escape
<1>5. CASE c = "\\"
  BY <1>5, SpecialChars DEF escaped, tag_escape
<1>6. CASE c \notin {Semicolon, Space, "CR", "LF", "\\"}
  BY <1>6 DEF escaped, Whitespace
<1> QED BY <1>1, <1>2, <1>3, <1>4, <1>5, <1>6

\* Nothing in s separates tags or words.
Clean(s) == \A i \in 1 .. Len(s) : s[i] # Semicolon /\ s[i] \notin Whitespace

LEMMA EscapedIsClean == ASSUME NEW c \in Char PROVE Clean(escaped(c))
<1>1. CASE escaped(c) = <<c>> /\ c # Semicolon /\ c \notin Whitespace
  BY <1>1 DEF Clean
<1>2. ASSUME NEW d \in {":", "s", "r", "n", "\\"}, escaped(c) = <<"\\", d>> PROVE Clean(escaped(c))
  <2> DEFINE w == <<"\\", d>>
  <2>1. Len(w) = 2 /\ w[1] = "\\" /\ w[2] = d
    OBVIOUS
  <2> HIDE DEF w
  <2>2. \A i \in 1 .. 2 : i = 1 \/ i = 2
    OBVIOUS
  <2>3. \A x \in {"\\", d} : x # Semicolon /\ x \notin Whitespace
    BY SpecialChars
  <2>4. Clean(w)
    BY <2>1, <2>2, <2>3 DEF Clean
  <2> QED BY <1>2, <2>4 DEF w
<1> QED BY <1>1, <1>2, EscapedCases

LEMMA CatIsClean ==
    ASSUME NEW u \in Seq(Char), NEW v \in Seq(Char), Clean(u), Clean(v)
    PROVE  Clean(u \o v)
<1> SUFFICES ASSUME NEW i \in 1 .. Len(u \o v)
             PROVE  (u \o v)[i] # Semicolon /\ (u \o v)[i] \notin Whitespace
  BY DEF Clean
<1>1. i \in 1 .. Len(u) + Len(v) /\ (u \o v)[i] = IF i <= Len(u) THEN u[i] ELSE v[i - Len(u)]
  BY ConcatProperties
<1>2. CASE i <= Len(u)
  <2>1. i \in 1 .. Len(u)
    BY <1>1, <1>2
  <2> QED BY <1>1, <1>2, <2>1 DEF Clean
<1>3. CASE ~(i <= Len(u))
  <2>1. i - Len(u) \in 1 .. Len(v)
    BY <1>1, <1>3
  <2> QED BY <1>1, <1>3, <2>1 DEF Clean
<1> QED BY <1>2, <1>3

\* A value is written without anything that separates tags or words.
LEMMA WrittenIsClean ==
    ASSUME NEW s \in Seq(Char)
    PROVE  write_escaped(s) \in Seq(Char) /\ Clean(write_escaped(s))
<1> DEFINE n == Len(s)
<1>1. PICK h \in [0 .. n -> Chars] : /\ h[0] = <<>>
                                     /\ \A i \in 1 .. n : h[i] = h[i - 1] \o escaped(s[i])
                                     /\ write_escaped(s) = h[n]
  BY WriteFold
<1> DEFINE K == {k \in Nat : k <= n => Clean(h[k])}
<1>2. 0 \in K
  BY <1>1 DEF Clean
<1>3. ASSUME NEW k \in Nat, k \in K PROVE k + 1 \in K
  <2> SUFFICES ASSUME k + 1 <= n PROVE Clean(h[k + 1])
    OBVIOUS
  <2>1. k + 1 \in 1 .. n /\ k \in 0 .. n /\ (k + 1) - 1 = k
    OBVIOUS
  <2>2. h[k] \in Seq(Char) /\ Clean(h[k])
    BY <1>1, <1>3, <2>1 DEF Chars
  <2>3. s[k + 1] \in Char
    BY <2>1
  <2>4. h[k + 1] = h[k] \o escaped(s[k + 1])
    BY <1>1, <2>1
  <2> QED BY <2>2, <2>3, <2>4, EscapedIsTyped, EscapedIsClean, CatIsClean
<1>4. n \in K /\ n \in Nat
  <2>1. n \in Nat
    OBVIOUS
  <2> HIDE DEF K
  <2> QED BY <1>2, <1>3, <2>1, SetInduction
<1>5. h[n] \in Seq(Char)
  BY <1>1 DEF Chars
<1> QED BY <1>1, <1>4, <1>5

\* h is what was written after each character of s, and all of it begins what was written.
WritePath(h, s) ==
    /\ h \in [0 .. Len(s) -> Chars] /\ h[0] = <<>>
    /\ \A i \in 1 .. Len(s) : h[i] = h[i - 1] \o escaped(s[i])

Begins(u, w) == Len(u) <= Len(w) /\ \A i \in 1 .. Len(u) : w[i] = u[i]

LEMMA BeginsMore ==
    ASSUME NEW a \in Seq(Char), NEW b \in Seq(Char), NEW e \in Seq(Char), Begins(a, b)
    PROVE  Begins(a, b \o e)
<1>1. Len(a) \in Nat /\ Len(b) \in Nat /\ Len(e) \in Nat /\ Len(a) <= Len(b)
  BY DEF Begins
<1>2. Len(b \o e) = Len(b) + Len(e)
  BY ConcatProperties
<1>3. \A i \in 1 .. Len(a) : i \in 1 .. Len(b) /\ b[i] = a[i]
  BY <1>1 DEF Begins
<1>4. \A i \in 1 .. Len(b) : (b \o e)[i] = b[i]
  OBVIOUS
<1>5. Len(a) <= Len(b \o e)
  BY <1>1, <1>2
<1>6. \A i \in 1 .. Len(a) : (b \o e)[i] = a[i]
  BY <1>3, <1>4
<1> QED BY <1>5, <1>6 DEF Begins

LEMMA PathBegins ==
    ASSUME NEW s \in Seq(Char), NEW h, WritePath(h, s), NEW k \in 0 .. Len(s)
    PROVE  Begins(h[k], h[Len(s)])
<1> DEFINE n == Len(s)
           K == {j \in Nat : k <= j /\ j <= n => Begins(h[k], h[j])}
<1>1. /\ h \in [0 .. n -> Chars] /\ h[0] = <<>> /\ n \in Nat /\ k \in Nat /\ k <= n
      /\ \A i \in 1 .. n : h[i] = h[i - 1] \o escaped(s[i])
  BY DEF WritePath
<1>2. h[k] \in Seq(Char) /\ Begins(h[k], h[k])
  <2>1. h[k] \in Seq(Char)
    BY <1>1 DEF Chars
  <2> QED BY <2>1 DEF Begins
<1>3. 0 \in K
  <2>1. k <= 0 => k = 0
    BY <1>1
  <2> QED BY <2>1, <1>2
<1>4. ASSUME NEW j \in Nat, j \in K PROVE j + 1 \in K
  <2> DEFINE l == j + 1
  <2> SUFFICES ASSUME k <= l, l <= n PROVE Begins(h[k], h[l])
    OBVIOUS
  <2>1. CASE k = l
    BY <1>2, <2>1
  <2>2. CASE k # l
    <3>1. l \in 1 .. n /\ l - 1 = j /\ j \in 0 .. n /\ k <= j /\ j <= n
      BY <1>1, <2>2
    <3>2. Begins(h[k], h[j])
      BY <1>4, <3>1
    <3> HIDE DEF l
    <3>3. h[l] = h[j] \o escaped(s[l])
      BY <1>1, <3>1
    <3>4. s[l] \in Char
      BY <3>1
    <3>5. escaped(s[l]) \in Seq(Char)
      BY <3>4, EscapedIsTyped
    <3>6. h[j] \in Seq(Char)
      BY <1>1, <3>1 DEF Chars
    <3> QED BY <1>2, <3>2, <3>3, <3>5, <3>6, BeginsMore
  <2> QED BY <2>1, <2>2
<1>5. n \in K /\ n \in Nat
  <2>1. n \in Nat
    BY <1>1
  <2> HIDE DEF K, n
  <2> QED BY <1>3, <1>4, <2>1, SetInduction
<1> QED BY <1>1, <1>5

\* One character is read from where the characters before it end.
ReadPath(u, w) ==
    /\ u \in [0 .. Len(w) -> Unescaped]
    /\ \A i \in 1 .. Len(w) :
          u[i] = IF w[i] = "\\" /\ ~u[i - 1].escape THEN [u[i - 1] EXCEPT !.escape = TRUE]
                 ELSE [res |-> Append(u[i - 1].res, IF u[i - 1].escape THEN tag_escape(w[i]) ELSE w[i]),
                       escape |-> FALSE]

StandsAt(e, w, p) == p + Len(e) <= Len(w) /\ \A i \in 1 .. Len(e) : w[p + i] = e[i]

LEMMA ReadOne ==
    ASSUME NEW w \in Seq(Char), NEW p \in Nat, NEW c \in Char, NEW u, ReadPath(u, w),
           ~u[p].escape, StandsAt(escaped(c), w, p)
    PROVE  u[p + Len(escaped(c))] = [res |-> Append(u[p].res, c), escape |-> FALSE]
<1> USE DEF ReadPath, StandsAt
<1>1. CASE escaped(c) = <<c>> /\ c # "\\"
  <2> DEFINE e == escaped(c)
  <2>1. Len(e) = 1 /\ e[1] = c
    BY <1>1
  <2> HIDE DEF e
  <2>2. p + 1 \in 1 .. Len(w) /\ (p + 1) - 1 = p
    BY <2>1 DEF e
  <2>3. w[p + 1] = c
    BY <2>1 DEF e
  <2>4. u[p + 1] = [res |-> Append(u[p].res, c), escape |-> FALSE]
    BY <1>1, <2>2, <2>3
  <2> QED BY <2>1, <2>4 DEF e
<1>2. ASSUME NEW d \in {":", "s", "r", "n", "\\"}, escaped(c) = <<"\\", d>>, tag_escape(d) = c
      PROVE  u[p + Len(escaped(c))] = [res |-> Append(u[p].res, c), escape |-> FALSE]
  <2> DEFINE e == escaped(c)
  <2>1. Len(e) = 2 /\ e[1] = "\\" /\ e[2] = d
    BY <1>2
  <2> HIDE DEF e
  <2>2. p + 1 \in 1 .. Len(w) /\ (p + 1) - 1 = p /\ p + 2 \in 1 .. Len(w) /\ (p + 2) - 1 = p + 1
        /\ p \in 0 .. Len(w)
    BY <2>1 DEF e
  <2>3. w[p + 1] = "\\" /\ w[p + 2] = d
    BY <2>1 DEF e
  <2>4. u[p + 1] = [u[p] EXCEPT !.escape = TRUE]
    BY <2>2, <2>3
  <2>5. u[p] \in Unescaped
    BY <2>2
  <2>6. u[p + 1].escape = TRUE /\ u[p + 1].res = u[p].res
    BY <2>4, <2>5 DEF Unescaped
  <2>7. u[p + 2] = [res |-> Append(u[p].res, tag_escape(d)), escape |-> FALSE]
    BY <2>2, <2>3, <2>6
  <2> QED BY <1>2, <2>1, <2>7 DEF e
<1> QED BY <1>1, <1>2, EscapedCases

\* What is written is read back.
THEOREM ReadWhatIsWritten ==
    ASSUME NEW s \in Seq(Char)
    PROVE  unescape_value(write_escaped(s)) = s
<1> DEFINE n == Len(s)
           w == write_escaped(s)
<1>1. PICK h : WritePath(h, s) /\ w = h[n]
  <2>1. PICK h \in [0 .. n -> Chars] : /\ h[0] = <<>>
                                       /\ \A i \in 1 .. n : h[i] = h[i - 1] \o escaped(s[i])
                                       /\ write_escaped(s) = h[n]
    BY WriteFold
  <2> QED BY <2>1 DEF WritePath
<1>2. /\ h \in [0 .. n -> Chars] /\ h[0] = <<>> /\ n \in Nat
      /\ \A i \in 1 .. n : h[i] = h[i - 1] \o escaped(s[i])
  BY <1>1 DEF WritePath
<1>3. w \in Seq(Char)
  BY WrittenIsClean
<1> HIDE DEF w
<1>4. PICK u : ReadPath(u, w) /\ u[0] = [res |-> <<>>, escape |-> FALSE]
                /\ unescape_value(w) = u[Len(w)].res
  BY <1>3, ReadFold DEF ReadPath
<1>5. ASSUME NEW k \in 0 .. n
      PROVE  h[k] \in Seq(Char) /\ Len(h[k]) <= Len(w) /\ \A i \in 1 .. Len(h[k]) : w[i] = h[k][i]
  <2>1. h[k] \in Seq(Char)
    BY <1>2 DEF Chars
  <2>2. Begins(h[k], w)
    BY <1>1, PathBegins
  <2> QED BY <2>1, <2>2 DEF Begins
<1> DEFINE Read(k) == u[Len(h[k])] = [res |-> SubSeq(s, 1, k), escape |-> FALSE]
           K == {k \in Nat : k <= n => Read(k)}
<1>6. 0 \in K
  <2>1. SubSeq(s, 1, 0) = <<>>
    OBVIOUS
  <2> QED BY <1>2, <1>4, <2>1
<1>7. ASSUME NEW k \in Nat, k \in K PROVE k + 1 \in K
  <2> SUFFICES ASSUME k + 1 <= n PROVE Read(k + 1)
    OBVIOUS
  <2> DEFINE m == k + 1
             c == s[m]
             e == escaped(c)
             p == Len(h[k])
  <2>1. m \in 1 .. n /\ k \in 0 .. n /\ m \in 0 .. n /\ m - 1 = k
    BY <1>2
  <2>2. c \in Char
    BY <2>1
  <2>3. e \in Seq(Char) /\ h[m] = h[k] \o e /\ h[k] \in Seq(Char) /\ p \in Nat
    <3>1. e \in Seq(Char)
      BY <2>2, EscapedIsTyped
    <3>2. h[k] \in Seq(Char)
      BY <1>5, <2>1
    <3>3. h[m] = h[k] \o e
      BY <1>2, <2>1
    <3> QED BY <3>1, <3>2, <3>3
  <2>4. Len(h[m]) = p + Len(e) /\ \A i \in 1 .. Len(e) : h[m][p + i] = e[i]
    <3> DEFINE a == h[k]
    <3> HIDE DEF a, e, m
    <3>1. Len(a \o e) = Len(a) + Len(e) /\ \A i \in 1 .. Len(e) : (a \o e)[Len(a) + i] = e[i]
      BY <2>3, CatFacts DEF a
    <3> QED BY <2>3, <3>1 DEF a
  <2>5. p + Len(e) <= Len(w) /\ \A i \in 1 .. Len(e) : w[p + i] = e[i]
    <3> HIDE DEF e, m
    <3>1. Len(h[m]) <= Len(w) /\ \A i \in 1 .. Len(h[m]) : w[i] = h[m][i]
      BY <1>5, <2>1
    <3> DEFINE q == p + Len(e)
    <3>2. \A i \in 1 .. Len(e) : p + i \in 1 .. q
      BY <2>3
    <3> HIDE DEF p
    <3> QED BY <2>4, <3>1, <3>2
  <2>6. u[p] = [res |-> SubSeq(s, 1, k), escape |-> FALSE]
    BY <1>7, <2>1
  <2> HIDE DEF p, e, c, m
  <2>7. u[p + Len(e)] = [res |-> Append(u[p].res, c), escape |-> FALSE]
    <3>1. StandsAt(e, w, p)
      BY <2>5 DEF StandsAt
    <3>2. ~u[p].escape
      BY <2>6
    <3> QED BY <1>3, <1>4, <2>2, <2>3, <3>1, <3>2, ReadOne DEF e
  <2>8. SubSeq(s, 1, m) = Append(SubSeq(s, 1, k), c)
    <3>1. m \in 1 .. Len(s) /\ 1 \in 1 .. Len(s) /\ m \in 1 .. Len(s) /\ m - 1 = k
      BY <2>1
    <3>2. SubSeq(s, 1, m) = SubSeq(s, 1, m - 1) \o <<s[m]>>
      BY <3>1, SubSeqRecursiveSecond
    <3>3. SubSeq(s, 1, k) \in Seq(Char)
      BY <2>1
    <3>4. Append(SubSeq(s, 1, k), c) = SubSeq(s, 1, k) \o <<c>>
      BY <2>2, <3>3, AppendIsConcat
    <3> QED BY <3>1, <3>2, <3>4 DEF c
  <2>9. u[p].res = SubSeq(s, 1, k) /\ Len(h[m]) = p + Len(e)
    BY <2>4, <2>6
  <2>10. u[Len(h[m])] = [res |-> SubSeq(s, 1, m), escape |-> FALSE]
    BY <2>7, <2>8, <2>9
  <2> QED BY <2>10 DEF m
<1>8. n \in K
  <2> HIDE DEF K
  <2> QED BY <1>2, <1>6, <1>7, SetInduction
<1>9. u[Len(w)].res = SubSeq(s, 1, n)
  BY <1>1, <1>2, <1>8
<1>10. SubSeq(s, 1, n) = s
  OBVIOUS
<1> QED BY <1>4, <1>9, <1>10 DEF w

=============================================================================
