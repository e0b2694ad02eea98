--------------------------- MODULE IncomingProofs ---------------------------
(***************************************************************************)
(* The reading branch of a connection, for every stream, every way it      *)
(* arrives and every limit: its memory is bounded, the lines it handles    *)
(* are those of the stream, it refuses a line for cause, and the replies   *)
(* to a labelled message have the form that labelled responses promise.    *)
(***************************************************************************)
EXTENDS Incoming, MapTheorems, SequenceTheorems

-----------------------------------------------------------------------------
(* The rate limiter, for every rate, burst and cost *)

\* millis / rate rounds down.
LEMMA DivLemma ==
    ASSUME NEW m \in Nat, NEW r \in Nat \ {0}
    PROVE  m \div r \in Nat /\ (m \div r) * r <= m
  BY SMT

LEMMA ModLemma ==
    ASSUME NEW m \in Nat, NEW w \in Nat, m < w
    PROVE  m % w = m
  BY SMT

\* Multiplication by a natural number keeps an order and distributes.
LEMMA MulLemma ==
    ASSUME NEW a \in Int, NEW b \in Int, NEW r \in Nat
    PROVE  /\ a <= b => a * r <= b * r
           /\ (a - b) * r = a * r - b * r
           /\ (a + b) * r = a * r + b * r
           /\ a * r \in Int
  BY SMT

\* Handling a line keeps the account: its points are added, and no more is forgiven than
\* the time that passed, or will be waited for, pays.
LEMMA ChargeInv ==
    ASSUME RateInv, NEW p \in Points, charge(p)
    PROVE  RateInv'
<1> DEFINE spent   == (used_points + p) % Word
           elapsed == now - last_round
           millis  == Lesser(elapsed, Word - 1)
           paid    == millis \div Rate
           left    == spent - Lesser(spent, paid)
           wait    == ((left - Burst) * Rate) % Word
<1>1. /\ p \in Nat /\ Rate \in Nat \ {0} /\ Burst \in Nat /\ Word \in Nat
      /\ Burst + p < Word /\ p * Rate < Word
  BY RateAssumption
<1>2. /\ RateTypeOK /\ used_points <= Burst /\ last_round <= now
      /\ total * Rate <= used_points * Rate + last_round
  BY DEF RateInv, charge
<1>3. spent = used_points + p /\ spent \in Nat
  BY <1>1, <1>2, ModLemma DEF RateTypeOK
<1>4. elapsed \in Nat /\ millis \in Nat /\ millis <= elapsed
  BY <1>1, <1>2 DEF RateTypeOK, Lesser
<1>5. paid \in Nat /\ paid * Rate <= elapsed
  <2>1. paid \in Nat /\ paid * Rate <= millis
    BY <1>1, <1>4, DivLemma
  <2>2. paid * Rate \in Int
    BY <1>1, <2>1, MulLemma
  <2> QED BY <1>4, <2>1, <2>2
<1>6. left \in Nat /\ spent - paid <= left /\ left <= spent
  BY <1>3, <1>5 DEF Lesser
<1>7. /\ total' = total + p /\ now' = now
      /\ \/ spent <= Burst /\ used_points' = spent /\ UNCHANGED <<last_round, wake>>
         \/ spent > Burst /\ left <= Burst /\ used_points' = left /\ last_round' = now /\ wake' = wake
         \/ /\ spent > Burst /\ left > Burst
            /\ used_points' = Burst /\ last_round' = now + wait /\ wake' = now + wait
  BY DEF charge
<1>8. total' * Rate = total * Rate + p * Rate /\ spent * Rate = used_points * Rate + p * Rate
  BY <1>1, <1>2, <1>3, <1>7, MulLemma DEF RateTypeOK
<1>9. /\ total * Rate \in Int /\ p * Rate \in Int /\ used_points * Rate \in Int
      /\ spent * Rate \in Int /\ left * Rate \in Int /\ paid * Rate \in Int /\ Burst * Rate \in Int
  BY <1>1, <1>2, <1>3, <1>5, <1>6, MulLemma DEF RateTypeOK
<1>10. spent * Rate - elapsed <= left * Rate
  <2>1. (spent - paid) * Rate <= left * Rate
    BY <1>1, <1>3, <1>5, <1>6, MulLemma
  <2>2. (spent - paid) * Rate = spent * Rate - paid * Rate
    BY <1>1, <1>3, <1>5, MulLemma
  <2> QED BY <1>4, <1>5, <1>9, <2>1, <2>2
<1>11. total' * Rate <= left * Rate + now
  BY <1>2, <1>4, <1>8, <1>9, <1>10 DEF RateTypeOK
<1>12. CASE spent <= Burst
  <2>1. used_points' = spent /\ last_round' = last_round /\ wake' = wake /\ now' = now
    BY <1>3, <1>6, <1>7, <1>12, <1>1
  <2>2. RateTypeOK'
    BY <1>1, <1>2, <1>3, <1>7, <2>1 DEF RateTypeOK
  <2>3. total' * Rate <= used_points' * Rate + last_round'
    BY <1>2, <1>8, <1>9, <2>1 DEF RateTypeOK
  <2> QED BY <1>2, <1>12, <2>1, <2>2, <2>3 DEF RateInv, Awake, RateTypeOK
<1>13. CASE spent > Burst /\ left <= Burst
  <2>1. used_points' = left /\ last_round' = now /\ wake' = wake /\ now' = now
    BY <1>3, <1>6, <1>7, <1>13, <1>1
  <2>2. RateTypeOK'
    BY <1>1, <1>2, <1>6, <1>7, <2>1 DEF RateTypeOK
  <2>3. total' * Rate <= used_points' * Rate + last_round'
    BY <1>11, <2>1
  <2> QED BY <1>13, <2>1, <2>2, <2>3 DEF RateInv, Awake, RateTypeOK
<1>14. CASE spent > Burst /\ left > Burst
  <2>1. used_points' = Burst /\ last_round' = now + wait /\ wake' = now + wait /\ now' = now
    BY <1>3, <1>6, <1>7, <1>14, <1>1
  <2>2. left - Burst \in Nat /\ left - Burst <= p
    BY <1>1, <1>2, <1>3, <1>6, <1>14 DEF RateTypeOK
  <2>3. (left - Burst) * Rate \in Nat /\ (left - Burst) * Rate <= p * Rate
    <3>1. /\ 0 * Rate <= (left - Burst) * Rate /\ (left - Burst) * Rate <= p * Rate
          /\ (left - Burst) * Rate \in Int
      BY <1>1, <2>2, MulLemma
    <3> QED BY <1>1, <3>1
  <2>4. wait = (left - Burst) * Rate /\ wait \in Nat
    BY <1>1, <1>9, <2>3, ModLemma
  <2>5. wait = left * Rate - Burst * Rate
    BY <1>1, <1>6, <2>4, MulLemma
  <2>6. RateTypeOK'
    BY <1>1, <1>2, <1>7, <2>1, <2>4 DEF RateTypeOK
  <2>7. total' * Rate <= used_points' * Rate + last_round'
    BY <1>2, <1>9, <1>11, <2>1, <2>4, <2>5 DEF RateTypeOK
  <2> HIDE DEF wait
  <2> QED BY <1>1, <2>1, <2>4, <2>6, <2>7 DEF RateInv, Awake, RateTypeOK
<1> QED BY <1>1, <1>3, <1>6, <1>12, <1>13, <1>14

\* The clock only moves towards the end of the wait.
LEMMA TickInv == RateInv /\ Tick => RateInv'
  BY DEF RateInv, RateTypeOK, Tick, Awake

\* The account of the limiter is kept from the start of a connection on.
THEOREM RateInductive == RateSpec => []RateInv
<1>1. RateInit => RateInv
  BY RateAssumption DEF RateInit, RateInv, RateTypeOK, Awake
<1>2. RateInv /\ [RateNext]_rateVars => RateInv'
  <2> SUFFICES ASSUME RateInv, [RateNext]_rateVars PROVE RateInv'
    OBVIOUS
  <2>1. CASE Tick
    BY <2>1, TickInv
  <2>2. ASSUME NEW p \in Points, charge(p) PROVE RateInv'
    BY <2>2, ChargeInv
  <2>3. CASE UNCHANGED rateVars
    BY <2>3 DEF rateVars, RateInv, RateTypeOK, Awake
  <2> QED BY <2>1, <2>2, <2>3 DEF RateNext
<1> QED BY <1>1, <1>2, PTL DEF RateSpec

\* Whatever lines cost and whenever they come, a client that may send another has spent at
\* most Burst points and one for every Rate milliseconds of its connection (rate_limit!).
THEOREM RateBoundedHolds == RateSpec => []RateBounded
<1>1. RateInv => RateBounded
  <2> SUFFICES ASSUME RateInv, Awake PROVE total * Rate <= Burst * Rate + now
    BY DEF RateBounded
  <2>1. Rate \in Nat /\ Burst \in Nat
    BY RateAssumption
  <2>2. used_points * Rate <= Burst * Rate /\ used_points * Rate \in Int
    BY <2>1, MulLemma DEF RateInv, RateTypeOK
  <2>3. Burst * Rate \in Int /\ total * Rate \in Int
    BY <2>1, MulLemma DEF RateInv, RateTypeOK
  <2> QED BY <2>2, <2>3 DEF RateInv, RateTypeOK
<1> QED BY <1>1, RateInductive, PTL

-----------------------------------------------------------------------------
(* The reading branch: its invariant *)

Reply == [kind : {"reply", "BATCH+", "BATCH-", "ACK"}, label : BOOLEAN, batch : {NoBatch, 0}]

IncomingTypeOK ==
    /\ stream \in Seq(Byte) /\ wire \in Seq(Byte) /\ available \in Seq(Byte) /\ bytes \in Seq(Byte)
    /\ closed \in BOOLEAN /\ labelled \in BOOLEAN
    /\ n \in [read : Nat, limit : Nat, count : Nat]
    /\ phase \in {"read", "handle", "send", "ended"}
    /\ rb \in [buf : Seq(Reply), batch : {NoBatch, 0}, has_label : BOOLEAN]
    /\ handled \in Seq(Seq(Byte))

\* How much of the stream read_line has consumed.
Pos == Len(stream) - Len(available) - Len(wire)

\* The rest of the stream is in the buffer and on the wire.
RestIsAhead ==
    /\ Len(available) + Len(wire) <= Len(stream)
    /\ \A i \in 1 .. Len(available) : available[i] = stream[Pos + i]
    /\ \A i \in 1 .. Len(wire) : wire[i] = stream[Pos + Len(available) + i]

\* What is known of the line that is being read.
LineIsOpen ==
    /\ \A i \in 1 .. Len(bytes) : bytes[i] \notin Ends
    /\ n.read = Len(bytes) /\ n.count <= Len(bytes)
    /\ n.limit = IF bytes = <<>> THEN 0 ELSE Limit(bytes[1])

\* The lines that were handled, and the one that is open, are those that end and that is
\* open where the reader is in the stream.  Once the last, unended line has been handled
\* this is no more so, but then nothing is left to read.
InStep ==
    /\ phase = "read" =>
        \/ LinesUpTo(stream)[Pos] = <<handled, bytes>>
        \/ Pos = Len(stream) /\ bytes = <<>>
    /\ phase \in {"handle", "send"} =>
        \/ LinesUpTo(stream)[Pos] = <<handled, <<>>>>
        \/ Pos = Len(stream)

\* What a handler has made of its ReplyBuffer r so far, for a message with a label or none.
InOrder(r, has_label) ==
    /\ r.has_label <=> has_label /\ r.buf = <<>>
    /\ r.batch = 0 <=> r.buf # <<>> /\ r.buf[1].kind = "BATCH+"
    /\ \A i \in 1 .. Len(r.buf) :
          /\ r.buf[i].label <=> has_label /\ i = 1
          /\ r.buf[i].kind \in IF i = 1 THEN {"reply", "BATCH+"} ELSE {"reply"}
          /\ r.buf[i].batch = IF i = 1 THEN NoBatch ELSE r.batch

ReaderInv ==
    /\ RestIsAhead
    /\ phase = "read" => LineIsOpen
    /\ ReaderBounded
    /\ InStep
    /\ LinesHandledInOrder

RepliesInv == (phase = "handle" => InOrder(rb, labelled)) /\ LabelledResponse

IncomingInv == IncomingTypeOK /\ ReaderInv /\ RepliesInv

-----------------------------------------------------------------------------
(* Sequences *)

LEMMA PrefixDef ==
    ASSUME NEW S, NEW s \in Seq(S), NEW t \in Seq(S)
    PROVE  IsPrefix(s, t) <=> Len(s) <= Len(t) /\ \A i \in 1 .. Len(s) : s[i] = t[i]
<1>1. ASSUME IsPrefix(s, t)
      PROVE  Len(s) <= Len(t) /\ \A i \in 1 .. Len(s) : s[i] = t[i]
  <2>1. Len(s) <= Len(t) /\ SubSeq(s, 1, Len(s)) = SubSeq(t, 1, Len(s))
    BY <1>1 DEF IsPrefix
  <2>2. ASSUME NEW i \in 1 .. Len(s) PROVE s[i] = t[i]
    <3>1. SubSeq(s, 1, Len(s))[i] = s[i] /\ SubSeq(t, 1, Len(s))[i] = t[i]
      BY <2>1
    <3> QED BY <2>1, <3>1
  <2> QED BY <2>1, <2>2
<1>2. ASSUME Len(s) <= Len(t), \A i \in 1 .. Len(s) : s[i] = t[i]
      PROVE  IsPrefix(s, t)
  <2>1. SubSeq(s, 1, Len(s)) \in Seq(S) /\ Len(SubSeq(s, 1, Len(s))) = Len(s)
        /\ \A i \in 1 .. Len(s) : SubSeq(s, 1, Len(s))[i] = s[i]
    OBVIOUS
  <2>2. SubSeq(t, 1, Len(s)) \in Seq(S) /\ Len(SubSeq(t, 1, Len(s))) = Len(s)
        /\ \A i \in 1 .. Len(s) : SubSeq(t, 1, Len(s))[i] = t[i]
    BY <1>2
  <2>3. SubSeq(s, 1, Len(s)) = SubSeq(t, 1, Len(s))
    BY <1>2, <2>1, <2>2, SeqEqual
  <2> QED BY <1>2, <2>3 DEF IsPrefix
<1> QED BY <1>1, <1>2

LEMMA PrefixSelf ==
    ASSUME NEW S, NEW s \in Seq(S)
    PROVE  IsPrefix(s, s)
  BY PrefixDef

LEMMA PrefixTrans ==
    ASSUME NEW S, NEW s \in Seq(S), NEW t \in Seq(S), NEW u \in Seq(S),
           IsPrefix(s, t), IsPrefix(t, u)
    PROVE  IsPrefix(s, u)
<1>1. Len(s) <= Len(t) /\ \A i \in 1 .. Len(s) : s[i] = t[i]
  BY PrefixDef
<1>2. Len(t) <= Len(u) /\ \A i \in 1 .. Len(t) : t[i] = u[i]
  BY PrefixDef
<1>3. Len(s) <= Len(u) /\ \A i \in 1 .. Len(s) : s[i] = u[i]
  BY <1>1, <1>2
<1> QED BY <1>3, PrefixDef

LEMMA PrefixAppend ==
    ASSUME NEW S, NEW s \in Seq(S), NEW e \in S
    PROVE  IsPrefix(s, Append(s, e))
<1>1. Append(s, e) \in Seq(S) /\ Len(s) <= Len(Append(s, e))
      /\ \A i \in 1 .. Len(s) : s[i] = Append(s, e)[i]
  BY AppendProperties
<1> QED BY <1>1, PrefixDef

LEMMA ContentAppend ==
    ASSUME NEW y \in Seq(Byte), NEW e \in Ends, e \in Byte
    PROVE  Content(Append(y, e)) = y
<1> DEFINE z == Append(y, e)
<1>1. /\ z \in Seq(Byte) /\ z # <<>> /\ Len(z) = Len(y) + 1 /\ z[Len(y) + 1] = e
      /\ \A i \in 1 .. Len(y) : z[i] = y[i]
  BY AppendProperties
<1> HIDE DEF z
<1>2. Last(z) = e
  BY <1>1 DEF Last
<1>3. Front(z) = SubSeq(z, 1, Len(y))
  BY <1>1 DEF Front
<1>4. SubSeq(z, 1, Len(y)) = y
  <2>1. /\ SubSeq(z, 1, Len(y)) \in Seq(Byte) /\ Len(SubSeq(z, 1, Len(y))) = Len(y)
        /\ \A i \in 1 .. Len(y) : SubSeq(z, 1, Len(y))[i] = z[i]
    BY <1>1
  <2> QED BY <1>1, <2>1, SeqEqual
<1>5. Content(z) = y
  BY <1>1, <1>2, <1>3, <1>4 DEF Content
<1> QED BY <1>5 DEF z

\* A part of a stream.
LEMMA Part ==
    ASSUME NEW s \in Seq(Byte), NEW m \in Nat \ {0}, NEW k \in Nat, m <= k + 1, k <= Len(s)
    PROVE  /\ SubSeq(s, m, k) \in Seq(Byte) /\ Len(SubSeq(s, m, k)) = k - m + 1
           /\ \A i \in 1 .. k - m + 1 : SubSeq(s, m, k)[i] = s[m + i - 1]
<1>1. \A i \in m .. k : s[i] \in Byte
  OBVIOUS
<1> QED BY <1>1, SubSeqProperties

LEMMA AppendConcat ==
    ASSUME NEW s \in Seq(Byte), NEW t \in Seq(Byte), NEW e \in Byte
    PROVE  Append(s \o t, e) = s \o Append(t, e)
<1>1. Append(s \o t, e) \in Seq(Byte) /\ s \o Append(t, e) \in Seq(Byte)
  OBVIOUS
<1>2. Len(Append(s \o t, e)) = Len(s) + Len(t) + 1 /\ Len(s \o Append(t, e)) = Len(s) + Len(t) + 1
  OBVIOUS
<1>3. ASSUME NEW i \in 1 .. Len(s) + Len(t) + 1
      PROVE  Append(s \o t, e)[i] = (s \o Append(t, e))[i]
  OBVIOUS
<1> QED BY <1>1, <1>2, <1>3, SeqEqual

LEMMA SubSeqAppend ==
    ASSUME NEW S, NEW t \in Seq(S), NEW k \in Nat, k + 1 <= Len(t)
    PROVE  SubSeq(t, 1, k + 1) = Append(SubSeq(t, 1, k), t[k + 1])
<1> DEFINE a == SubSeq(t, 1, k + 1)
           b == Append(SubSeq(t, 1, k), t[k + 1])
<1>1. a \in Seq(S) /\ Len(a) = k + 1 /\ \A i \in 1 .. k + 1 : a[i] = t[i]
  OBVIOUS
<1>2. b \in Seq(S) /\ Len(b) = k + 1 /\ \A i \in 1 .. k + 1 : b[i] = t[i]
  OBVIOUS
<1> HIDE DEF a, b
<1>3. a = b
  BY <1>1, <1>2, SeqEqual
<1> QED BY <1>3 DEF a, b

-----------------------------------------------------------------------------
(* The lines of a stream *)

Split == Seq(Seq(Byte)) \X Seq(Byte)
NoLines == << <<>>, <<>> >>

LEMMA AdvanceType ==
    ASSUME NEW l \in Split, NEW b \in Byte
    PROVE  Advance(l, b) \in Split
<1>1. PICK done \in Seq(Seq(Byte)), open \in Seq(Byte) : l = <<done, open>>
  BY DEF Split
<1>2. l[1] = done /\ l[2] = open
  BY <1>1
<1>3. Append(done, open) \in Seq(Seq(Byte)) /\ Append(open, b) \in Seq(Byte)
  BY AppendProperties
<1>4. <<>> \in Seq(Byte)
  BY EmptySeq
<1>5. <<done, Append(open, b)>> \in Split /\ <<Append(done, open), <<>>>> \in Split
  BY <1>3, <1>4 DEF Split
<1> QED BY <1>2, <1>5 DEF Advance

\* The recursive definition of LinesUpTo defines a function: for every k there is one on
\* 0 .. k that obeys its equation.
LEMMA LinesUpToDef ==
    ASSUME NEW s \in Seq(Byte)
    PROVE  LinesUpTo(s) =
             [i \in 0 .. Len(s) |-> IF i = 0 THEN NoLines ELSE Advance(LinesUpTo(s)[i - 1], s[i])]
<1> DEFINE Obeys(g, k) ==
             g = [i \in 0 .. k |-> IF i = 0 THEN NoLines ELSE Advance(g[i - 1], s[i])]
           T == {k \in Nat : \E g : Obeys(g, k)}
<1>1. 0 \in T
  <2> DEFINE g == [i \in 0 .. 0 |-> NoLines]
  <2>1. Obeys(g, 0)
    OBVIOUS
  <2> QED BY <2>1
<1>2. ASSUME NEW k \in Nat, k \in T PROVE k + 1 \in T
  <2>1. PICK g : Obeys(g, k)
    BY <1>2
  <2> DEFINE h == [i \in 0 .. k + 1 |-> IF i = k + 1 THEN Advance(g[k], s[k + 1]) ELSE g[i]]
  <2>2. ASSUME NEW i \in 0 .. k + 1
        PROVE  h[i] = IF i = 0 THEN NoLines ELSE Advance(h[i - 1], s[i])
    <3>1. CASE i = k + 1
      BY <3>1
    <3>2. CASE i # k + 1
      <4>1. i \in 0 .. k /\ h[i] = g[i]
        BY <3>2
      <4>2. g[i] = IF i = 0 THEN NoLines ELSE Advance(g[i - 1], s[i])
        BY <2>1, <4>1
      <4>3. i # 0 => h[i - 1] = g[i - 1]
        BY <4>1
      <4> QED BY <4>1, <4>2, <4>3
    <3> QED BY <3>1, <3>2
  <2> HIDE DEF h
  <2>3. Obeys(h, k + 1)
    BY <2>2 DEF h
  <2>4. \E f : Obeys(f, k + 1)
    BY <2>3
  <2>5. k + 1 \in Nat
    OBVIOUS
  <2> HIDE DEF Obeys
  <2> QED BY <2>4, <2>5
<1>3. Len(s) \in T
  <2> HIDE DEF T
  <2>1. \A k \in Nat : k \in T
    BY <1>1, <1>2, SetInduction
  <2> QED BY <2>1
<1>4. \E g : Obeys(g, Len(s))
  BY <1>3
<1>5. LinesUpTo(s) = CHOOSE g : Obeys(g, Len(s))
  BY DEF LinesUpTo, NoLines
<1>6. Obeys(LinesUpTo(s), Len(s))
  <2> HIDE DEF Obeys
  <2> QED BY <1>4, <1>5
<1> QED BY <1>6

LEMMA LinesUpToStep ==
    ASSUME NEW s \in Seq(Byte)
    PROVE  /\ LinesUpTo(s)[0] = NoLines
           /\ \A i \in 1 .. Len(s) : LinesUpTo(s)[i] = Advance(LinesUpTo(s)[i - 1], s[i])
<1> DEFINE U == LinesUpTo(s)
<1> HIDE DEF U
<1>1. U = [i \in 0 .. Len(s) |-> IF i = 0 THEN NoLines ELSE Advance(U[i - 1], s[i])]
  BY LinesUpToDef DEF U
<1>2. U[0] = NoLines
  BY <1>1
<1>3. ASSUME NEW i \in 1 .. Len(s) PROVE U[i] = Advance(U[i - 1], s[i])
  BY <1>1
<1> QED BY <1>2, <1>3 DEF U

LEMMA LinesUpToType ==
    ASSUME NEW s \in Seq(Byte)
    PROVE  \A i \in 0 .. Len(s) : LinesUpTo(s)[i] \in Split
<1> DEFINE U == LinesUpTo(s)
           T == {k \in Nat : k <= Len(s) => U[k] \in Split}
<1> HIDE DEF U
<1>1. 0 \in T
  <2>1. NoLines \in Split
    BY EmptySeq DEF NoLines, Split
  <2> QED BY <2>1, LinesUpToStep DEF U
<1>2. ASSUME NEW k \in Nat, k \in T PROVE k + 1 \in T
  <2> SUFFICES ASSUME k + 1 <= Len(s) PROVE U[k + 1] \in Split
    OBVIOUS
  <2>1. U[k] \in Split /\ s[k + 1] \in Byte
    BY <1>2
  <2>2. U[k + 1] = Advance(U[k], s[k + 1])
    <3>1. \A i \in 1 .. Len(s) : U[i] = Advance(U[i - 1], s[i])
      BY LinesUpToStep DEF U
    <3>2. k + 1 \in 1 .. Len(s) /\ (k + 1) - 1 = k
      OBVIOUS
    <3> QED BY <3>1, <3>2
  <2> QED BY <2>1, <2>2, AdvanceType
<1>3. \A k \in Nat : k \in T
  <2> HIDE DEF T
  <2> QED BY <1>1, <1>2, SetInduction
<1> QED BY <1>3 DEF U

\* As more of a stream is read its lines stay: those that ended before position p are the
\* first of those that ended before any later one, and the line that was open at p is the
\* start of the next of them, or of the line that is still open.
Keeps(l, m) ==
    /\ IsPrefix(l[1], m[1])
    /\ l[2] # <<>> =>
        \/ m[1] = l[1] /\ IsPrefix(l[2], m[2])
        \/ Len(l[1]) < Len(m[1]) /\ IsPrefix(l[2], m[1][Len(l[1]) + 1])

LEMMA KeepsAdvance ==
    ASSUME NEW l \in Split, NEW m \in Split, NEW b \in Byte, Keeps(l, m)
    PROVE  Keeps(l, Advance(m, b))
<1> DEFINE a == Advance(m, b)
<1> HIDE DEF a
<1>1. /\ l[1] \in Seq(Seq(Byte)) /\ l[2] \in Seq(Byte)
      /\ m[1] \in Seq(Seq(Byte)) /\ m[2] \in Seq(Byte)
      /\ a \in Split /\ a[1] \in Seq(Seq(Byte)) /\ a[2] \in Seq(Byte)
  BY AdvanceType DEF Split, a
<1>2. IsPrefix(l[1], m[1])
  BY DEF Keeps
<1>3. CASE b \notin Ends
  <2>1. a[1] = m[1] /\ a[2] = Append(m[2], b)
    BY <1>3 DEF a, Advance
  <2>2. IsPrefix(m[2], a[2])
    BY <1>1, <2>1, PrefixAppend
  <2>3. IsPrefix(l[2], m[2]) => IsPrefix(l[2], a[2])
    BY <1>1, <2>2, PrefixTrans
  <2> QED BY <2>1, <2>3 DEF Keeps, a
<1>4. CASE b \in Ends /\ m[2] = <<>>
  <2>1. a = m
    BY <1>4 DEF a, Advance
  <2> QED BY <2>1 DEF a
<1>5. CASE b \in Ends /\ m[2] # <<>>
  <2>1. a[1] = Append(m[1], m[2]) /\ a[2] = <<>>
    BY <1>5 DEF a, Advance
  <2>2. IsPrefix(l[1], a[1])
    <3>1. IsPrefix(m[1], a[1])
      BY <1>1, <2>1, PrefixAppend
    <3> QED BY <1>1, <1>2, <3>1, PrefixTrans
  <2>3. /\ Len(a[1]) = Len(m[1]) + 1 /\ a[1][Len(m[1]) + 1] = m[2]
        /\ \A i \in 1 .. Len(m[1]) : a[1][i] = m[1][i]
    BY <1>1, <2>1, AppendProperties
  <2>4. ASSUME l[2] # <<>>
        PROVE  Len(l[1]) < Len(a[1]) /\ IsPrefix(l[2], a[1][Len(l[1]) + 1])
    <3>1. CASE m[1] = l[1] /\ IsPrefix(l[2], m[2])
      BY <1>1, <2>3, <3>1
    <3>2. CASE Len(l[1]) < Len(m[1]) /\ IsPrefix(l[2], m[1][Len(l[1]) + 1])
      <4>1. Len(l[1]) + 1 \in 1 .. Len(m[1])
        BY <1>1, <3>2
      <4>2. a[1][Len(l[1]) + 1] = m[1][Len(l[1]) + 1]
        BY <2>3, <4>1
      <4>3. Len(l[1]) < Len(a[1])
        BY <1>1, <2>3, <3>2
      <4> QED BY <3>2, <4>2, <4>3
    <3> QED BY <2>4, <3>1, <3>2 DEF Keeps
  <2> QED BY <2>2, <2>4 DEF Keeps, a
<1> QED BY <1>3, <1>4, <1>5

LEMMA LinesKept ==
    ASSUME NEW s \in Seq(Byte), NEW p \in 0 .. Len(s)
    PROVE  Keeps(LinesUpTo(s)[p], LinesUpTo(s)[Len(s)])
<1> DEFINE U == LinesUpTo(s)
           T == {k \in Nat : p + k <= Len(s) => Keeps(U[p], U[p + k])}
<1> HIDE DEF U
<1>1. \A i \in 0 .. Len(s) : U[i] \in Split
  BY LinesUpToType DEF U
<1>2. \A i \in 1 .. Len(s) : U[i] = Advance(U[i - 1], s[i])
  BY LinesUpToStep DEF U
<1>3. 0 \in T
  <2>1. U[p][1] \in Seq(Seq(Byte)) /\ U[p][2] \in Seq(Byte)
    BY <1>1 DEF Split
  <2>2. Keeps(U[p], U[p])
    BY <2>1, PrefixSelf DEF Keeps
  <2>3. Keeps(U[p], U[p + 0])
    BY <2>2
  <2> QED BY <2>3
<1>4. ASSUME NEW k \in Nat, k \in T PROVE k + 1 \in T
  <2> SUFFICES ASSUME p + (k + 1) <= Len(s) PROVE Keeps(U[p], U[p + (k + 1)])
    OBVIOUS
  <2>1. /\ p + k \in 0 .. Len(s) /\ p + (k + 1) \in 1 .. Len(s) /\ (p + (k + 1)) - 1 = p + k
        /\ s[p + (k + 1)] \in Byte
    OBVIOUS
  <2>2. Keeps(U[p], U[p + k])
    BY <1>4, <2>1
  <2>3. U[p + (k + 1)] = Advance(U[p + k], s[p + (k + 1)])
    BY <1>2, <2>1
  <2> QED BY <1>1, <2>1, <2>2, <2>3, KeepsAdvance
<1>5. Len(s) - p \in T
  <2>1. \A k \in Nat : k \in T
    <3> HIDE DEF T
    <3> QED BY <1>3, <1>4, SetInduction
  <2>2. Len(s) - p \in Nat
    OBVIOUS
  <2> HIDE DEF T
  <2> QED BY <2>1, <2>2
<1>6. p + (Len(s) - p) = Len(s)
  OBVIOUS
<1> QED BY <1>5, <1>6 DEF U

\* The lines that ended before some position are the first lines of the stream, and the
\* line that is open there is the start of the next.
LEMMA LinesOfStream ==
    ASSUME NEW s \in Seq(Byte), NEW p \in 0 .. Len(s),
           NEW done, NEW open, LinesUpTo(s)[p] = <<done, open>>
    PROVE  /\ done \in Seq(Seq(Byte)) /\ open \in Seq(Byte) /\ LinesOf(s) \in Seq(Seq(Byte))
           /\ IsPrefix(done, LinesOf(s))
           /\ open # <<>> => /\ Len(done) < Len(LinesOf(s))
                             /\ IsPrefix(open, LinesOf(s)[Len(done) + 1])
<1> DEFINE w == LinesUpTo(s)[Len(s)]
           all == LinesOf(s)
<1> HIDE DEF w, all
<1>1. Keeps(<<done, open>>, w)
  BY LinesKept DEF w
<1>2. /\ done \in Seq(Seq(Byte)) /\ open \in Seq(Byte)
      /\ w \in Split /\ w[1] \in Seq(Seq(Byte)) /\ w[2] \in Seq(Byte)
  <2>1. Len(s) \in 0 .. Len(s)
    OBVIOUS
  <2>2. <<done, open>> \in Split /\ w \in Split
    BY <2>1, LinesUpToType DEF w
  <2> QED BY <2>2 DEF Split
<1>3. IsPrefix(done, w[1])
  BY <1>1 DEF Keeps
<1>4. open # <<>> => \/ w[1] = done /\ IsPrefix(open, w[2])
                     \/ Len(done) < Len(w[1]) /\ IsPrefix(open, w[1][Len(done) + 1])
  BY <1>1 DEF Keeps
<1>5. CASE w[2] = <<>>
  <2>1. all = w[1]
    BY <1>5 DEF all, w, LinesOf
  <2>2. open # <<>> => ~IsPrefix(open, w[2])
    <3>1. Len(w[2]) = 0 /\ (open # <<>> => Len(open) > 0)
      BY <1>2, <1>5, EmptySeq
    <3> QED BY <1>2, <3>1, PrefixDef
  <2> QED BY <1>2, <1>3, <1>4, <2>1, <2>2 DEF all
<1>6. CASE w[2] # <<>>
  <2>1. all = Append(w[1], w[2])
    BY <1>6 DEF all, w, LinesOf
  <2>2. /\ all \in Seq(Seq(Byte)) /\ Len(all) = Len(w[1]) + 1 /\ all[Len(w[1]) + 1] = w[2]
        /\ \A i \in 1 .. Len(w[1]) : all[i] = w[1][i]
    BY <1>2, <2>1, AppendProperties
  <2>3. IsPrefix(done, all)
    <3>1. IsPrefix(w[1], all)
      BY <1>2, <2>1, PrefixAppend
    <3> QED BY <1>2, <1>3, <2>2, <3>1, PrefixTrans
  <2>4. ASSUME open # <<>> PROVE Len(done) < Len(all) /\ IsPrefix(open, all[Len(done) + 1])
    <3>1. CASE w[1] = done /\ IsPrefix(open, w[2])
      BY <1>2, <2>2, <3>1
    <3>2. CASE Len(done) < Len(w[1]) /\ IsPrefix(open, w[1][Len(done) + 1])
      <4>1. Len(done) + 1 \in 1 .. Len(w[1])
        BY <1>2, <3>2
      <4>2. all[Len(done) + 1] = w[1][Len(done) + 1]
        BY <2>2, <4>1
      <4>3. Len(done) < Len(all)
        BY <1>2, <2>2, <3>2
      <4> QED BY <3>2, <4>2, <4>3
    <3> QED BY <1>4, <2>4, <3>1, <3>2
  <2> QED BY <1>2, <2>2, <2>3, <2>4 DEF all
<1> QED BY <1>5, <1>6

\* After position p of s comes t, which has no line end.
PieceAt(s, p, t) ==
    p + Len(t) <= Len(s) /\ \A i \in 1 .. Len(t) : t[i] = s[p + i] /\ t[i] \notin Ends

\* After p bytes of stream s the lines are done and another is open.
ScanAt(s, p, done, open) == LinesUpTo(s)[p] = <<done, open>>

\* Reading a piece without line ends makes the open line longer.
LEMMA ReadPiece ==
    ASSUME NEW s \in Seq(Byte), NEW p \in Nat, NEW t \in Seq(Byte), PieceAt(s, p, t),
           NEW done \in Seq(Seq(Byte)), NEW open \in Seq(Byte),
           ScanAt(s, p, done, open)
    PROVE  ScanAt(s, p + Len(t), done, open \o t)
<1> USE DEF ScanAt
<1> DEFINE U == LinesUpTo(s)
           T == {k \in Nat : k <= Len(t) => U[p + k] = <<done, open \o SubSeq(t, 1, k)>>}
<1> HIDE DEF U
<1> USE DEF PieceAt
<1>1. \A i \in 1 .. Len(s) : U[i] = Advance(U[i - 1], s[i])
  BY LinesUpToStep DEF U
<1>2. U[p] = <<done, open>>
  BY DEF U
<1>3. 0 \in T
  <2>1. SubSeq(t, 1, 0) = <<>>
    OBVIOUS
  <2>2. open \o <<>> = open
    BY <1>2, ConcatEmptySeq
  <2>3. U[p + 0] = <<done, open \o SubSeq(t, 1, 0)>>
    BY <1>2, <2>1, <2>2
  <2> QED BY <2>3
<1>4. ASSUME NEW k \in Nat, k \in T PROVE k + 1 \in T
  <2> SUFFICES ASSUME k + 1 <= Len(t)
               PROVE  U[p + (k + 1)] = <<done, open \o SubSeq(t, 1, k + 1)>>
    OBVIOUS
  <2> DEFINE a == SubSeq(t, 1, k)
             b == t[k + 1]
  <2>1. a \in Seq(Byte) /\ b \in Byte /\ b \notin Ends /\ b = s[p + (k + 1)]
    OBVIOUS
  <2>2. SubSeq(t, 1, k + 1) = Append(a, b)
    BY SubSeqAppend
  <2>3. U[p + k] = <<done, open \o a>>
    BY <1>4
  <2> HIDE DEF a, b
  <2>4. U[p + (k + 1)] = Advance(U[p + k], b)
    <3>1. p + (k + 1) \in 1 .. Len(s) /\ (p + (k + 1)) - 1 = p + k
      OBVIOUS
    <3> QED BY <1>1, <2>1, <3>1
  <2>5. U[p + (k + 1)] = <<done, Append(open \o a, b)>>
    BY <2>1, <2>3, <2>4 DEF Advance
  <2>6. Append(open \o a, b) = open \o Append(a, b)
    BY <1>2, <2>1, AppendConcat
  <2> QED BY <2>2, <2>5, <2>6
<1>5. Len(t) \in T
  <2>1. \A k \in Nat : k \in T
    <3> HIDE DEF T
    <3> QED BY <1>3, <1>4, SetInduction
  <2> HIDE DEF T
  <2> QED BY <2>1
<1>6. U[p + Len(t)] = <<done, open \o SubSeq(t, 1, Len(t))>>
  BY <1>5
<1>7. SubSeq(t, 1, Len(t)) = t
  BY SubSeqFull
<1> QED BY <1>6, <1>7 DEF U

\* A line end adds the open line to the lines, and a second one nothing.
LEMMA ReadEnd ==
    ASSUME NEW s \in Seq(Byte), NEW p \in Nat, p + 1 <= Len(s), s[p + 1] \in Ends,
           NEW done, NEW open, LinesUpTo(s)[p] = <<done, open>>
    PROVE  LinesUpTo(s)[p + 1] =
             <<IF open = <<>> THEN done ELSE Append(done, open), <<>>>>
<1>1. p + 1 \in 1 .. Len(s) /\ (p + 1) - 1 = p
  OBVIOUS
<1>2. LinesUpTo(s)[p + 1] = Advance(<<done, open>>, s[p + 1])
  BY <1>1, LinesUpToStep
<1> QED BY <1>2 DEF Advance

-----------------------------------------------------------------------------
(* The reader *)

LEMMA FirstEndFacts ==
    ASSUME NEW s \in Seq(Byte)
    PROVE  /\ FirstEnd(s) \in 0 .. Len(s)
           /\ FirstEnd(s) = 0 => \A i \in 1 .. Len(s) : s[i] \notin Ends
           /\ FirstEnd(s) # 0 => /\ s[FirstEnd(s)] \in Ends
                                 /\ \A i \in 1 .. FirstEnd(s) - 1 : s[i] \notin Ends
<1> DEFINE I == {i \in 1 .. Len(s) : s[i] \in Ends}
<1>1. FirstEnd(s) = IF I # {} THEN Min(I) ELSE 0
  BY DEF FirstEnd, SelectInSeq
<1>2. CASE I = {}
  BY <1>1, <1>2
<1>3. CASE I # {}
  <2>1. \E x \in I : \A y \in I : x <= y
    <3>1. I \in SUBSET Nat
      OBVIOUS
    <3> HIDE DEF I
    <3> QED BY <1>3, <3>1, LeastNumber
  <2>2. Min(I) \in I /\ \A y \in I : Min(I) <= y
    <3> HIDE DEF I
    <3> QED BY <2>1 DEF Min
  <2>3. FirstEnd(s) = Min(I)
    BY <1>1, <1>3
  <2> DEFINE f == FirstEnd(s)
  <2> HIDE DEF f
  <2>4. f \in I /\ \A y \in I : f <= y
    <3> HIDE DEF I
    <3> QED BY <2>2, <2>3 DEF f
  <2>5. f \in 1 .. Len(s) /\ s[f] \in Ends /\ \A i \in 1 .. f - 1 : s[i] \notin Ends
    BY <2>4
  <2> QED BY <2>5 DEF f
<1> QED BY <1>2, <1>3

LEMMA UsedFacts ==
    ASSUME NEW s \in Seq(Byte)
    PROVE  /\ Used(s) \in 0 .. Len(s)
           /\ FirstEnd(s) = 0 => Used(s) = Len(s)
           /\ FirstEnd(s) # 0 => \/ Used(s) = FirstEnd(s)
                                 \/ Used(s) = FirstEnd(s) + 1 /\ s[FirstEnd(s) + 1] \in Ends
  BY FirstEndFacts DEF Used, Ends

\* What a read returns is the next part of the stream, and nothing only at its end.
LEMMA FillFacts ==
    ASSUME IncomingTypeOK, RestIsAhead, Len(available) <= BufferSize, NEW s \in Fill
    PROVE  /\ s \in Seq(Byte) /\ Len(s) <= BufferSize
           /\ Pos \in Nat /\ Pos + Len(s) <= Len(stream)
           /\ \A i \in 1 .. Len(s) : s[i] = stream[Pos + i]
           /\ s = <<>> => Pos = Len(stream) /\ available = <<>> /\ wire = <<>>
           /\ available # <<>> => s = available
           /\ available = <<>> => /\ Len(s) <= Len(wire)
                                  /\ \A i \in 1 .. Len(s) : s[i] = wire[i]
<1>1. /\ stream \in Seq(Byte) /\ wire \in Seq(Byte) /\ available \in Seq(Byte)
      /\ BufferSize \in Nat \ {0}
  BY ReaderAssumption DEF IncomingTypeOK
<1>2. Pos \in Nat /\ Pos + Len(available) + Len(wire) = Len(stream)
  BY <1>1 DEF RestIsAhead, Pos
<1>3. CASE available # <<>>
  <2>1. s = available
    BY <1>3 DEF Fill
  <2> QED BY <1>1, <1>2, <1>3, <2>1 DEF RestIsAhead
<1>4. CASE available = <<>> /\ wire # <<>>
  <2>1. PICK k \in 1 .. Min({BufferSize, Len(wire)}) : s = SubSeq(wire, 1, k)
    BY <1>4 DEF Fill
  <2>2. k \in Nat \ {0} /\ k <= BufferSize /\ k <= Len(wire)
    <3>1. Len(wire) \in Nat
      BY <1>1
    <3>2. \E x \in {BufferSize, Len(wire)} : \A y \in {BufferSize, Len(wire)} : x <= y
      BY <1>1, <3>1
    <3>3. /\ Min({BufferSize, Len(wire)}) \in {BufferSize, Len(wire)}
          /\ \A y \in {BufferSize, Len(wire)} : Min({BufferSize, Len(wire)}) <= y
      BY <3>2 DEF Min
    <3> QED BY <1>1, <3>1, <3>3
  <2>3. s \in Seq(Byte) /\ Len(s) = k /\ \A i \in 1 .. k : s[i] = wire[i]
    BY <1>1, <2>1, <2>2
  <2>4. Len(available) = 0 /\ s # <<>>
    BY <1>4, <2>2, <2>3
  <2>5. \A i \in 1 .. Len(wire) : wire[i] = stream[Pos + i]
    BY <1>1, <1>2, <2>4 DEF RestIsAhead
  <2>6. Pos + Len(s) <= Len(stream)
    BY <1>1, <1>2, <2>2, <2>3, <2>4
  <2>7. ASSUME NEW i \in 1 .. Len(s) PROVE s[i] = wire[i] /\ s[i] = stream[Pos + i]
    <3>1. i \in 1 .. k /\ i \in 1 .. Len(wire)
      BY <1>1, <2>2, <2>3
    <3> QED BY <2>3, <2>5, <3>1
  <2> QED BY <1>2, <1>4, <2>2, <2>3, <2>4, <2>6, <2>7
<1>5. CASE available = <<>> /\ wire = <<>>
  <2>1. s = <<>>
    BY <1>5 DEF Fill
  <2>2. Len(available) = 0 /\ Len(wire) = 0 /\ Len(s) = 0 /\ s \in Seq(Byte)
    BY <1>5, <2>1
  <2> QED BY <1>1, <1>2, <1>5, <2>1, <2>2
<1> QED BY <1>3, <1>4, <1>5

\* What a turn of read_line leaves ahead.
LEMMA ReadAhead ==
    ASSUME IncomingTypeOK, RestIsAhead, Len(available) <= BufferSize,
           NEW s \in Fill, read_line(s), UNCHANGED stream
    PROVE  /\ wire' \in Seq(Byte) /\ available' \in Seq(Byte) /\ Len(available') <= BufferSize
           /\ Pos' = Pos + Used(s) /\ Pos' \in Nat /\ Pos' <= Len(stream)
           /\ RestIsAhead'
<1> DEFINE w == IF available = <<>> THEN SubSeq(wire, Len(s) + 1, Len(wire)) ELSE wire
           a == SubSeq(s, Used(s) + 1, Len(s))
<1>1. /\ stream \in Seq(Byte) /\ wire \in Seq(Byte) /\ available \in Seq(Byte)
      /\ BufferSize \in Nat
  BY ReaderAssumption DEF IncomingTypeOK
<1>2. /\ s \in Seq(Byte) /\ Len(s) <= BufferSize
      /\ Pos \in Nat /\ Pos + Len(s) <= Len(stream)
      /\ \A i \in 1 .. Len(s) : s[i] = stream[Pos + i]
      /\ available # <<>> => s = available
      /\ available = <<>> => Len(s) <= Len(wire)
  BY FillFacts
<1>3. Pos + Len(available) + Len(wire) = Len(stream)
  BY <1>1 DEF RestIsAhead, Pos
<1>4. Used(s) \in 0 .. Len(s)
  BY <1>2, UsedFacts
<1>5. wire' = w /\ available' = a
  BY DEF read_line
<1>6. /\ a \in Seq(Byte) /\ Len(a) = Len(s) - Used(s)
      /\ \A i \in 1 .. Len(a) : a[i] = s[Used(s) + i]
  <2> DEFINE m == Used(s) + 1
  <2>1. m \in Nat \ {0} /\ m <= Len(s) + 1 /\ Len(s) \in Nat
    BY <1>2, <1>4
  <2>2. /\ SubSeq(s, m, Len(s)) \in Seq(Byte) /\ Len(SubSeq(s, m, Len(s))) = Len(s) - m + 1
        /\ \A i \in 1 .. Len(s) - m + 1 : SubSeq(s, m, Len(s))[i] = s[m + i - 1]
    <3> HIDE DEF m
    <3> QED BY <1>2, <2>1, Part
  <2>3. a \in Seq(Byte) /\ Len(a) = Len(s) - Used(s)
    BY <1>2, <1>4, <2>2
  <2>4. ASSUME NEW i \in 1 .. Len(s) - Used(s) PROVE a[i] = s[Used(s) + i]
    <3>1. i \in 1 .. Len(s) - m + 1 /\ m + i - 1 = Used(s) + i
      BY <1>2, <1>4
    <3> QED BY <2>2, <3>1
  <2> HIDE DEF a
  <2> QED BY <2>3, <2>4
<1>7. /\ w \in Seq(Byte) /\ Len(w) = Len(stream) - Pos - Len(s)
      /\ \A i \in 1 .. Len(w) : w[i] = stream[Pos + Len(s) + i]
  <2>1. CASE available = <<>>
    <3>1. Len(available) = 0 /\ Len(wire) = Len(stream) - Pos
      BY <1>1, <1>2, <1>3, <2>1
    <3>2. /\ w \in Seq(Byte) /\ Len(w) = Len(wire) - Len(s)
          /\ \A i \in 1 .. Len(w) : w[i] = wire[Len(s) + i]
      BY <1>1, <1>2, <2>1
    <3>3. \A i \in 1 .. Len(wire) : wire[i] = stream[Pos + i]
      BY <1>1, <1>2, <3>1 DEF RestIsAhead
    <3> HIDE DEF w
    <3>4. ASSUME NEW i \in 1 .. Len(w) PROVE w[i] = stream[Pos + Len(s) + i]
      <4>1. Len(s) + i \in 1 .. Len(wire) /\ Pos + (Len(s) + i) = Pos + Len(s) + i
        BY <1>1, <1>2, <3>2
      <4> QED BY <3>2, <3>3, <4>1
    <3> QED BY <1>1, <1>2, <3>1, <3>2, <3>4
  <2>2. CASE available # <<>>
    <3>1. w = wire /\ s = available
      BY <1>2, <2>2
    <3>2. Len(wire) = Len(stream) - Pos - Len(available)
      BY <1>1, <1>2, <1>3
    <3>3. \A i \in 1 .. Len(wire) : wire[i] = stream[Pos + Len(available) + i]
      BY DEF RestIsAhead
    <3> HIDE DEF w
    <3> QED BY <1>1, <3>1, <3>2, <3>3
  <2> QED BY <2>1, <2>2
<1> HIDE DEF a, w
<1>8. Pos' = Pos + Used(s)
  <2>1. Pos' = Len(stream) - Len(a) - Len(w)
    BY <1>5 DEF Pos, read_line
  <2>2. Len(s) \in Nat /\ Len(stream) \in Nat /\ Pos \in Nat /\ Used(s) \in Nat
    BY <1>1, <1>2, <1>4
  <2>3. Len(a) = Len(s) - Used(s) /\ Len(w) = Len(stream) - Pos - Len(s)
    BY <1>6, <1>7
  <2> QED BY <2>1, <2>2, <2>3
<1>9. RestIsAhead'
  <2>1. Len(available') + Len(wire') <= Len(stream')
    BY <1>1, <1>2, <1>4, <1>5, <1>6, <1>7
  <2>2. ASSUME NEW i \in 1 .. Len(a) PROVE a[i] = stream[Pos + Used(s) + i]
    <3>1. Used(s) + i \in 1 .. Len(s) /\ Pos + (Used(s) + i) = Pos + Used(s) + i
      BY <1>2, <1>4, <1>6
    <3> QED BY <1>2, <1>6, <3>1
  <2>3. Pos + Used(s) + Len(a) = Pos + Len(s)
    BY <1>2, <1>4, <1>6
  <2> QED BY <1>5, <1>7, <1>8, <2>1, <2>2, <2>3 DEF RestIsAhead
<1> QED BY <1>1, <1>2, <1>4, <1>5, <1>6, <1>7, <1>8, <1>9

\* A turn that finds no line end keeps the reader in step with the lines of the stream.
LEMMA ReadPart ==
    ASSUME IncomingTypeOK, RestIsAhead, Len(available) <= BufferSize,
           NEW s \in Fill, read_line(s), FirstEnd(s) = 0,
           LinesUpTo(stream)[Pos] = <<handled, bytes>>
    PROVE  LinesUpTo(stream)[Pos + Used(s)] = <<handled, bytes'>>
<1>1. /\ s \in Seq(Byte) /\ Pos \in Nat /\ Pos + Len(s) <= Len(stream) /\ stream \in Seq(Byte)
      /\ \A i \in 1 .. Len(s) : s[i] = stream[Pos + i]
  BY FillFacts DEF IncomingTypeOK
<1>2. bytes \in Seq(Byte) /\ handled \in Seq(Seq(Byte))
  BY DEF IncomingTypeOK
<1>3. Used(s) = Len(s) /\ \A i \in 1 .. Len(s) : s[i] \notin Ends
  BY <1>1, UsedFacts, FirstEndFacts
<1>4. bytes' = bytes \o s
  BY DEF read_line
<1> DEFINE p == Pos
<1>5. p \in Nat /\ LinesUpTo(stream)[p] = <<handled, bytes>> /\ p + Len(s) <= Len(stream)
  BY <1>1
<1>6. PieceAt(stream, p, s)
  BY <1>1, <1>3 DEF PieceAt
<1> HIDE DEF p
<1>7. LinesUpTo(stream)[p + Len(s)] = <<handled, bytes \o s>>
  <2>1. stream \in Seq(Byte) /\ p \in Nat /\ s \in Seq(Byte)
    BY <1>1, <1>5
  <2>2. LinesUpTo(stream)[p] = <<handled, bytes>>
    BY <1>5
  <2>3. ScanAt(stream, p, handled, bytes)
    BY <2>2 DEF ScanAt
  <2>4. ScanAt(stream, p + Len(s), handled, bytes \o s)
    BY <1>2, <1>6, <2>1, <2>3, ReadPiece
  <2> QED BY <2>4 DEF ScanAt
<1> QED BY <1>3, <1>4, <1>7 DEF p

\* The lines after a line has been handled.
WithLine(line) == IF Content(line) = <<>> THEN handled ELSE Append(handled, Content(line))

\* A turn that finds one ends the open line, and skips a LF that ends nothing.
LEMMA ReadLine ==
    ASSUME IncomingTypeOK, RestIsAhead, Len(available) <= BufferSize,
           NEW s \in Fill, read_line(s), FirstEnd(s) # 0,
           LinesUpTo(stream)[Pos] = <<handled, bytes>>
    PROVE  LinesUpTo(stream)[Pos + Used(s)] = <<WithLine(bytes'), <<>>>>
<1> DEFINE pos == Pos
           f == FirstEnd(s)
           piece == SubSeq(s, 1, f - 1)
<1>0. LinesUpTo(stream)[pos] = <<handled, bytes>>
  OBVIOUS
<1> HIDE DEF pos, f
<1>1. /\ s \in Seq(Byte) /\ pos \in Nat /\ pos + Len(s) <= Len(stream)
      /\ stream \in Seq(Byte) /\ bytes \in Seq(Byte)
      /\ \A i \in 1 .. Len(s) : s[i] = stream[pos + i]
  BY FillFacts DEF IncomingTypeOK, pos
<1>2. /\ f \in 1 .. Len(s) /\ s[f] \in Ends
      /\ \A i \in 1 .. f - 1 : s[i] \notin Ends
      /\ Used(s) = f \/ (Used(s) = f + 1 /\ s[f + 1] \in Ends)
      /\ Used(s) \in 0 .. Len(s)
  BY <1>1, FirstEndFacts, UsedFacts DEF f
<1>3. /\ piece \in Seq(Byte) /\ Len(piece) = f - 1
      /\ \A i \in 1 .. Len(piece) : piece[i] = s[i]
      /\ \A i \in 1 .. Len(piece) : piece[i] = stream[pos + i] /\ piece[i] \notin Ends
  <2> DEFINE k == f - 1
  <2>1. k \in Nat /\ 1 \in Nat \ {0} /\ 1 <= k + 1 /\ k <= Len(s)
    BY <1>1, <1>2
  <2>2. /\ SubSeq(s, 1, k) \in Seq(Byte) /\ Len(SubSeq(s, 1, k)) = k - 1 + 1
        /\ \A i \in 1 .. k - 1 + 1 : SubSeq(s, 1, k)[i] = s[1 + i - 1]
    <3> HIDE DEF k
    <3> QED BY <1>1, <2>1, Part
  <2>3. piece \in Seq(Byte) /\ Len(piece) = f - 1 /\ \A i \in 1 .. Len(piece) : piece[i] = s[i]
    BY <1>1, <1>2, <2>2
  <2> HIDE DEF piece
  <2>4. ASSUME NEW i \in 1 .. Len(piece) PROVE piece[i] = stream[pos + i] /\ piece[i] \notin Ends
    <3>1. i \in 1 .. f - 1 /\ i \in 1 .. Len(s) /\ piece[i] = s[i]
      BY <1>1, <1>2, <2>3
    <3> QED BY <1>1, <1>2, <3>1
  <2> QED BY <2>3, <2>4
<1>4. bytes \o piece \in Seq(Byte) /\ Content(bytes') = bytes \o piece
  <2>1. bytes' = bytes \o SubSeq(s, 1, f)
    BY DEF read_line, f
  <2>2. f - 1 \in Nat /\ (f - 1) + 1 = f /\ f <= Len(s) /\ s[f] \in Byte
    BY <1>1, <1>2
  <2>3. SubSeq(s, 1, f) = Append(piece, s[f])
    <3> DEFINE k == f - 1
    <3>1. k \in Nat /\ k + 1 = f /\ k + 1 <= Len(s)
      BY <2>2
    <3> HIDE DEF k
    <3>2. SubSeq(s, 1, k + 1) = Append(SubSeq(s, 1, k), s[k + 1])
      BY <1>1, <3>1, SubSeqAppend
    <3> QED BY <3>1, <3>2 DEF k
  <2> HIDE DEF piece
  <2>4. bytes' = Append(bytes \o piece, s[f])
    <3>1. bytes \in Seq(Byte) /\ piece \in Seq(Byte) /\ s[f] \in Byte
      BY <1>1, <1>3, <2>2
    <3>2. Append(bytes \o piece, s[f]) = bytes \o Append(piece, s[f])
      BY <3>1, AppendConcat
    <3> QED BY <2>1, <2>3, <3>2
  <2>5. bytes \o piece \in Seq(Byte)
    BY <1>1, <1>3, ConcatProperties
  <2> DEFINE y == bytes \o piece
  <2> HIDE DEF y
  <2>6. Content(Append(y, s[f])) = y
    BY <1>2, <2>2, <2>5, ContentAppend DEF y
  <2> QED BY <2>4, <2>5, <2>6 DEF y
<1> HIDE DEF piece
<1>5. LinesUpTo(stream)[pos + Len(piece)] = <<handled, bytes \o piece>>
  <2>1. pos + Len(piece) <= Len(stream)
    BY <1>1, <1>2, <1>3
  <2>2. handled \in Seq(Seq(Byte))
    BY DEF IncomingTypeOK
  <2>3. stream \in Seq(Byte) /\ pos \in Nat /\ bytes \in Seq(Byte) /\ piece \in Seq(Byte)
    BY <1>1, <1>3
  <2>4. PieceAt(stream, pos, piece)
    BY <1>3, <2>1 DEF PieceAt
  <2>5. ScanAt(stream, pos, handled, bytes)
    BY <1>0 DEF ScanAt
  <2>6. ScanAt(stream, pos + Len(piece), handled, bytes \o piece)
    BY <2>2, <2>3, <2>4, <2>5, ReadPiece
  <2> QED BY <2>6 DEF ScanAt
<1>6. LinesUpTo(stream)[pos + f] = <<WithLine(bytes'), <<>>>>
  <2> DEFINE q == pos + Len(piece)
             o == bytes \o piece
  <2>1. q \in Nat /\ q + 1 = pos + f /\ q + 1 <= Len(stream) /\ stream[q + 1] \in Ends
    BY <1>1, <1>2, <1>3
  <2>2. LinesUpTo(stream)[q] = <<handled, o>>
    BY <1>5
  <2> HIDE DEF q, o
  <2>3. LinesUpTo(stream)[q + 1] = <<IF o = <<>> THEN handled ELSE Append(handled, o), <<>>>>
    <3>1. q + 1 <= Len(stream) /\ q \in Nat
      BY <2>1
    <3> QED BY <1>1, <2>1, <2>2, <3>1, ReadEnd
  <2>4. WithLine(bytes') = IF o = <<>> THEN handled ELSE Append(handled, o)
    BY <1>4 DEF WithLine, o
  <2> QED BY <2>1, <2>3, <2>4
<1>7. CASE Used(s) = f
  BY <1>6, <1>7 DEF pos
<1>8. CASE Used(s) = f + 1 /\ s[f + 1] \in Ends
  <2> DEFINE q == pos + f
  <2>1. q \in Nat /\ q + 1 = pos + Used(s) /\ q + 1 <= Len(stream) /\ stream[q + 1] \in Ends
    <3>1. /\ pos \in Nat /\ f \in Nat /\ Len(s) \in Nat /\ Len(stream) \in Nat
          /\ Used(s) = f + 1 /\ Used(s) <= Len(s) /\ pos + Len(s) <= Len(stream)
      BY <1>1, <1>2, <1>8
    <3>2. f + 1 \in 1 .. Len(s) /\ pos + (f + 1) = (pos + f) + 1
      BY <3>1
    <3>3. s[f + 1] = stream[(pos + f) + 1]
      BY <1>1, <3>2
    <3> QED BY <1>8, <3>1, <3>3
  <2> HIDE DEF q
  <2>2. LinesUpTo(stream)[q] = <<WithLine(bytes'), <<>>>>
    BY <1>6 DEF q
  <2>3. LinesUpTo(stream)[q + 1] = <<WithLine(bytes'), <<>>>>
    BY <1>1, <2>1, <2>2, ReadEnd
  <2> QED BY <2>1, <2>3 DEF pos
<1> QED BY <1>2, <1>7, <1>8

LEMMA LimitFacts ==
    ASSUME NEW b
    PROVE  Limit(b) \in Nat \ {0} /\ Limit(b) <= MessageMax + MaxTagLength
  BY ReaderAssumption DEF Limit

\* A turn of read_line stays within the bounds, since a line that has reached its limit is
\* refused before more is read; a turn without line end leaves the line open.
LEMMA ReadTurn ==
    ASSUME IncomingTypeOK, ReaderInv, phase = "read",
           NEW s \in Fill, read_line(s), UNCHANGED stream
    PROVE  /\ bytes' \in Seq(Byte) /\ n' \in [read : Nat, limit : Nat, count : Nat]
           /\ n'.read = n.read + Used(s)
           /\ ReaderBounded'
           /\ FirstEnd(s) = 0 /\ s # <<>> => LineIsOpen'
<1>1. /\ bytes \in Seq(Byte) /\ n \in [read : Nat, limit : Nat, count : Nat]
      /\ LineIsOpen /\ RestIsAhead /\ Len(available) <= BufferSize
  BY DEF IncomingTypeOK, ReaderInv, ReaderBounded
<1>2. /\ s \in Seq(Byte) /\ Len(s) <= BufferSize
      /\ Used(s) \in 0 .. Len(s) /\ FirstEnd(s) \in 0 .. Len(s)
      /\ FirstEnd(s) = 0 => Used(s) = Len(s)
      /\ FirstEnd(s) # 0 => FirstEnd(s) <= Used(s)
      /\ s # <<>> => Len(s) \in Nat \ {0}
      /\ s = <<>> => Len(s) = 0
  <2>1. s \in Seq(Byte) /\ Len(s) <= BufferSize
    BY <1>1, FillFacts
  <2>2. /\ Used(s) \in 0 .. Len(s) /\ FirstEnd(s) \in 0 .. Len(s)
        /\ FirstEnd(s) = 0 => Used(s) = Len(s)
    BY <2>1, UsedFacts, FirstEndFacts
  <2>3. FirstEnd(s) # 0 => FirstEnd(s) <= Used(s)
    BY <2>1, <2>2, UsedFacts
  <2>4. (s # <<>> => Len(s) \in Nat \ {0}) /\ (s = <<>> => Len(s) = 0)
    BY <2>1, EmptySeq
  <2> QED BY <2>1, <2>2, <2>3, <2>4
<1>3. /\ MessageMax \in Nat \ {0} /\ MaxTagLength \in Nat
      /\ MaxReadPerMessage \in Nat \ {0} /\ BufferSize \in Nat \ {0}
  BY ReaderAssumption
<1> DEFINE more == IF FirstEnd(s) = 0 THEN s ELSE SubSeq(s, 1, FirstEnd(s))
<1>4. more \in Seq(Byte) /\ Len(more) <= Used(s)
  <2>1. CASE FirstEnd(s) = 0
    BY <1>2, <2>1
  <2>2. CASE FirstEnd(s) # 0
    <3> DEFINE f == FirstEnd(s)
    <3>1. f \in Nat /\ 1 \in Nat \ {0} /\ 1 <= f + 1 /\ f <= Len(s) /\ f <= Used(s)
      BY <1>2, <2>2
    <3> HIDE DEF f
    <3>2. SubSeq(s, 1, f) \in Seq(Byte) /\ Len(SubSeq(s, 1, f)) = f - 1 + 1
      BY <1>2, <3>1, Part
    <3> QED BY <2>2, <3>1, <3>2 DEF f
  <2> QED BY <2>1, <2>2
<1>5. /\ bytes' = bytes \o more
      /\ n' = [read |-> n.read + Used(s), limit |-> LimitOf(s),
               count |-> n.count + IF Done(s) THEN 0 ELSE 1]
      /\ n.count < MaxReadPerMessage /\ ~TooLong
  BY <1>1, <1>3 DEF read_line, Abuse
<1>6. n.read \in Nat /\ n.limit \in Nat /\ n.count \in Nat
  BY <1>1
<1>7. LimitOf(s) \in Nat
  BY <1>6, LimitFacts DEF LimitOf
<1> HIDE DEF more
<1>8. bytes' \in Seq(Byte) /\ Len(bytes') = Len(bytes) + Len(more)
  BY <1>1, <1>4, <1>5
<1>9. /\ n'.read = n.read + Used(s) /\ n'.limit = LimitOf(s)
      /\ n'.count = n.count + IF Done(s) THEN 0 ELSE 1
      /\ n'.read \in Nat /\ n'.limit \in Nat /\ n'.count \in Nat
  BY <1>2, <1>5, <1>6, <1>7
<1>10. n' \in [read : Nat, limit : Nat, count : Nat]
  BY <1>2, <1>5, <1>6, <1>7
<1>11. n.read = Len(bytes) /\ n.count <= Len(bytes)
       /\ n.limit = IF bytes = <<>> THEN 0 ELSE Limit(bytes[1])
  BY <1>1 DEF LineIsOpen
<1>12. n.read <= MessageMax + MaxTagLength - 1
  <2>1. CASE bytes = <<>>
    BY <1>3, <1>11, <2>1
  <2>2. CASE bytes # <<>>
    <3>1. n.limit = Limit(bytes[1]) /\ 0 < n.limit /\ n.limit <= MessageMax + MaxTagLength
      BY <1>11, <2>2, LimitFacts
    <3>2. n.read < n.limit
      BY <1>5, <1>6, <3>1 DEF TooLong
    <3> QED BY <1>3, <1>6, <3>1, <3>2
  <2> QED BY <2>1, <2>2
<1>13. ReaderBounded'
  <2>1. n'.count <= MaxReadPerMessage
    BY <1>3, <1>5, <1>6, <1>9
  <2>2. n'.read <= MessageMax + MaxTagLength - 1 + BufferSize
    BY <1>2, <1>3, <1>6, <1>9, <1>12
  <2>3. Len(bytes') <= n'.read
    BY <1>1, <1>2, <1>4, <1>8, <1>9, <1>11
  <2>4. Len(available') <= BufferSize
    BY <1>1, ReadAhead
  <2> QED BY <2>1, <2>2, <2>3, <2>4 DEF ReaderBounded
<1>14. ASSUME FirstEnd(s) = 0, s # <<>> PROVE LineIsOpen'
  <2>1. more = s /\ Used(s) = Len(s) /\ Len(s) > 0 /\ ~Done(s)
    BY <1>2, <1>14 DEF more, Done
  <2>2. \A i \in 1 .. Len(s) : s[i] \notin Ends
    BY <1>2, <1>14, FirstEndFacts
  <2>3. \A i \in 1 .. Len(bytes) : bytes[i] \notin Ends
    BY <1>1 DEF LineIsOpen
  <2>4. bytes' = bytes \o s
    BY <1>5, <2>1
  <2>5. ASSUME NEW i \in 1 .. Len(bytes') PROVE bytes'[i] \notin Ends
    <3>1. CASE i <= Len(bytes)
      <4>1. bytes'[i] = bytes[i] /\ i \in 1 .. Len(bytes)
        BY <1>1, <1>2, <1>8, <2>1, <2>4, <3>1
      <4> QED BY <2>3, <4>1
    <3>2. CASE i > Len(bytes)
      <4>1. bytes'[i] = s[i - Len(bytes)] /\ i - Len(bytes) \in 1 .. Len(s)
        BY <1>1, <1>2, <1>8, <2>1, <2>4, <3>2
      <4> QED BY <2>2, <4>1
    <3> QED BY <1>1, <3>1, <3>2
  <2>6. n'.read = Len(bytes') /\ n'.count <= Len(bytes')
    BY <1>1, <1>2, <1>6, <1>8, <1>9, <1>11, <2>1
  <2>7. n'.limit = IF bytes' = <<>> THEN 0 ELSE Limit(bytes'[1])
    <3>1. bytes' # <<>>
      BY <1>1, <1>8, <2>1
    <3>2. CASE bytes = <<>>
      <4>1. n.limit = 0 /\ bytes' = s
        BY <1>2, <1>11, <2>4, <3>2, ConcatEmptySeq
      <4>2. n'.limit = Limit(s[1])
        BY <1>9, <1>14, <4>1 DEF LimitOf
      <4> QED BY <3>1, <4>1, <4>2
    <3>3. CASE bytes # <<>>
      <4>1. n.limit = Limit(bytes[1]) /\ n.limit # 0
        BY <1>11, <3>3, LimitFacts
      <4>2. n'.limit = n.limit
        BY <1>9, <4>1 DEF LimitOf
      <4>3. bytes'[1] = bytes[1]
        BY <1>1, <1>2, <2>4, <3>3
      <4> QED BY <3>1, <4>1, <4>2, <4>3
    <3> QED BY <3>2, <3>3
  <2> QED BY <2>5, <2>6, <2>7 DEF LineIsOpen
<1> QED BY <1>8, <1>9, <1>10, <1>13, <1>14

\* Content leaves an open line as it is.
LEMMA ContentOpen ==
    ASSUME NEW b \in Seq(Byte), \A i \in 1 .. Len(b) : b[i] \notin Ends
    PROVE  Content(b) = b
<1>1. b # <<>> => Len(b) \in 1 .. Len(b)
  BY EmptySeq
<1> QED BY <1>1 DEF Content, Last

LEMMA ContentType ==
    ASSUME NEW b \in Seq(Byte)
    PROVE  Content(b) \in Seq(Byte)
<1>1. CASE b # <<>>
  <2> DEFINE k == Len(b) - 1
  <2>1. k \in Nat /\ k <= Len(b) /\ 1 <= k + 1 /\ 1 \in Nat \ {0}
    BY <1>1, EmptySeq
  <2> HIDE DEF k
  <2>2. SubSeq(b, 1, k) \in Seq(Byte)
    BY <2>1, Part
  <2> QED BY <2>2 DEF Content, Front, k
<1>2. CASE b = <<>>
  BY <1>2 DEF Content
<1> QED BY <1>1, <1>2

LEMMA ReadPartInv ==
    ASSUME IncomingTypeOK, ReaderInv, read_part
    PROVE  IncomingTypeOK' /\ ReaderInv'
<1>1. PICK s \in Fill : ~Done(s) /\ read_line(s)
  BY DEF read_part
<1>2. phase = "read" /\ UNCHANGED branchVars
  BY DEF read_part
<1>3. UNCHANGED <<phase, rb, labelled, stream, handled>>
  BY <1>2 DEF branchVars
<1>4. FirstEnd(s) = 0 /\ s # <<>>
  BY <1>1 DEF Done
<1>5. RestIsAhead /\ Len(available) <= BufferSize
  BY DEF ReaderInv, ReaderBounded
<1>6. /\ wire' \in Seq(Byte) /\ available' \in Seq(Byte)
      /\ Pos' = Pos + Used(s) /\ RestIsAhead'
  BY <1>1, <1>3, <1>5, ReadAhead
<1>7. /\ bytes' \in Seq(Byte) /\ n' \in [read : Nat, limit : Nat, count : Nat]
      /\ ReaderBounded' /\ LineIsOpen'
  BY <1>1, <1>2, <1>3, <1>4, ReadTurn
<1>8. IncomingTypeOK'
  <2>1. closed' = closed
    BY <1>1 DEF read_line
  <2> QED BY <1>3, <1>6, <1>7, <2>1 DEF IncomingTypeOK
<1>9. InStep'
  <2>1. LinesUpTo(stream)[Pos] = <<handled, bytes>>
    <3>1. Pos \in Nat /\ Pos + Len(s) <= Len(stream) /\ Len(s) \in Nat \ {0} /\ stream \in Seq(Byte)
      BY <1>1, <1>4, <1>5, FillFacts, EmptySeq DEF IncomingTypeOK
    <3>2. Pos # Len(stream)
      BY <3>1
    <3> QED BY <1>2, <3>2 DEF ReaderInv, InStep
  <2>2. LinesUpTo(stream)[Pos + Used(s)] = <<handled, bytes'>>
    BY <1>1, <1>4, <1>5, <2>1, ReadPart
  <2>3. LinesUpTo(stream')[Pos'] = <<handled', bytes'>> /\ phase' = "read"
    BY <1>2, <1>3, <1>6, <2>2
  <2> QED BY <2>3 DEF InStep
<1>10. LinesHandledInOrder'
  BY <1>3 DEF ReaderInv, LinesHandledInOrder
<1> QED BY <1>6, <1>7, <1>8, <1>9, <1>10 DEF ReaderInv

LEMMA ReadMessageInv ==
    ASSUME IncomingTypeOK, ReaderInv, read_message
    PROVE  IncomingTypeOK' /\ ReaderInv'
<1>1. PICK s \in Fill : Done(s) /\ read_line(s)
  BY DEF read_message
<1>2. /\ phase = "read" /\ n'.read # 0 /\ phase' = "handle" /\ stream' = stream
      /\ labelled' \in IF IsPrefix(<<"@">>, bytes') THEN BOOLEAN ELSE {FALSE}
      /\ rb' = ReplyBuffer_new(labelled')
      /\ handled' = WithLine(bytes')
  BY DEF read_message, WithLine
<1>3. RestIsAhead /\ Len(available) <= BufferSize
  BY DEF ReaderInv, ReaderBounded
<1>4. /\ stream \in Seq(Byte) /\ bytes \in Seq(Byte) /\ handled \in Seq(Seq(Byte))
      /\ n \in [read : Nat, limit : Nat, count : Nat]
  BY DEF IncomingTypeOK
<1>5. /\ wire' \in Seq(Byte) /\ available' \in Seq(Byte) /\ RestIsAhead'
      /\ Pos' = Pos + Used(s) /\ Pos' \in Nat /\ Pos' <= Len(stream)
  BY <1>1, <1>2, <1>3, ReadAhead
<1>6. /\ bytes' \in Seq(Byte) /\ n' \in [read : Nat, limit : Nat, count : Nat]
      /\ n'.read = n.read + Used(s) /\ ReaderBounded'
  BY <1>1, <1>2, ReadTurn
<1>7. /\ s \in Seq(Byte) /\ Pos \in Nat /\ Pos + Len(s) <= Len(stream)
      /\ s = <<>> => Pos = Len(stream)
  BY <1>1, <1>3, FillFacts
<1>8. InStep' /\ LinesHandledInOrder'
  <2>1. CASE FirstEnd(s) # 0
    <3>1. LinesUpTo(stream)[Pos] = <<handled, bytes>>
      <4>1. Len(s) \in Nat \ {0}
        BY <1>7, <2>1, FirstEndFacts
      <4>2. Pos # Len(stream)
        BY <1>4, <1>7, <4>1
      <4> QED BY <1>2, <4>2 DEF ReaderInv, InStep
    <3>2. LinesUpTo(stream)[Pos + Used(s)] = <<WithLine(bytes'), <<>>>>
      BY <1>1, <1>3, <2>1, <3>1, ReadLine
    <3> DEFINE q == Pos'
    <3>3. q \in 0 .. Len(stream) /\ LinesUpTo(stream)[q] = <<handled', <<>>>>
      BY <1>2, <1>4, <1>5, <3>2
    <3>4. InStep'
      BY <1>2, <3>3 DEF InStep
    <3> HIDE DEF q
    <3>5. IsPrefix(handled', LinesOf(stream))
      BY <1>4, <3>3, LinesOfStream
    <3> QED BY <1>2, <3>4, <3>5 DEF LinesHandledInOrder
  <2>2. CASE FirstEnd(s) = 0
    <3>1. s = <<>> /\ Pos = Len(stream) /\ Len(s) = 0
      BY <1>1, <1>7, <2>2 DEF Done
    <3>2. Used(s) = 0 /\ Pos' = Len(stream)
      <4>1. Used(s) = 0
        BY <1>7, <2>2, <3>1, UsedFacts
      <4> QED BY <1>5, <1>7, <3>1, <4>1
    <3>3. InStep'
      BY <1>2, <3>2 DEF InStep
    <3>4. n.read = Len(bytes) /\ \A i \in 1 .. Len(bytes) : bytes[i] \notin Ends
      BY <1>2 DEF ReaderInv, LineIsOpen
    <3>5. bytes # <<>>
      <4>1. n.read # 0
        BY <1>2, <1>4, <1>6, <3>2
      <4> QED BY <3>4, <4>1
    <3>6. LinesUpTo(stream)[Len(stream)] = <<handled, bytes>>
      BY <1>2, <3>1, <3>5 DEF ReaderInv, InStep
    <3>7. bytes' = bytes
      <4>1. bytes' = bytes \o <<>>
        BY <1>1, <2>2, <3>1 DEF read_line
      <4> QED BY <1>4, <4>1, ConcatEmptySeq
    <3>8. handled' = Append(handled, bytes)
      BY <1>2, <1>4, <3>4, <3>5, <3>7, ContentOpen DEF WithLine
    <3>9. LinesOf(stream) = Append(handled, bytes)
      BY <3>5, <3>6 DEF LinesOf
    <3>10. Append(handled, bytes) \in Seq(Seq(Byte))
      BY <1>4, AppendProperties
    <3>11. IsPrefix(handled', LinesOf(stream))
      BY <3>8, <3>9, <3>10, PrefixSelf
    <3> QED BY <1>2, <3>3, <3>11 DEF LinesHandledInOrder
  <2> QED BY <2>1, <2>2
<1>9. IncomingTypeOK'
  <2>1. closed' \in BOOLEAN
    BY <1>1 DEF read_line, IncomingTypeOK
  <2>2. labelled' \in BOOLEAN
    BY <1>2
  <2>3. rb' \in [buf : Seq(Reply), batch : {NoBatch, 0}, has_label : BOOLEAN]
    <3>1. <<>> \in Seq(Reply)
      BY EmptySeq
    <3> QED BY <1>2, <2>2, <3>1 DEF ReplyBuffer_new
  <2>4. handled' \in Seq(Seq(Byte))
    <3>1. Content(bytes') \in Seq(Byte)
      BY <1>6, ContentType
    <3>2. Append(handled, Content(bytes')) \in Seq(Seq(Byte))
      BY <1>4, <3>1, AppendProperties
    <3> QED BY <1>2, <1>4, <3>2 DEF WithLine
  <2> QED BY <1>2, <1>4, <1>5, <1>6, <2>1, <2>2, <2>3, <2>4 DEF IncomingTypeOK
<1> QED BY <1>2, <1>5, <1>6, <1>8, <1>9 DEF ReaderInv

LEMMA ReadFailsInv ==
    ASSUME IncomingTypeOK, ReaderInv, read_fails
    PROVE  IncomingTypeOK' /\ ReaderInv'
<1>1. PICK s \in Fill : Done(s) /\ read_line(s)
  BY DEF read_fails
<1>2. /\ phase = "read" /\ phase' = "ended"
      /\ UNCHANGED <<rb, labelled, stream, handled>>
  BY DEF read_fails
<1>3. RestIsAhead /\ Len(available) <= BufferSize
  BY DEF ReaderInv, ReaderBounded
<1>4. wire' \in Seq(Byte) /\ available' \in Seq(Byte) /\ RestIsAhead'
  BY <1>1, <1>2, <1>3, ReadAhead
<1>5. bytes' \in Seq(Byte) /\ n' \in [read : Nat, limit : Nat, count : Nat] /\ ReaderBounded'
  BY <1>1, <1>2, ReadTurn
<1>6. IncomingTypeOK'
  <2>1. closed' = closed
    BY <1>1 DEF read_line
  <2> QED BY <1>2, <1>4, <1>5, <2>1 DEF IncomingTypeOK
<1>7. InStep' /\ LinesHandledInOrder'
  BY <1>2 DEF ReaderInv, InStep, LinesHandledInOrder
<1> QED BY <1>2, <1>4, <1>5, <1>6, <1>7 DEF ReaderInv

\* The next line starts where the last one ended.
LEMMA NextLineInv ==
    ASSUME ReaderInv, phase \in {"handle", "send"}, phase' = "read", next_line,
           UNCHANGED <<wire, available, stream, handled>>
    PROVE  ReaderInv'
<1>1. bytes' = <<>> /\ n' = NewRead /\ n'.read = 0 /\ n'.limit = 0 /\ n'.count = 0 /\ Len(bytes') = 0
  BY DEF next_line, NewRead
<1>2. RestIsAhead' /\ Pos' = Pos
  BY DEF ReaderInv, RestIsAhead, Pos
<1>3. LineIsOpen'
  BY <1>1 DEF LineIsOpen
<1>4. ReaderBounded'
  BY <1>1, ReaderAssumption DEF ReaderInv, ReaderBounded
<1>5. InStep'
  BY <1>1, <1>2 DEF ReaderInv, InStep
<1>6. LinesHandledInOrder'
  BY DEF ReaderInv, LinesHandledInOrder
<1> QED BY <1>2, <1>3, <1>4, <1>5, <1>6 DEF ReaderInv

\* Steps that leave the reader alone, and either its phase or what the phase says of it.
LEMMA ReaderIdle ==
    ASSUME ReaderInv, UNCHANGED <<wire, available, bytes, n, stream, handled>>,
           phase' = phase \/ phase' = "ended" \/ (phase = "handle" /\ phase' = "send")
    PROVE  ReaderInv'
<1>1. RestIsAhead' /\ Pos' = Pos
  BY DEF ReaderInv, RestIsAhead, Pos
<1>2. ReaderBounded' /\ LinesHandledInOrder'
  BY DEF ReaderInv, ReaderBounded, LinesHandledInOrder
<1>3. phase' = "read" => LineIsOpen'
  BY DEF ReaderInv, LineIsOpen
<1>4. InStep'
  BY <1>1 DEF ReaderInv, InStep
<1> QED BY <1>1, <1>2, <1>3, <1>4 DEF ReaderInv

-----------------------------------------------------------------------------
(* The replies *)

ReplyBuffers == [buf : Seq(Reply), batch : {NoBatch, 0}, has_label : BOOLEAN]

LEMMA BatchFacts == NoBatch # 0
  BY BatchAssumption

LEMMA NewBuffer ==
    ASSUME NEW b \in BOOLEAN
    PROVE  /\ ReplyBuffer_new(b) \in ReplyBuffers
           /\ ReplyBuffer_new(b).buf = <<>> /\ ReplyBuffer_new(b).batch = NoBatch
           /\ ReplyBuffer_new(b).has_label <=> b
<1>1. <<>> \in Seq(Reply)
  BY EmptySeq
<1>2. ReplyBuffer_new(b) \in ReplyBuffers
  BY <1>1 DEF ReplyBuffer_new, ReplyBuffers
<1>3. ReplyBuffer_new(b).has_label = b
  BY DEF ReplyBuffer_new
<1> QED BY <1>2, <1>3 DEF ReplyBuffer_new

\* A message that is written is the last, has the label that is left and the open batch,
\* and leaves no label.
LEMMA TaggedMessage ==
    ASSUME NEW r \in ReplyBuffers, NEW kind \in {"reply", "BATCH+", "BATCH-", "ACK"}
    PROVE  LET t == tagged_message(r, kind)
               l == Len(r.buf) + 1
           IN  /\ t \in ReplyBuffers /\ t.batch = r.batch /\ ~t.has_label
               /\ Len(t.buf) = l /\ \A i \in 1 .. Len(r.buf) : t.buf[i] = r.buf[i]
               /\ t.buf[l].kind = kind /\ t.buf[l].batch = r.batch
               /\ t.buf[l].label <=> r.has_label
<1> DEFINE t == tagged_message(r, kind)
           m == [kind |-> kind, label |-> r.has_label, batch |-> r.batch]
<1>1. r.buf \in Seq(Reply) /\ r.batch \in {NoBatch, 0} /\ r.has_label \in BOOLEAN
  BY DEF ReplyBuffers
<1>2. m \in Reply
  BY <1>1 DEF Reply
<1>3. m.kind = kind /\ m.batch = r.batch /\ m.label = r.has_label
  OBVIOUS
<1>4. t = [r EXCEPT !.buf = Append(@, m), !.has_label = FALSE]
  BY DEF tagged_message
<1> HIDE DEF m, t
<1>5. Append(r.buf, m) \in Seq(Reply) /\ Len(Append(r.buf, m)) = Len(r.buf) + 1
      /\ Append(r.buf, m)[Len(r.buf) + 1] = m
      /\ \A i \in 1 .. Len(r.buf) : Append(r.buf, m)[i] = r.buf[i]
  BY <1>1, <1>2, AppendProperties
<1>6. t.buf = Append(r.buf, m) /\ t.batch = r.batch /\ ~t.has_label
  BY <1>4 DEF ReplyBuffers
<1>7. t \in ReplyBuffers
  BY <1>1, <1>4, <1>5 DEF ReplyBuffers
<1>8. t.buf[Len(r.buf) + 1].label <=> r.has_label
  BY <1>3, <1>5, <1>6
<1> QED BY <1>3, <1>5, <1>6, <1>7, <1>8 DEF t

LEMMA ReplyInOrder ==
    ASSUME NEW r \in ReplyBuffers, NEW b \in BOOLEAN, InOrder(r, b)
    PROVE  tagged_message(r, "reply") \in ReplyBuffers /\ InOrder(tagged_message(r, "reply"), b)
<1> DEFINE t == tagged_message(r, "reply")
           l == Len(r.buf) + 1
<1>1. /\ t \in ReplyBuffers /\ t.batch = r.batch /\ ~t.has_label
      /\ Len(t.buf) = l /\ \A i \in 1 .. Len(r.buf) : t.buf[i] = r.buf[i]
      /\ t.buf[l].kind = "reply" /\ t.buf[l].batch = r.batch
      /\ t.buf[l].label <=> r.has_label
  BY TaggedMessage
<1> HIDE DEF t
<1>2. /\ r.buf \in Seq(Reply) /\ t.buf \in Seq(Reply) /\ r.batch \in {NoBatch, 0} /\ l \in Nat \ {0}
      /\ r.buf = <<>> <=> l = 1
      /\ t.buf # <<>>
  <2>1. r.buf \in Seq(Reply) /\ t.buf \in Seq(Reply) /\ r.batch \in {NoBatch, 0} /\ l \in Nat \ {0}
    BY <1>1 DEF ReplyBuffers
  <2>2. r.buf = <<>> => l = 1
    BY <2>1
  <2>3. r.buf # <<>> => l # 1
    BY <2>1, EmptySeq
  <2>4. t.buf # <<>>
    BY <1>1, <2>1
  <2> QED BY <2>1, <2>2, <2>3, <2>4
<1>3. t.has_label <=> b /\ t.buf = <<>>
  BY <1>1, <1>2
<1>4. t.batch = 0 <=> t.buf # <<>> /\ t.buf[1].kind = "BATCH+"
  <2>1. CASE r.buf = <<>>
    <3>1. r.batch # 0 /\ t.buf[1].kind = "reply"
      BY <1>1, <1>2, <2>1 DEF InOrder
    <3> QED BY <1>1, <3>1
  <2>2. CASE r.buf # <<>>
    <3>1. 1 \in 1 .. Len(r.buf)
      BY <1>2, <2>2
    <3>2. t.buf[1] = r.buf[1]
      BY <1>1, <3>1
    <3>3. r.batch = 0 <=> r.buf[1].kind = "BATCH+"
      BY <2>2 DEF InOrder
    <3> QED BY <1>1, <1>2, <3>2, <3>3
  <2> QED BY <2>1, <2>2
<1>5. ASSUME NEW i \in 1 .. Len(t.buf)
      PROVE  /\ t.buf[i].label <=> b /\ i = 1
             /\ t.buf[i].kind \in IF i = 1 THEN {"reply", "BATCH+"} ELSE {"reply"}
             /\ t.buf[i].batch = IF i = 1 THEN NoBatch ELSE t.batch
  <2>1. CASE i = l
    <3>1. t.buf[i].label <=> b /\ i = 1
      <4>1. r.has_label <=> b /\ r.buf = <<>>
        BY DEF InOrder
      <4> QED BY <1>1, <1>2, <2>1, <4>1
    <3>2. i = 1 => t.batch = NoBatch
      <4>1. r.buf = <<>> => r.batch # 0
        BY DEF InOrder
      <4> QED BY <1>1, <1>2, <2>1, <4>1
    <3> QED BY <1>1, <2>1, <3>1, <3>2
  <2>2. CASE i # l
    <3>1. i \in 1 .. Len(r.buf)
      BY <1>1, <1>2, <2>2
    <3>2. t.buf[i] = r.buf[i]
      BY <1>1, <3>1
    <3>3. /\ r.buf[i].label <=> b /\ i = 1
          /\ r.buf[i].kind \in IF i = 1 THEN {"reply", "BATCH+"} ELSE {"reply"}
          /\ r.buf[i].batch = IF i = 1 THEN NoBatch ELSE r.batch
      BY <3>1 DEF InOrder
    <3> QED BY <1>1, <3>2, <3>3
  <2> QED BY <2>1, <2>2
<1>6. InOrder(t, b)
  BY <1>3, <1>4, <1>5 DEF InOrder
<1> QED BY <1>1, <1>6 DEF t

\* lr_batch_begin opens a batch only when nothing has been written.
LEMMA BatchInOrder ==
    ASSUME NEW r \in ReplyBuffers, NEW b \in BOOLEAN, InOrder(r, b)
    PROVE  lr_batch_begin(r) \in ReplyBuffers /\ InOrder(lr_batch_begin(r), b)
<1> DEFINE t == lr_batch_begin(r)
           m == [kind |-> "BATCH+", label |-> TRUE, batch |-> NoBatch]
<1>1. CASE ~r.has_label
  BY <1>1 DEF lr_batch_begin
<1>2. CASE r.has_label
  <2>1. b /\ r.buf = <<>> /\ r.batch \in {NoBatch, 0} /\ r.batch # 0
    BY <1>2 DEF InOrder, ReplyBuffers
  <2>2. r.batch = NoBatch
    BY <2>1
  <2>3. new_batch(r) = [r EXCEPT !.batch = 0]
    BY <2>2 DEF new_batch, ReplyBuffers
  <2>4. t = [[r EXCEPT !.batch = 0] EXCEPT !.buf = Append(@, m), !.has_label = FALSE]
    BY <1>2, <2>3 DEF lr_batch_begin
  <2>5. m \in Reply /\ m.label /\ m.kind = "BATCH+" /\ m.batch = NoBatch
    BY DEF Reply
  <2> HIDE DEF t, m
  <2>6. t.buf = Append(<<>>, m) /\ t.batch = 0 /\ ~t.has_label
    BY <2>1, <2>4 DEF ReplyBuffers
  <2>7. Append(<<>>, m) \in Seq(Reply) /\ Append(<<>>, m) # <<>>
        /\ Len(Append(<<>>, m)) = 1 /\ Append(<<>>, m)[1] = m
    BY <2>5, EmptySeq, AppendProperties
  <2>8. t \in ReplyBuffers
    BY <2>1, <2>4, <2>7 DEF ReplyBuffers
  <2>9. t.buf # <<>> /\ Len(t.buf) = 1 /\ t.buf[1] = m
    BY <2>6, <2>7
  <2>10. \A i \in 1 .. Len(t.buf) : i = 1
    BY <2>9
  <2>11. InOrder(t, b)
    BY <2>1, <2>5, <2>6, <2>9, <2>10 DEF InOrder
  <2> QED BY <2>8, <2>11 DEF t
<1> QED BY <1>1, <1>2

\* What the peer is sent for a message, with a label or none.
Responds(buf, has_label) ==
    /\ \A i \in DOMAIN buf : buf[i].label <=> has_label /\ i = 1
    /\ has_label => buf # <<>>
    /\ \A i \in DOMAIN buf :
          LET inside == buf[1].kind = "BATCH+" /\ 1 < i /\ i < Len(buf)
          IN  /\ buf[i].batch = IF inside THEN 0 ELSE NoBatch
              /\ buf[i].kind = "BATCH-" <=> buf[1].kind = "BATCH+" /\ i = Len(buf)

LEMMA EndWithoutBatch ==
    ASSUME NEW r \in ReplyBuffers, NEW b \in BOOLEAN, InOrder(r, b), r.batch = NoBatch
    PROVE  /\ lr_end(r) \in ReplyBuffers /\ Responds(lr_end(r).buf, b)
           /\ ~lr_end_panics(r)
<1>1. batch_end(r) = r
  BY DEF batch_end
<1>2. ~lr_end_panics(r)
  BY <1>1 DEF lr_end_panics
<1>3. r.buf \in Seq(Reply) /\ DOMAIN r.buf = 1 .. Len(r.buf)
  BY DEF ReplyBuffers
<1>4. CASE ~r.has_label
  <2>1. lr_end(r) = r
    BY <1>4 DEF lr_end
  <2>2. b => r.buf # <<>>
    BY <1>4 DEF InOrder
  <2>3. r.buf # <<>> => r.buf[1].kind # "BATCH+"
    BY BatchFacts DEF InOrder
  <2>4. ASSUME NEW i \in 1 .. Len(r.buf)
        PROVE  /\ r.buf[i].label <=> b /\ i = 1
               /\ r.buf[i].batch = NoBatch /\ r.buf[i].kind # "BATCH-"
    BY DEF InOrder
  <2>5. \A i \in 1 .. Len(r.buf) : r.buf # <<>>
    BY <1>3
  <2>6. Responds(r.buf, b)
    BY <1>3, <2>2, <2>3, <2>4, <2>5 DEF Responds
  <2> QED BY <1>2, <2>1, <2>6
<1>5. CASE r.has_label
  <2> DEFINE t == tagged_message(r, "ACK")
  <2>1. b /\ r.buf = <<>> /\ Len(r.buf) = 0
    BY <1>5 DEF InOrder
  <2>2. /\ t \in ReplyBuffers /\ t.batch = r.batch /\ ~t.has_label
        /\ Len(t.buf) = 1
        /\ t.buf[1].kind = "ACK" /\ t.buf[1].batch = r.batch
        /\ t.buf[1].label <=> r.has_label
    <3>1. /\ t \in ReplyBuffers /\ t.batch = r.batch /\ ~t.has_label
          /\ Len(t.buf) = Len(r.buf) + 1
          /\ t.buf[Len(r.buf) + 1].kind = "ACK" /\ t.buf[Len(r.buf) + 1].batch = r.batch
          /\ t.buf[Len(r.buf) + 1].label <=> r.has_label
      BY TaggedMessage
    <3>2. Len(r.buf) + 1 = 1
      BY <2>1
    <3> QED BY <3>1, <3>2
  <2>3. lr_end(r) = [t EXCEPT !.has_label = FALSE]
    BY <1>1, <1>5, <2>1 DEF lr_end
  <2> HIDE DEF t
  <2>4. lr_end(r) \in ReplyBuffers /\ lr_end(r).buf = t.buf
    BY <2>2, <2>3 DEF ReplyBuffers
  <2>5. t.buf \in Seq(Reply) /\ DOMAIN t.buf = 1 .. 1 /\ t.buf # <<>>
    BY <2>2 DEF ReplyBuffers
  <2>6. \A i \in DOMAIN t.buf : i = 1
    BY <2>5
  <2>7. Responds(t.buf, b)
    BY <1>5, <2>1, <2>2, <2>5, <2>6 DEF Responds
  <2> QED BY <1>2, <2>4, <2>7
<1> QED BY <1>4, <1>5

\* The batch was opened by the first message and is the only one, so that lr_end, which
\* leaves it before it writes the message that ends it, leaves none open.
LEMMA EndOfBatch ==
    ASSUME NEW r \in ReplyBuffers, NEW b \in BOOLEAN, InOrder(r, b), r.batch = 0
    PROVE  /\ lr_end(r) \in ReplyBuffers /\ Responds(lr_end(r).buf, b)
           /\ ~lr_end_panics(r)
<1> DEFINE u == [r EXCEPT !.batch = NoBatch]
           t == tagged_message(u, "BATCH-")
           l == Len(r.buf) + 1
<1>1. r.buf \in Seq(Reply) /\ r.buf # <<>> /\ r.buf[1].kind = "BATCH+" /\ ~r.has_label
  BY DEF InOrder, ReplyBuffers
<1>2. u \in ReplyBuffers /\ u.buf = r.buf /\ u.batch = NoBatch /\ ~u.has_label
  BY <1>1 DEF ReplyBuffers
<1>3. batch_end(r) = t
  BY BatchFacts DEF batch_end
<1> HIDE DEF u
<1>4. /\ t \in ReplyBuffers /\ t.batch = NoBatch
      /\ Len(t.buf) = l /\ \A i \in 1 .. Len(r.buf) : t.buf[i] = r.buf[i]
      /\ t.buf[l].kind = "BATCH-" /\ t.buf[l].batch = NoBatch
      /\ ~t.buf[l].label
  <2>1. /\ t \in ReplyBuffers /\ t.batch = u.batch
        /\ Len(t.buf) = Len(u.buf) + 1 /\ \A i \in 1 .. Len(u.buf) : t.buf[i] = u.buf[i]
        /\ t.buf[Len(u.buf) + 1].kind = "BATCH-" /\ t.buf[Len(u.buf) + 1].batch = u.batch
        /\ t.buf[Len(u.buf) + 1].label <=> u.has_label
    BY <1>2, TaggedMessage
  <2> QED BY <1>2, <2>1
<1> HIDE DEF t
<1>5. ~lr_end_panics(r)
  BY <1>3, <1>4 DEF lr_end_panics
<1>6. /\ t.buf \in Seq(Reply) /\ DOMAIN t.buf = 1 .. l /\ t.buf # <<>>
      /\ l \in Nat /\ 1 < l /\ 1 \in 1 .. Len(r.buf)
  BY <1>1, <1>4, EmptySeq DEF ReplyBuffers
<1>7. lr_end(r) = [t EXCEPT !.has_label = FALSE]
  BY <1>3, <1>6, BatchFacts DEF lr_end
<1>8. lr_end(r) \in ReplyBuffers /\ lr_end(r).buf = t.buf
  BY <1>4, <1>7 DEF ReplyBuffers
<1>9. t.buf[1].kind = "BATCH+"
  BY <1>1, <1>4, <1>6
<1>10. ASSUME NEW i \in 1 .. l
       PROVE  /\ t.buf[i].label <=> b /\ i = 1
              /\ t.buf[i].batch = IF 1 < i /\ i < l THEN 0 ELSE NoBatch
              /\ t.buf[i].kind = "BATCH-" <=> i = l
  <2>1. CASE i = l
    BY <1>4, <1>6, <2>1
  <2>2. CASE i # l
    <3>1. i \in 1 .. Len(r.buf) /\ i < l
      BY <1>6, <2>2
    <3>2. t.buf[i] = r.buf[i]
      BY <1>4, <3>1
    <3>3. /\ r.buf[i].label <=> b /\ i = 1
          /\ r.buf[i].kind \in IF i = 1 THEN {"reply", "BATCH+"} ELSE {"reply"}
          /\ r.buf[i].batch = IF i = 1 THEN NoBatch ELSE 0
      BY <3>1 DEF InOrder
    <3>4. r.buf[i].kind # "BATCH-"
      BY <3>3
    <3> QED BY <2>2, <3>1, <3>2, <3>3, <3>4
  <2> QED BY <2>1, <2>2
<1>11. Responds(t.buf, b)
  BY <1>4, <1>6, <1>9, <1>10 DEF Responds
<1> QED BY <1>5, <1>8, <1>11

LEMMA EndResponds ==
    ASSUME NEW r \in ReplyBuffers, NEW b \in BOOLEAN, InOrder(r, b)
    PROVE  /\ lr_end(r) \in ReplyBuffers /\ Responds(lr_end(r).buf, b)
           /\ ~lr_end_panics(r)
<1>1. r.batch = NoBatch \/ r.batch = 0
  BY DEF ReplyBuffers
<1> QED BY <1>1, EndWithoutBatch, EndOfBatch

\* LabelledResponse, in these terms.
LEMMA ResponseDef ==
    LabelledResponse <=> /\ phase = "handle" => ~lr_end_panics(rb)
                         /\ phase = "send" => Responds(rb.buf, labelled)
  BY DEF LabelledResponse, Responds

-----------------------------------------------------------------------------
(* Every step *)

\* A step that writes no reply.
LEMMA RepliesIdle ==
    ASSUME RepliesInv, UNCHANGED <<phase, rb, labelled>> \/ phase' \in {"read", "ended"}
    PROVE  RepliesInv'
<1>1. CASE UNCHANGED <<phase, rb, labelled>>
  BY <1>1 DEF RepliesInv, LabelledResponse, InOrder
<1>2. CASE phase' \in {"read", "ended"}
  BY <1>2 DEF RepliesInv, LabelledResponse
<1> QED BY <1>1, <1>2

LEMMA ReadMessageReplies ==
    ASSUME IncomingTypeOK', read_message
    PROVE  RepliesInv'
<1>1. phase' = "handle" /\ rb' = ReplyBuffer_new(labelled') /\ labelled' \in BOOLEAN
  BY DEF read_message, IncomingTypeOK
<1> DEFINE r == ReplyBuffer_new(labelled')
<1>2. r \in ReplyBuffers /\ r.buf = <<>> /\ r.batch = NoBatch /\ (r.has_label <=> labelled')
  BY <1>1, NewBuffer
<1> HIDE DEF r
<1>3. Len(r.buf) = 0
  BY <1>2
<1>4. InOrder(r, labelled')
  BY <1>2, <1>3, BatchFacts DEF InOrder
<1>5. ~lr_end_panics(r)
  BY <1>1, <1>2, <1>4, EndResponds
<1>6. InOrder(rb, labelled)' /\ ~lr_end_panics(rb)'
  BY <1>1, <1>4, <1>5 DEF r
<1> QED BY <1>1, <1>6 DEF RepliesInv, LabelledResponse

LEMMA HandlerReplies ==
    ASSUME IncomingTypeOK, RepliesInv, handler_reply
    PROVE  rb' \in ReplyBuffers /\ RepliesInv'
<1>1. /\ phase = "handle" /\ phase' = "handle" /\ labelled' = labelled
      /\ rb' = tagged_message(rb, "reply") \/ rb' = lr_batch_begin(rb)
  BY DEF handler_reply
<1>2. rb \in ReplyBuffers /\ labelled \in BOOLEAN /\ InOrder(rb, labelled)
  BY <1>1 DEF IncomingTypeOK, ReplyBuffers, RepliesInv
<1>3. rb' \in ReplyBuffers /\ InOrder(rb', labelled)
  BY <1>1, <1>2, ReplyInOrder, BatchInOrder
<1>4. ~lr_end_panics(rb')
  BY <1>2, <1>3, EndResponds
<1>5. InOrder(rb, labelled)' /\ ~lr_end_panics(rb)'
  BY <1>1, <1>3, <1>4
<1> QED BY <1>1, <1>3, <1>5 DEF RepliesInv, LabelledResponse

LEMMA HandlerEnds ==
    ASSUME IncomingTypeOK, RepliesInv, handler_end
    PROVE  rb' \in ReplyBuffers /\ RepliesInv'
<1>1. phase = "handle" /\ phase' = "send" /\ labelled' = labelled /\ rb' = lr_end(rb)
  BY DEF handler_end
<1>2. rb \in ReplyBuffers /\ labelled \in BOOLEAN /\ InOrder(rb, labelled)
  BY <1>1 DEF IncomingTypeOK, ReplyBuffers, RepliesInv
<1>3. rb' \in ReplyBuffers /\ Responds(rb'.buf, labelled)
  BY <1>1, <1>2, EndResponds
<1>4. Responds(rb.buf, labelled)'
  BY <1>1, <1>3
<1>5. LabelledResponse'
  BY <1>1, <1>4 DEF LabelledResponse, Responds
<1> QED BY <1>1, <1>3, <1>5 DEF RepliesInv

LEMMA IncomingStarts == IncomingInit => IncomingInv
<1> SUFFICES ASSUME IncomingInit PROVE IncomingInv
  OBVIOUS
<1>1. /\ stream \in Seq(Byte) /\ wire = stream /\ available = <<>> /\ bytes = <<>> /\ n = NewRead
      /\ phase = "read" /\ rb = NoReplies /\ handled = <<>>
  BY StreamsAssumption DEF IncomingInit
<1>2. closed \in BOOLEAN /\ labelled \in BOOLEAN
  BY DEF IncomingInit
<1>3. n.read = 0 /\ n.limit = 0 /\ n.count = 0 /\ n \in [read : Nat, limit : Nat, count : Nat]
  BY <1>1 DEF NewRead
<1>4. Len(available) = 0 /\ Len(bytes) = 0 /\ Len(wire) = Len(stream) /\ Len(stream) \in Nat
  BY <1>1
<1>5. IncomingTypeOK
  <2>1. NoReplies \in ReplyBuffers
    BY NewBuffer DEF NoReplies
  <2>2. <<>> \in Seq(Byte) /\ <<>> \in Seq(Seq(Byte))
    BY EmptySeq
  <2> QED BY <1>1, <1>2, <1>3, <2>1, <2>2 DEF IncomingTypeOK, ReplyBuffers
<1>6. Pos = 0
  BY <1>4 DEF Pos
<1>7. RestIsAhead
  BY <1>1, <1>4, <1>6 DEF RestIsAhead
<1>8. LineIsOpen
  BY <1>1, <1>3, <1>4 DEF LineIsOpen
<1>9. ReaderBounded
  BY <1>3, <1>4, ReaderAssumption DEF ReaderBounded
<1>10. LinesUpTo(stream)[0] = <<handled, bytes>>
  BY <1>1, LinesUpToStep DEF NoLines
<1>11. InStep
  BY <1>1, <1>6, <1>10 DEF InStep
<1>12. LinesHandledInOrder
  <2>1. 0 \in 0 .. Len(stream)
    BY <1>4
  <2>2. IsPrefix(handled, LinesOf(stream))
    BY <1>1, <1>10, <2>1, LinesOfStream
  <2> QED BY <2>2 DEF LinesHandledInOrder
<1>13. RepliesInv
  BY <1>1 DEF RepliesInv, LabelledResponse
<1> QED BY <1>5, <1>7, <1>8, <1>9, <1>11, <1>12, <1>13 DEF IncomingInv, ReaderInv

\* The line has been charged for and the next one starts.
LEMMA LineDone ==
    ASSUME IncomingInv, phase \in {"handle", "send"}, phase' = "read", next_line,
           rb' = NoReplies, labelled' = FALSE, UNCHANGED <<wire, closed, available, stream, handled>>
    PROVE  IncomingInv'
<1>1. ReaderInv' /\ RepliesInv'
  BY NextLineInv, RepliesIdle DEF IncomingInv
<1>2. rb' \in ReplyBuffers
  BY NewBuffer DEF NoReplies
<1>3. bytes' \in Seq(Byte) /\ n' \in [read : Nat, limit : Nat, count : Nat]
  BY EmptySeq DEF next_line, NewRead
<1>4. IncomingTypeOK'
  BY <1>2, <1>3 DEF IncomingInv, IncomingTypeOK, ReplyBuffers
<1> QED BY <1>1, <1>4 DEF IncomingInv

LEMMA IncomingStep == IncomingInv /\ [IncomingNext]_inVars => IncomingInv'
<1> SUFFICES ASSUME IncomingInv, [IncomingNext]_inVars PROVE IncomingInv'
  OBVIOUS
<1> USE DEF IncomingInv
<1>1. CASE peer_close
  <2>1. UNCHANGED <<wire, available, bytes, n, phase, rb, labelled, stream, handled>>
        /\ closed' \in BOOLEAN
    BY <1>1 DEF peer_close, branchVars
  <2> QED BY <2>1, ReaderIdle, RepliesIdle DEF IncomingTypeOK
<1>2. CASE time_passes
  <2>1. UNCHANGED <<wire, closed, available, bytes, n, phase, rb, labelled, stream, handled>>
    BY <1>2 DEF time_passes, branchVars, readerVars
  <2> QED BY <2>1, ReaderIdle, RepliesIdle DEF IncomingTypeOK
<1>3. CASE read_part
  <2>1. UNCHANGED <<phase, rb, labelled>>
    BY <1>3 DEF read_part, branchVars
  <2> QED BY <1>3, <2>1, ReadPartInv, RepliesIdle
<1>4. CASE read_message
  BY <1>4, ReadMessageInv, ReadMessageReplies
<1>5. CASE read_fails
  <2>1. phase' = "ended"
    BY <1>5 DEF read_fails
  <2> QED BY <1>5, <2>1, ReadFailsInv, RepliesIdle
<1>6. CASE read_refused
  <2>1. phase' = "ended"
        /\ UNCHANGED <<wire, closed, available, bytes, n, rb, labelled, stream, handled>>
    BY <1>6 DEF read_refused, readerVars
  <2> QED BY <2>1, ReaderIdle, RepliesIdle DEF IncomingTypeOK
<1>7. CASE handler_reply
  <2>1. UNCHANGED <<wire, closed, available, bytes, n, phase, labelled, stream, handled>>
    BY <1>7 DEF handler_reply, readerVars
  <2>2. rb' \in ReplyBuffers /\ RepliesInv'
    BY <1>7, HandlerReplies
  <2> QED BY <2>1, <2>2, ReaderIdle DEF IncomingTypeOK, ReplyBuffers
<1>8. CASE handler_end
  <2>1. phase = "handle" /\ phase' = "send"
        /\ UNCHANGED <<wire, closed, available, bytes, n, labelled, stream, handled>>
    BY <1>8 DEF handler_end, readerVars
  <2>2. rb' \in ReplyBuffers /\ RepliesInv'
    BY <1>8, HandlerEnds
  <2> QED BY <2>1, <2>2, ReaderIdle DEF IncomingTypeOK, ReplyBuffers
<1>9. CASE handler_removes
  <2>1. phase' = "ended" /\ rb' = NoReplies
        /\ UNCHANGED <<wire, closed, available, bytes, n, labelled, stream, handled>>
    BY <1>9 DEF handler_removes, readerVars
  <2>2. rb' \in ReplyBuffers
    BY <2>1, NewBuffer DEF NoReplies
  <2> QED BY <2>1, <2>2, ReaderIdle, RepliesIdle DEF IncomingTypeOK, ReplyBuffers
<1>10. ASSUME NEW p \in Points, handle_nothing(p) \/ send(p) PROVE IncomingInv'
  <2>1. /\ phase \in {"handle", "send"} /\ phase' = "read" /\ next_line
        /\ rb' = NoReplies /\ labelled' = FALSE
        /\ UNCHANGED <<wire, closed, available, stream, handled>>
    BY <1>10 DEF handle_nothing, send
  <2> QED BY <2>1, LineDone
<1>11. CASE UNCHANGED inVars
  <2>1. UNCHANGED <<wire, closed, available, bytes, n, phase, rb, labelled, stream, handled>>
    BY <1>11 DEF inVars, readerVars, branchVars
  <2> QED BY <2>1, ReaderIdle, RepliesIdle DEF IncomingTypeOK
<1> QED BY <1>1, <1>2, <1>3, <1>4, <1>5, <1>6, <1>7, <1>8, <1>9, <1>10, <1>11 DEF IncomingNext

\* The reader stays in step with the stream and the replies in order, for every stream and
\* every way it arrives (read_line, ReplyBuffer).
THEOREM IncomingInvariance == IncomingSpec => []IncomingInv
  BY IncomingStarts, IncomingStep, PTL DEF IncomingSpec

\* A line never takes more memory than its limit and one buffer (read_line).
THEOREM ReaderIsBounded == IncomingSpec => []ReaderBounded
<1>1. IncomingInv => ReaderBounded
  BY DEF IncomingInv, ReaderInv
<1> QED BY <1>1, IncomingInvariance, PTL

\* However a stream is cut, the lines handled are its first lines, whole and in order.
THEOREM LinesAreHandledInOrder == IncomingSpec => []LinesHandledInOrder
<1>1. IncomingInv => LinesHandledInOrder
  BY DEF IncomingInv, ReaderInv
<1> QED BY <1>1, IncomingInvariance, PTL

\* The replies to a labelled message are one labelled response, and lr_end never panics.
THEOREM ResponsesAreLabelled == IncomingSpec => []LabelledResponse
<1>1. IncomingInv => LabelledResponse
  BY DEF IncomingInv, RepliesInv
<1> QED BY <1>1, IncomingInvariance, PTL

LEMMA RefusalHasCause == IncomingInv => RefusedForCause
<1> SUFFICES ASSUME IncomingInv, phase = "read", Abuse \/ TooLong
             PROVE  LET line == LinesOf(stream)[Len(handled) + 1]
                    IN  /\ IsPrefix(bytes, line)
                        /\ Len(line) >= IF TooLong THEN Limit(line[1]) ELSE MaxReadPerMessage
  BY DEF RefusedForCause
<1> DEFINE line == LinesOf(stream)[Len(handled) + 1]
           p == Pos
<1>1. /\ stream \in Seq(Byte) /\ available \in Seq(Byte) /\ wire \in Seq(Byte)
      /\ bytes \in Seq(Byte) /\ handled \in Seq(Seq(Byte))
      /\ n.read \in Nat /\ n.limit \in Nat /\ n.count \in Nat
  BY DEF IncomingInv, IncomingTypeOK
<1>2. /\ n.read = Len(bytes) /\ n.count <= Len(bytes)
      /\ n.limit = IF bytes = <<>> THEN 0 ELSE Limit(bytes[1])
  BY DEF IncomingInv, ReaderInv, LineIsOpen
<1>3. MaxReadPerMessage \in Nat \ {0}
  BY ReaderAssumption
<1>4. bytes # <<>> /\ Len(bytes) \in Nat \ {0}
  <2>1. CASE Abuse
    BY <1>1, <1>2, <1>3, <2>1, EmptySeq DEF Abuse
  <2>2. CASE TooLong
    BY <1>1, <1>2, <2>2, EmptySeq DEF TooLong
  <2> QED BY <2>1, <2>2
<1>5. p \in 0 .. Len(stream) /\ LinesUpTo(stream)[p] = <<handled, bytes>>
  <2>1. Pos \in 0 .. Len(stream)
    BY <1>1 DEF Pos, IncomingInv, ReaderInv, RestIsAhead
  <2>2. LinesUpTo(stream)[Pos] = <<handled, bytes>>
    BY <1>4 DEF IncomingInv, ReaderInv, InStep
  <2> QED BY <2>1, <2>2
<1> HIDE DEF p
<1>6. /\ LinesOf(stream) \in Seq(Seq(Byte)) /\ Len(handled) < Len(LinesOf(stream))
      /\ IsPrefix(bytes, LinesOf(stream)[Len(handled) + 1])
  BY <1>1, <1>4, <1>5, LinesOfStream
<1>7. line \in Seq(Byte)
  BY <1>1, <1>6, ElementOfSeq
<1>8. IsPrefix(bytes, line)
  BY <1>6
<1> HIDE DEF line
<1>9. Len(bytes) <= Len(line) /\ bytes[1] = line[1]
  BY <1>1, <1>4, <1>7, <1>8, PrefixDef
<1>10. CASE TooLong
  <2>1. Limit(line[1]) <= Len(bytes)
    BY <1>1, <1>2, <1>4, <1>9, <1>10 DEF TooLong
  <2>2. Limit(line[1]) \in Nat
    BY LimitFacts
  <2>3. Len(line) >= Limit(line[1])
    BY <1>4, <1>7, <1>9, <2>1, <2>2
  <2> QED BY <1>8, <1>10, <2>3 DEF line
<1>11. CASE ~TooLong
  <2>1. MaxReadPerMessage <= Len(bytes)
    BY <1>1, <1>2, <1>3, <1>4, <1>11 DEF Abuse
  <2>2. Len(line) >= MaxReadPerMessage
    BY <1>3, <1>4, <1>7, <1>9, <2>1
  <2> QED BY <1>8, <1>11, <2>2 DEF line
<1> QED BY <1>10, <1>11

\* A line is refused only if it is too long for its own first byte, or came in as many
\* pieces as reads are allowed (read_line).
THEOREM RefusalsHaveCause == IncomingSpec => []RefusedForCause
  BY IncomingInvariance, RefusalHasCause, PTL

\* The reader waits for the limiter and charges it for every line as RateLimit has it.
LEMMA IncomingImplementsRateLimit == IncomingSpec => RateSpec
<1>1. IncomingInit => RateInit
  BY DEF IncomingInit
<1>2. [IncomingNext]_inVars => [RateNext]_rateVars
  BY DEF IncomingNext, inVars, peer_close, time_passes, read_part, read_message, read_fails,
         read_refused, handler_reply, handler_end, handler_removes, handle_nothing, send, RateNext
<1> QED BY <1>1, <1>2, PTL DEF IncomingSpec, RateSpec

\* So a peer that the reader lets send another line has not spent more points than the
\* limiter allows (rate_limit!).
THEOREM IncomingRateBounded == IncomingSpec => []RateBounded
  BY IncomingImplementsRateLimit, RateBoundedHolds, PTL

=============================================================================
