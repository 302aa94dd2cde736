---------------------------- MODULE FramingProof ----------------------------
(***************************************************************************)
(* Proofs about the framing of messages, for any number of streams and of  *)
(* messages, any lengths and any cuts.  What is in the socket of a reader  *)
(* and on its way to it is one sequence of bytes; the messages in it are   *)
(* known by the place before the first byte of each.  The place of a       *)
(* message whose length was read already is negative.                      *)
(***************************************************************************)
EXTENDS Framing, FiniteSetTheorems, SequenceTheorems, WellFoundedInduction, TLAPS

-----------------------------------------------------------------------------
(* Sequences.                                                              *)

LEMMA FirstAndRest ==
    ASSUME NEW S, NEW s \in Seq(S), NEW k \in 0 .. Len(s)
    PROVE  /\ SubSeq(s, 1, k) \in Seq(S) /\ Len(SubSeq(s, 1, k)) = k
           /\ \A i \in 1 .. k : SubSeq(s, 1, k)[i] = s[i]
           /\ SubSeq(s, k + 1, Len(s)) \in Seq(S) /\ Len(SubSeq(s, k + 1, Len(s))) = Len(s) - k
           /\ \A i \in 1 .. Len(s) - k : SubSeq(s, k + 1, Len(s))[i] = s[i + k]
<1>1. Len(s) \in Nat /\ \A i \in 1 .. Len(s) : s[i] \in S
  BY LenProperties
<1>2. (\A i \in 1 .. k : s[i] \in S) /\ \A i \in k + 1 .. Len(s) : s[i] \in S
  BY <1>1
<1>3. /\ SubSeq(s, 1, k) \in Seq(S)
      /\ Len(SubSeq(s, 1, k)) = IF 1 <= k THEN k - 1 + 1 ELSE 0
      /\ \A i \in 1 .. k - 1 + 1 : SubSeq(s, 1, k)[i] = s[1 + i - 1]
  BY <1>2, SubSeqProperties
<1> QED
  BY <1>1, <1>3

LEMMA RestBeforeMore ==
    ASSUME NEW S, NEW s \in Seq(S), NEW t \in Seq(S), NEW k \in 0 .. Len(s)
    PROVE  SubSeq(s, k + 1, Len(s)) \o t = SubSeq(s \o t, k + 1, Len(s \o t))
<1> DEFINE u == SubSeq(s, k + 1, Len(s))
           v == SubSeq(s \o t, k + 1, Len(s \o t))
<1>1. Len(s) \in Nat /\ Len(t) \in Nat
  BY LenProperties
<1>2. /\ s \o t \in Seq(S) /\ Len(s \o t) = Len(s) + Len(t)
      /\ \A i \in 1 .. Len(s) + Len(t) :
            (s \o t)[i] = IF i <= Len(s) THEN s[i] ELSE t[i - Len(s)]
  BY ConcatProperties
<1>3. u \in Seq(S) /\ Len(u) = Len(s) - k /\ \A i \in 1 .. Len(s) - k : u[i] = s[i + k]
  BY FirstAndRest
<1>4. /\ v \in Seq(S) /\ Len(v) = Len(s) + Len(t) - k
      /\ \A i \in 1 .. Len(s) + Len(t) - k : v[i] = (s \o t)[i + k]
  <2>1. k \in 0 .. Len(s \o t)
    BY <1>1, <1>2
  <2> QED
    BY <1>2, <2>1, FirstAndRest
<1>5. /\ u \o t \in Seq(S) /\ Len(u \o t) = Len(s) - k + Len(t)
      /\ \A i \in 1 .. Len(s) - k + Len(t) :
            (u \o t)[i] = IF i <= Len(s) - k THEN u[i] ELSE t[i - (Len(s) - k)]
  BY <1>3, ConcatProperties
<1>6. Len(u \o t) = Len(v)
  BY <1>1, <1>4, <1>5
<1>7. ASSUME NEW i \in 1 .. Len(u \o t) PROVE (u \o t)[i] = v[i]
  <2>1. i \in 1 .. Len(s) + Len(t) - k /\ i + k \in 1 .. Len(s) + Len(t)
    BY <1>1, <1>5
  <2>2. v[i] = IF i + k <= Len(s) THEN s[i + k] ELSE t[i + k - Len(s)]
    BY <1>2, <1>4, <2>1
  <2>3. CASE i <= Len(s) - k
    BY <1>1, <1>3, <1>5, <2>1, <2>2, <2>3
  <2>4. CASE ~ i <= Len(s) - k
    <3>1. i - (Len(s) - k) = i + k - Len(s) /\ ~ i + k <= Len(s)
      BY <1>1, <2>1, <2>4
    <3>2. v[i] = t[i + k - Len(s)]
      BY <2>2, <3>1
    <3>3. (u \o t)[i] = t[i - (Len(s) - k)]
      BY <1>5, <2>4
    <3> QED
      BY <3>1, <3>2, <3>3
  <2> QED
    BY <2>3, <2>4
<1> QED
  BY <1>4, <1>5, <1>6, <1>7, SeqEqual

LEMMA MoreOfTheNext ==
    ASSUME NEW S, NEW s \in Seq(S), NEW t \in Seq(S), NEW k \in 0 .. Len(t)
    PROVE  s \o SubSeq(t, 1, k) = SubSeq(s \o t, 1, Len(s) + k)
<1> DEFINE u == SubSeq(t, 1, k)
           v == SubSeq(s \o t, 1, Len(s) + k)
<1>1. Len(s) \in Nat /\ Len(t) \in Nat
  BY LenProperties
<1>2. /\ s \o t \in Seq(S) /\ Len(s \o t) = Len(s) + Len(t)
      /\ \A i \in 1 .. Len(s) + Len(t) :
            (s \o t)[i] = IF i <= Len(s) THEN s[i] ELSE t[i - Len(s)]
  BY ConcatProperties
<1>3. u \in Seq(S) /\ Len(u) = k /\ \A i \in 1 .. k : u[i] = t[i]
  BY FirstAndRest
<1>4. /\ v \in Seq(S) /\ Len(v) = Len(s) + k
      /\ \A i \in 1 .. Len(s) + k : v[i] = (s \o t)[i]
  <2>1. Len(s) + k \in 0 .. Len(s \o t)
    BY <1>1, <1>2
  <2> QED
    BY <1>2, <2>1, FirstAndRest
<1>5. /\ s \o u \in Seq(S) /\ Len(s \o u) = Len(s) + k
      /\ \A i \in 1 .. Len(s) + k : (s \o u)[i] = IF i <= Len(s) THEN s[i] ELSE u[i - Len(s)]
  BY <1>3, ConcatProperties
<1>6. ASSUME NEW i \in 1 .. Len(s) + k PROVE (s \o u)[i] = v[i]
  <2>1. i \in 1 .. Len(s) + Len(t)
    BY <1>1
  <2>2. CASE i <= Len(s)
    BY <1>1, <1>2, <1>4, <1>5, <2>1, <2>2
  <2>3. CASE ~ i <= Len(s)
    <3>1. i - Len(s) \in 1 .. k
      BY <1>1, <2>3
    <3> QED
      BY <1>2, <1>3, <1>4, <1>5, <2>1, <2>3, <3>1
  <2> QED
    BY <2>2, <2>3
<1> QED
  BY <1>4, <1>5, <1>6, SeqEqual

\* Bytes that arrive are the next ones.
LEMMA ArrivedAreNext ==
    ASSUME NEW S, NEW s \in Seq(S), NEW t \in Seq(S), NEW k \in 0 .. Len(t)
    PROVE  (s \o SubSeq(t, 1, k)) \o SubSeq(t, k + 1, Len(t)) = s \o t
<1> DEFINE u == SubSeq(t, 1, k)
           v == SubSeq(t, k + 1, Len(t))
<1>1. Len(t) \in Nat
  BY LenProperties
<1>2. u \in Seq(S) /\ v \in Seq(S)
  BY FirstAndRest
<1>3. u \o v = t
  <2>1. /\ 1 \in 1 .. Len(t) + 1 /\ k \in 1 - 1 .. Len(t) /\ Len(t) \in k .. Len(t)
    BY <1>1
  <2>2. SubSeq(t, 1, k) \o SubSeq(t, k + 1, Len(t)) = SubSeq(t, 1, Len(t))
    BY <2>1, ConcatAdjacentSubSeq
  <2> QED
    BY <2>2, SubSeqFull
<1> HIDE DEF u, v
<1>4. (s \o u) \o v = s \o (u \o v)
  BY <1>2, ConcatAssociative, SMTT(30)
<1> QED
  BY <1>3, <1>4 DEF u, v

-----------------------------------------------------------------------------
(* The messages that were written and not read.                            *)

Block(k) == Header + Length(k)

\* n messages were read, m were written, and message k begins behind place[k].
\* After the last one there is nothing, and what is before it is whole unless
\* the writer has died.
Layout(all, n, m, size, o, place) ==
    /\ all \in Seq(Bytes) /\ m \in 0 .. MaxMessages /\ n \in 0 .. m
    /\ place \in [n + 1 .. m + 1 -> Int]
    /\ \/ size = 0 /\ place[n + 1] = 0
       \/ n < m /\ size = Length(n + 1) /\ place[n + 1] = -Header
    /\ \A k \in n + 1 .. m : place[k + 1] = place[k] + Block(k)
    /\ \A k \in n + 1 .. m : \A l \in k + 1 .. m + 1 : place[k] + Block(k) <= place[l]
    /\ Len(all) <= place[m + 1] /\ (o => Len(all) = place[m + 1])
    /\ \A k \in n + 1 .. m : \A i \in 1 .. Block(k) :
          place[k] + i \in 1 .. Len(all) => all[place[k] + i] = <<k, i>>

Fits(all, n, m, size, o) == \E place : Layout(all, n, m, size, o, place)

LEMMA Sizes ==
    /\ Header \in Nat \ {0} /\ MaxMessages \in Nat
    /\ \A k \in 1 .. MaxMessages : Length(k) \in Nat \ {0} /\ Block(k) \in Nat \ {0}
  BY FramingAssumption DEF Block

LEMMA NothingWritten ==
    ASSUME NEW o PROVE Fits(<<>>, 0, 0, 0, o)
<1> DEFINE place == [k \in 1 .. 1 |-> 0]
<1>1. <<>> \in Seq(Bytes) /\ Len(<<>>) = 0
  BY EmptySeq
<1>2. place \in [0 + 1 .. 0 + 1 -> Int] /\ place[0 + 1] = 0
  OBVIOUS
<1>3. Layout(<<>>, 0, 0, 0, o, place)
  BY <1>1, <1>2, Sizes DEF Layout
<1> QED
  BY <1>3 DEF Fits

\* Another message is written.
LEMMA FitsLonger ==
    ASSUME NEW all, NEW n, NEW m, NEW size, Fits(all, n, m, size, TRUE), m < MaxMessages
    PROVE  LET new == [i \in 1 .. Block(m + 1) |-> <<m + 1, i>>]
           IN  new \in Seq(Bytes) /\ Fits(all \o new, n, m + 1, size, TRUE)
<1> DEFINE new == [i \in 1 .. Block(m + 1) |-> <<m + 1, i>>]
<1>1. PICK place : Layout(all, n, m, size, TRUE, place)
  BY DEF Fits
<1>2. /\ all \in Seq(Bytes) /\ m \in 0 .. MaxMessages - 1 /\ n \in 0 .. m
      /\ place \in [n + 1 .. m + 1 -> Int] /\ Len(all) = place[m + 1] /\ Len(all) \in Nat
  <2>1. /\ all \in Seq(Bytes) /\ m \in 0 .. MaxMessages /\ n \in 0 .. m
        /\ place \in [n + 1 .. m + 1 -> Int]
        /\ Len(all) <= place[m + 1] /\ (TRUE => Len(all) = place[m + 1])
    BY <1>1 DEF Layout
  <2>2. Len(all) \in Nat
    BY <2>1, LenProperties
  <2> QED
    BY <2>1, <2>2, Sizes
<1>3. Header \in Nat \ {0} /\ Length(m + 1) \in Nat \ {0} /\ Block(m + 1) = Header + Length(m + 1)
  BY <1>2, Sizes DEF Block
<1>4. new \in Seq(Bytes) /\ Len(new) = Block(m + 1)
  <2>1. \A i \in 1 .. Block(m + 1) : <<m + 1, i>> \in Bytes
    <3>1. m + 1 \in 1 .. MaxMessages
      BY <1>2, Sizes
    <3> QED
      BY <1>3, <3>1 DEF Bytes
  <2>2. new \in [1 .. Block(m + 1) -> Bytes]
    BY <2>1
  <2>3. new \in Seq(Bytes)
    BY <1>3, <2>2, SeqDef
  <2>4. new \in [1 .. Len(new) -> Bytes] /\ Len(new) \in Nat
    BY <2>3, LenProperties
  <2> QED
    BY <1>3, <2>2, <2>3, <2>4
<1>5. \A i \in 1 .. Block(m + 1) : new[i] = <<m + 1, i>>
  OBVIOUS
<1> DEFINE both == all \o new
<1> HIDE DEF new
<1>6. /\ both \in Seq(Bytes) /\ Len(both) = Len(all) + Block(m + 1)
      /\ \A i \in 1 .. Len(all) + Block(m + 1) :
            both[i] = IF i <= Len(all) THEN all[i] ELSE new[i - Len(all)]
  <2>1. /\ both \in Seq(Bytes) /\ Len(both) = Len(all) + Len(new)
        /\ \A i \in 1 .. Len(all) + Len(new) :
              both[i] = IF i <= Len(all) THEN all[i] ELSE new[i - Len(all)]
    BY <1>2, <1>4, ConcatProperties
  <2> QED
    BY <1>4, <2>1
<1> DEFINE next == [k \in n + 1 .. m + 2 |->
                       IF k = m + 2 THEN place[m + 1] + Block(m + 1) ELSE place[k]]
<1>7. next \in [n + 1 .. (m + 1) + 1 -> Int]
  BY <1>2, <1>3
<1>8. next[m + 2] = place[m + 1] + Block(m + 1) /\ \A k \in n + 1 .. m + 1 : next[k] = place[k]
  BY <1>2
<1> HIDE DEF next, both
<1>9. \/ size = 0 /\ next[n + 1] = 0
      \/ n < m + 1 /\ size = Length(n + 1) /\ next[n + 1] = -Header
  BY <1>1, <1>2, <1>8 DEF Layout
<1>10. \A k \in n + 1 .. m + 1 : next[k + 1] = next[k] + Block(k)
  <2>1. ASSUME NEW k \in n + 1 .. m PROVE next[k + 1] = next[k] + Block(k)
    BY <1>1, <1>2, <1>8 DEF Layout
  <2>2. next[(m + 1) + 1] = next[m + 1] + Block(m + 1)
    BY <1>2, <1>8
  <2>3. ASSUME NEW k \in n + 1 .. m + 1 PROVE k = m + 1 \/ k \in n + 1 .. m
    BY <1>2, Sizes
  <2> QED
    BY <2>1, <2>2, <2>3
<1>11. ASSUME NEW k \in n + 1 .. m + 1, NEW l \in k + 1 .. (m + 1) + 1
       PROVE  next[k] + Block(k) <= next[l]
  <2>1. k \in 1 .. MaxMessages /\ Block(k) \in Nat /\ place[k] \in Int /\ Block(m + 1) \in Nat
    BY <1>2, Sizes
  <2>2. CASE l \in k + 1 .. m + 1
    <3>1. k \in n + 1 .. m /\ l \in n + 1 .. m + 1
      BY <1>2, <2>2
    <3>2. place[k] + Block(k) <= place[l]
      BY <1>1, <2>2, <3>1 DEF Layout
    <3>3. next[k] = place[k] /\ next[l] = place[l]
      BY <1>8, <3>1
    <3> QED
      BY <3>2, <3>3
  <2>3. CASE l = m + 2 /\ k = m + 1
    BY <1>2, <1>8, <2>1, <2>3
  <2>4. CASE l = m + 2 /\ k \in n + 1 .. m
    <3>1. place[k] + Block(k) <= place[m + 1]
      BY <1>1, <1>2, <2>4 DEF Layout
    <3> QED
      BY <1>2, <1>8, <2>1, <2>4, <3>1
  <2> QED
    BY <1>2, <2>2, <2>3, <2>4
<1>12. ASSUME NEW k \in n + 1 .. m + 1, NEW i \in 1 .. Block(k),
              next[k] + i \in 1 .. Len(both)
       PROVE  both[next[k] + i] = <<k, i>>
  <2>1. k \in 1 .. MaxMessages /\ Block(k) \in Nat /\ place[k] \in Int
    BY <1>2, Sizes
  <2>2. CASE k = m + 1
    <3>1. next[k] + i - Len(all) = i /\ ~ next[k] + i <= Len(all)
      BY <1>2, <1>8, <2>1, <2>2
    <3>2. next[k] + i \in 1 .. Len(all) + Block(m + 1)
      BY <1>6, <1>12
    <3>3. i \in 1 .. Block(m + 1)
      BY <2>2
    <3>4. \A j \in 1 .. Len(all) + Block(m + 1) :
             ~ j <= Len(all) => both[j] = new[j - Len(all)]
      BY <1>6
    <3>5. both[next[k] + i] = new[next[k] + i - Len(all)]
      <4>1. next[k] \in Int /\ i \in Int /\ Block(m + 1) \in Nat /\ Len(all) \in Nat
        BY <1>2, <1>3, <1>8, <2>2, <3>3
      <4> QED
        BY <3>1, <3>2, <3>4, <4>1
    <3> QED
      BY <1>5, <2>2, <3>1, <3>3, <3>5
  <2>3. CASE k \in n + 1 .. m
    <3>1. place[k] + Block(k) <= place[m + 1]
      BY <1>1, <1>2, <2>3 DEF Layout
    <3>2. place[k] + i <= Len(all) /\ next[k] = place[k]
      BY <1>2, <1>8, <2>1, <2>3, <3>1
    <3>3. place[k] + i \in 1 .. Len(all)
      BY <1>2, <1>6, <1>12, <2>1, <3>2
    <3>4. all[place[k] + i] = <<k, i>>
      BY <1>1, <2>3, <3>3 DEF Layout
    <3> QED
      BY <1>6, <1>12, <3>2, <3>4
  <2> QED
    BY <1>2, <2>2, <2>3
<1>13. Len(both) = next[(m + 1) + 1] /\ m + 1 \in 0 .. MaxMessages /\ n \in 0 .. m + 1
  <2>1. m + 2 = (m + 1) + 1 /\ m + 1 \in 0 .. MaxMessages /\ n \in 0 .. m + 1
    BY <1>2, Sizes
  <2>2. next[m + 2] = Len(all) + Block(m + 1)
    BY <1>2, <1>8
  <2> QED
    BY <1>6, <2>1, <2>2
<1>14. Layout(both, n, m + 1, size, TRUE, next)
  BY <1>6, <1>7, <1>9, <1>10, <1>11, <1>12, <1>13 DEF Layout
<1> QED
  BY <1>4, <1>14 DEF Fits, new, both

\* The writer dies.
LEMMA FitsCut ==
    ASSUME NEW all, NEW n, NEW m, NEW size, NEW o, Fits(all, n, m, size, o),
           NEW k \in 0 .. Len(all)
    PROVE  Fits(SubSeq(all, 1, k), n, m, size, FALSE)
<1>1. PICK place : Layout(all, n, m, size, o, place)
  BY DEF Fits
<1>2. all \in Seq(Bytes) /\ Len(all) \in Nat
  BY <1>1, LenProperties DEF Layout
<1>3. /\ SubSeq(all, 1, k) \in Seq(Bytes) /\ Len(SubSeq(all, 1, k)) = k
      /\ \A i \in 1 .. k : SubSeq(all, 1, k)[i] = all[i]
  BY <1>2, FirstAndRest
<1>4. k <= place[m + 1]
  BY <1>1, <1>2 DEF Layout
<1>5. ASSUME NEW j \in n + 1 .. m, NEW i \in 1 .. Block(j), place[j] + i \in 1 .. k
      PROVE  SubSeq(all, 1, k)[place[j] + i] = <<j, i>>
  <2>1. place[j] + i \in 1 .. Len(all)
    BY <1>2, <1>5
  <2> QED
    BY <1>1, <1>3, <1>5, <2>1 DEF Layout
<1>6. Layout(SubSeq(all, 1, k), n, m, size, FALSE, place)
  BY <1>1, <1>3, <1>4, <1>5 DEF Layout
<1> QED
  BY <1>6 DEF Fits

LEMMA Shifted ==
    ASSUME NEW p \in Int, NEW q \in Int, NEW c \in Nat, NEW i \in Int, NEW l \in Nat,
           q = p - c, q + i \in 1 .. l - c
    PROVE  p + i \in 1 .. l
  OBVIOUS

\* Bytes are read up to the beginning of a message or of its text.
LEMMA FitsRest ==
    ASSUME NEW all, NEW n, NEW m, NEW size, NEW o, NEW place, Layout(all, n, m, size, o, place),
           NEW c \in 0 .. Len(all), NEW n2 \in n .. m, NEW size2,
           \/ size2 = 0 /\ place[n2 + 1] - c = 0
           \/ n2 < m /\ size2 = Length(n2 + 1) /\ place[n2 + 1] - c = -Header
    PROVE  Fits(SubSeq(all, c + 1, Len(all)), n2, m, size2, o)
<1> DEFINE rest == SubSeq(all, c + 1, Len(all))
           next == [k \in n2 + 1 .. m + 1 |-> place[k] - c]
<1>1. /\ all \in Seq(Bytes) /\ Len(all) \in Nat /\ m \in 0 .. MaxMessages /\ n \in 0 .. m
      /\ place \in [n + 1 .. m + 1 -> Int]
  BY LenProperties DEF Layout
<1>2. /\ rest \in Seq(Bytes) /\ Len(rest) = Len(all) - c
      /\ \A i \in 1 .. Len(all) - c : rest[i] = all[i + c]
  BY <1>1, FirstAndRest
<1>3. \A k \in n2 + 1 .. m + 1 : k \in n + 1 .. m + 1 /\ next[k] = place[k] - c /\ place[k] \in Int
  BY <1>1, Sizes
<1>4. next \in [n2 + 1 .. m + 1 -> Int]
  BY <1>1, <1>3
<1> HIDE DEF rest, next
<1>5. n2 \in 0 .. m /\ n2 + 1 \in n2 + 1 .. m + 1 /\ m + 1 \in n2 + 1 .. m + 1
  BY <1>1, Sizes
<1>6. \/ size2 = 0 /\ next[n2 + 1] = 0
      \/ n2 < m /\ size2 = Length(n2 + 1) /\ next[n2 + 1] = -Header
  BY <1>3, <1>5
<1>7. ASSUME NEW k \in n2 + 1 .. m
      PROVE  /\ k \in n + 1 .. m /\ k + 1 \in n2 + 1 .. m + 1 /\ k \in n2 + 1 .. m + 1
             /\ k \in 1 .. MaxMessages /\ Block(k) \in Nat
  BY <1>1, Sizes, SMTT(30)
<1>8. ASSUME NEW k \in n2 + 1 .. m PROVE next[k + 1] = next[k] + Block(k)
  <2>1. place[k + 1] = place[k] + Block(k)
    BY <1>7 DEF Layout
  <2> QED
    BY <1>3, <1>7, <2>1
<1>9. ASSUME NEW k \in n2 + 1 .. m, NEW l \in k + 1 .. m + 1
      PROVE  next[k] + Block(k) <= next[l]
  <2>1. place[k] + Block(k) <= place[l]
    BY <1>7 DEF Layout
  <2>2. l \in n2 + 1 .. m + 1
    BY <1>1, Sizes
  <2> QED
    BY <1>3, <1>7, <2>1, <2>2, SMTT(30)
<1>10. Len(rest) <= next[m + 1] /\ (o => Len(rest) = next[m + 1])
  <2>1. Len(all) <= place[m + 1] /\ (o => Len(all) = place[m + 1])
    BY DEF Layout
  <2>2. next[m + 1] = place[m + 1] - c /\ place[m + 1] \in Int
    BY <1>3, <1>5
  <2>3. Len(rest) = Len(all) - c /\ Len(all) \in Int /\ c \in Int
    BY <1>1, <1>2
  <2> QED
    BY <2>1, <2>2, <2>3
<1>11. ASSUME NEW k \in n2 + 1 .. m, NEW i \in 1 .. Block(k), next[k] + i \in 1 .. Len(rest)
       PROVE  rest[next[k] + i] = <<k, i>>
  <2>1. next[k] = place[k] - c /\ place[k] \in Int /\ i \in Int
    BY <1>3, <1>7
  <2>2. next[k] + i \in 1 .. Len(all) - c /\ next[k] + i + c = place[k] + i
    BY <1>2, <1>11, <2>1
  <2>3. rest[next[k] + i] = all[place[k] + i]
    BY <1>2, <2>2
  <2>4. place[k] + i \in 1 .. Len(all)
    <3>1. c \in Nat /\ Len(all) \in Nat /\ next[k] \in Int
      BY <1>1, <2>1
    <3> QED
      BY <2>1, <2>2, <3>1, Shifted
  <2>5. all[place[k] + i] = <<k, i>>
    BY <1>7, <2>4 DEF Layout
  <2> QED
    BY <2>3, <2>5
<1>12. Layout(rest, n2, m, size2, o, next)
  BY <1>1, <1>2, <1>4, <1>5, <1>6, <1>8, <1>9, <1>10, <1>11 DEF Layout
<1> QED
  BY <1>12 DEF Fits, rest

\* The first bytes of what fits.
LEMMA FirstBytes ==
    ASSUME NEW b \in Seq(Bytes), NEW w \in Seq(Bytes)
    PROVE  /\ Len(b) \in Nat /\ Len(w) \in Nat
           /\ Len(b \o w) = Len(b) + Len(w)
           /\ \A i \in 1 .. Len(b) : (b \o w)[i] = b[i]
<1>1. Len(b) \in Nat /\ Len(w) \in Nat
  BY LenProperties
<1>2. /\ Len(b \o w) = Len(b) + Len(w)
      /\ \A i \in 1 .. Len(b) + Len(w) :
            (b \o w)[i] = IF i <= Len(b) THEN b[i] ELSE w[i - Len(b)]
  BY ConcatProperties
<1> QED
  BY <1>1, <1>2

\* A length that is read is that of the next message.
LEMMA LengthRead ==
    ASSUME NEW b \in Seq(Bytes), NEW w \in Seq(Bytes), NEW n, NEW m, NEW o,
           Fits(b \o w, n, m, 0, o), Len(b) >= Header
    PROVE  /\ n < m /\ Claimed(b) = Length(n + 1)
           /\ Fits(SubSeq(b, Header + 1, Len(b)) \o w, n, m, Length(n + 1), o)
<1> DEFINE all == b \o w
<1>1. /\ Len(b) \in Nat /\ Len(w) \in Nat /\ Len(all) = Len(b) + Len(w)
      /\ \A i \in 1 .. Len(b) : all[i] = b[i]
  BY FirstBytes
<1>2. PICK place : Layout(all, n, m, 0, o, place)
  BY DEF Fits
<1> HIDE DEF all
<1>3. m \in 0 .. MaxMessages /\ n \in 0 .. m /\ Len(all) <= place[m + 1]
  BY <1>2 DEF Layout
<1>4. n < m => n + 1 \in 1 .. MaxMessages
  BY <1>3, Sizes
<1>5. place[n + 1] = 0
  BY <1>2, <1>4, Sizes DEF Layout
<1>6. n < m
  <2>1. Len(all) > 0
    BY <1>1, Sizes
  <2>2. n = m => place[m + 1] = 0
    BY <1>5
  <2> QED
    BY <1>1, <1>3, <2>1, <2>2, Sizes
<1>7. /\ Header \in Nat \ {0} /\ Length(n + 1) \in Nat \ {0}
      /\ Block(n + 1) = Header + Length(n + 1)
  BY <1>4, <1>6, Sizes DEF Block
<1>8. b[1] = <<n + 1, 1>>
  <2>1. n + 1 \in n + 1 .. m /\ 1 \in 1 .. Block(n + 1) /\ place[n + 1] + 1 \in 1 .. Len(all)
    BY <1>1, <1>3, <1>5, <1>6, <1>7
  <2>2. all[place[n + 1] + 1] = <<n + 1, 1>>
    BY <1>2, <2>1 DEF Layout
  <2>3. place[n + 1] + 1 = 1 /\ 1 \in 1 .. Len(b)
    BY <1>1, <1>5, <1>7
  <2> QED
    BY <1>1, <2>2, <2>3
<1>9. Claimed(b) = Length(n + 1)
  <2>1. Head(b) = b[1]
    BY SMT
  <2> QED
    BY <1>8, <2>1 DEF Claimed
<1>10. Fits(SubSeq(all, Header + 1, Len(all)), n, m, Length(n + 1), o)
  <2>1. Header \in 0 .. Len(all) /\ n \in n .. m /\ place[n + 1] - Header = -Header
    BY <1>1, <1>3, <1>5, <1>6, <1>7
  <2> QED
    BY <1>2, <1>6, <2>1, FitsRest
<1>11. SubSeq(b, Header + 1, Len(b)) \o w = SubSeq(all, Header + 1, Len(all))
  <2>1. Header \in 0 .. Len(b)
    BY <1>1, <1>7
  <2> QED
    BY <2>1, RestBeforeMore DEF all
<1> QED
  BY <1>6, <1>9, <1>10, <1>11

\* A text that is read is that of the next message.
LEMMA TextRead ==
    ASSUME NEW b \in Seq(Bytes), NEW w \in Seq(Bytes), NEW n, NEW m, NEW size, NEW o,
           Fits(b \o w, n, m, size, o), size # 0, Len(b) >= size
    PROVE  /\ n < m /\ n + 1 \in 1 .. MaxMessages
           /\ MessageOf(SubSeq(b, 1, size)) = n + 1
           /\ Fits(SubSeq(b, size + 1, Len(b)) \o w, n + 1, m, 0, o)
<1> DEFINE all == b \o w
           text == SubSeq(b, 1, size)
<1>1. /\ Len(b) \in Nat /\ Len(w) \in Nat /\ Len(all) = Len(b) + Len(w)
      /\ \A i \in 1 .. Len(b) : all[i] = b[i]
  BY FirstBytes
<1>2. PICK place : Layout(all, n, m, size, o, place)
  BY DEF Fits
<1> HIDE DEF all
<1>3. /\ m \in 0 .. MaxMessages /\ n \in 0 .. m /\ n < m
      /\ size = Length(n + 1) /\ place[n + 1] = -Header
  BY <1>2 DEF Layout
<1>4. n + 1 \in 1 .. MaxMessages
  BY <1>3, Sizes
<1>5. /\ Header \in Nat \ {0} /\ size \in Nat \ {0}
      /\ Block(n + 1) = Header + size
  BY <1>3, <1>4, Sizes DEF Block
<1>6. text \in Seq(Bytes) /\ Len(text) = size /\ \A i \in 1 .. size : text[i] = b[i]
  <2>1. size \in 0 .. Len(b)
    BY <1>1, <1>5
  <2> QED
    BY <2>1, FirstAndRest
<1> HIDE DEF text
<1>7. ASSUME NEW i \in 1 .. size PROVE text[i] = <<n + 1, Header + i>>
  <2>1. /\ n + 1 \in n + 1 .. m /\ Header + i \in 1 .. Block(n + 1)
        /\ place[n + 1] + (Header + i) = i /\ i \in 1 .. Len(all) /\ i \in 1 .. Len(b)
    BY <1>1, <1>3, <1>5
  <2>2. all[place[n + 1] + (Header + i)] = <<n + 1, Header + i>>
    BY <1>2, <2>1 DEF Layout
  <2> QED
    BY <1>1, <1>6, <2>1, <2>2
<1>8. MessageOf(text) = n + 1
  <2>1. Head(text) = text[1] /\ 1 \in 1 .. size
    BY <1>5, <1>6, SMT
  <2>2. Head(text)[1] = n + 1 /\ Head(text)[2] = Header + 1
    BY <1>7, <2>1
  <2>3. \A i \in DOMAIN text : text[i] = <<Head(text)[1], Header + i>>
    BY <1>6, <1>7, <2>2, LenProperties
  <2> QED
    BY <1>3, <1>6, <2>2, <2>3 DEF MessageOf
<1>9. Fits(SubSeq(all, size + 1, Len(all)), n + 1, m, 0, o)
  <2>1. place[(n + 1) + 1] = place[n + 1] + Block(n + 1)
    BY <1>2, <1>3 DEF Layout
  <2>2. size \in 0 .. Len(all) /\ n + 1 \in n .. m /\ place[(n + 1) + 1] - size = 0
    BY <1>1, <1>3, <1>5, <2>1, SMTT(30)
  <2> QED
    BY <1>2, <2>2, FitsRest
<1>10. SubSeq(b, size + 1, Len(b)) \o w = SubSeq(all, size + 1, Len(all))
  <2>1. size \in 0 .. Len(b)
    BY <1>1, <1>5
  <2> QED
    BY <2>1, RestBeforeMore DEF all
<1> QED
  BY <1>3, <1>4, <1>8, <1>9, <1>10 DEF text

-----------------------------------------------------------------------------
(* The invariant: on every stream, what is in the buffer and on the wire   *)
(* are the messages that were written and not read.                        *)

SizesRead == {0} \union {Length(k) : k \in 1 .. MaxMessages}

Fitted(s) == Fits(buffer[s] \o wire[s], Len(got[s]), sent[s], nextBlockSize[s], open[s])

FramingInv == TypeOK /\ ReadInOrder /\ NothingLeft /\ \A s \in Streams : Fitted(s)

LEMMA SizeType ==
    ASSUME NEW all, NEW n, NEW m, NEW size, NEW o, Fits(all, n, m, size, o)
    PROVE  size \in SizesRead
<1>1. PICK place : Layout(all, n, m, size, o, place)
  BY DEF Fits
<1>2. m \in 0 .. MaxMessages /\ n \in 0 .. m /\ (size = 0 \/ (n < m /\ size = Length(n + 1)))
  BY <1>1 DEF Layout
<1>3. n < m => n + 1 \in 1 .. MaxMessages
  BY <1>2, Sizes
<1> QED
  BY <1>2, <1>3 DEF SizesRead

LEMMA FramingInit == Init => FramingInv
<1> SUFFICES ASSUME Init PROVE FramingInv
  OBVIOUS
<1>1. <<>> \in Seq(Bytes) /\ <<>> \in Seq(0 .. MaxMessages) /\ Len(<<>>) = 0 /\ DOMAIN <<>> = {}
  BY EmptySeq
<1>2. <<>> \o <<>> = <<>>
  BY <1>1, ConcatEmptySeq
<1>3. TypeOK
  <2>1. 0 \in 0 .. MaxMessages
    BY Sizes
  <2>2. /\ wire \in [Streams -> Seq(Bytes)] /\ buffer \in [Streams -> Seq(Bytes)]
        /\ got \in [Streams -> Seq(0 .. MaxMessages)]
    BY <1>1, Zenon DEF Init
  <2>3. /\ sent \in [Streams -> 0 .. MaxMessages] /\ open \in [Streams -> BOOLEAN]
        /\ nextBlockSize \in [Streams -> {0} \union {Length(k) : k \in 1 .. MaxMessages}]
    BY <2>1 DEF Init
  <2> QED
    BY <2>2, <2>3 DEF Init, TypeOK
<1>4. ReadInOrder /\ NothingLeft
  BY <1>1 DEF Init, ReadInOrder, NothingLeft, Streams
<1>5. ASSUME NEW s \in Streams PROVE Fitted(s)
  <2>1. /\ buffer[s] = <<>> /\ wire[s] = <<>> /\ got[s] = <<>> /\ sent[s] = 0
        /\ nextBlockSize[s] = 0
    BY DEF Init
  <2> QED
    BY <1>1, <1>2, <2>1, NothingWritten DEF Fitted
<1> QED
  BY <1>3, <1>4, <1>5 DEF FramingInv

\* A step that changes what belongs to one stream.
Becomes(s, m, w, o) ==
    /\ m \in 0 .. MaxMessages /\ w \in Seq(Bytes) /\ o \in BOOLEAN
    /\ sent' = [sent EXCEPT ![s] = m] /\ wire' = [wire EXCEPT ![s] = w]
    /\ open' = [open EXCEPT ![s] = o]

IsRead(s, b, size, g) ==
    /\ b \in Seq(Bytes) /\ g \in Seq(0 .. MaxMessages) /\ \A i \in DOMAIN g : g[i] = i
    /\ buffer' = [buffer EXCEPT ![s] = b]
    /\ nextBlockSize' = [nextBlockSize EXCEPT ![s] = size]
    /\ got' = [got EXCEPT ![s] = g]

Serves(s, b) ==
    /\ reading' \in SUBSET Up /\ waiting' \in BOOLEAN
    /\ (s \in Up /\ s \notin reading' => b = <<>>)
    /\ \A u \in Up : u # s /\ u \notin reading' => u \notin reading

LEMMA OneStream ==
    ASSUME FramingInv, NEW s \in Streams, NEW m, NEW w, NEW b, NEW size, NEW g, NEW o,
           Becomes(s, m, w, o), IsRead(s, b, size, g), Serves(s, b),
           Fits(b \o w, Len(g), m, size, o)
    PROVE  FramingInv'
<1>1. /\ m \in 0 .. MaxMessages /\ w \in Seq(Bytes) /\ o \in BOOLEAN
      /\ sent' = [sent EXCEPT ![s] = m] /\ wire' = [wire EXCEPT ![s] = w]
      /\ open' = [open EXCEPT ![s] = o]
      /\ b \in Seq(Bytes) /\ g \in Seq(0 .. MaxMessages) /\ \A i \in DOMAIN g : g[i] = i
      /\ buffer' = [buffer EXCEPT ![s] = b]
      /\ nextBlockSize' = [nextBlockSize EXCEPT ![s] = size]
      /\ got' = [got EXCEPT ![s] = g]
      /\ reading' \in SUBSET Up /\ waiting' \in BOOLEAN
      /\ (s \in Up /\ s \notin reading' => b = <<>>)
      /\ \A u \in Up : u # s /\ u \notin reading' => u \notin reading
  BY DEF Becomes, IsRead, Serves
<1>2. /\ sent \in [Streams -> 0 .. MaxMessages]
      /\ wire \in [Streams -> Seq(Bytes)] /\ buffer \in [Streams -> Seq(Bytes)]
      /\ nextBlockSize \in [Streams -> SizesRead]
      /\ got \in [Streams -> Seq(0 .. MaxMessages)] /\ open \in [Streams -> BOOLEAN]
  BY DEF FramingInv, TypeOK, SizesRead
<1>3. /\ sent'[s] = m /\ wire'[s] = w /\ buffer'[s] = b /\ nextBlockSize'[s] = size
      /\ got'[s] = g /\ open'[s] = o
  BY <1>1, <1>2
<1>4. ASSUME NEW u \in Streams, u # s
      PROVE  /\ sent'[u] = sent[u] /\ wire'[u] = wire[u] /\ buffer'[u] = buffer[u]
             /\ nextBlockSize'[u] = nextBlockSize[u] /\ got'[u] = got[u] /\ open'[u] = open[u]
  BY <1>1, <1>2, <1>4
<1>5. TypeOK'
  <2>1. size \in SizesRead
    BY SizeType
  <2>2. /\ sent' \in [Streams -> 0 .. MaxMessages]
        /\ wire' \in [Streams -> Seq(Bytes)] /\ buffer' \in [Streams -> Seq(Bytes)]
        /\ nextBlockSize' \in [Streams -> SizesRead]
        /\ got' \in [Streams -> Seq(0 .. MaxMessages)] /\ open' \in [Streams -> BOOLEAN]
    BY <1>1, <1>2, <2>1
  <2> QED
    BY <1>1, <2>2 DEF TypeOK, SizesRead
<1>6. ReadInOrder'
  <2>1. ASSUME NEW u \in Streams PROVE \A i \in DOMAIN got'[u] : got'[u][i] = i
    BY <1>1, <1>3, <1>4 DEF FramingInv, ReadInOrder
  <2> QED
    BY <2>1 DEF ReadInOrder
<1>7. NothingLeft'
  <2>1. ASSUME NEW u \in Up, u \notin reading' PROVE buffer'[u] = <<>>
    BY <1>1, <1>3, <1>4, <2>1 DEF FramingInv, NothingLeft, Streams
  <2> QED
    BY <2>1 DEF NothingLeft
<1>8. ASSUME NEW u \in Streams PROVE Fitted(u)'
  <2>1. CASE u = s
    BY <1>3, <2>1 DEF Fitted
  <2>2. CASE u # s
    BY <1>4, <2>2 DEF Fitted, FramingInv
  <2> QED
    BY <2>1, <2>2
<1> QED
  BY <1>5, <1>6, <1>7, <1>8 DEF FramingInv

LEMMA Unexcepted ==
  ASSUME NEW S, NEW T, NEW f \in [S -> T], NEW s \in S
  PROVE  f = [f EXCEPT ![s] = f[s]]
  OBVIOUS

\* recvObject of either program.
LEMMA Received ==
    ASSUME FramingInv, NEW s \in Streams, NEW bytes \in Seq(Bytes), NEW w \in Seq(Bytes),
           Fits(bytes \o w, Len(got[s]), sent[s], nextBlockSize[s], open[s]),
           recvObject(s, bytes)
    PROVE  \E b, g, size :
              IsRead(s, b, size, g) /\ Fits(b \o w, Len(g), sent[s], size, open[s])
<1> DEFINE n == Len(got[s])
           old == nextBlockSize[s]
           rest == AfterLength(bytes, old)
           size == LengthOf(bytes, old)
<1>1. /\ nextBlockSize \in [Streams -> SizesRead] /\ got \in [Streams -> Seq(0 .. MaxMessages)]
      /\ got[s] \in Seq(0 .. MaxMessages) /\ old \in SizesRead
      /\ \A i \in DOMAIN got[s] : got[s][i] = i
  BY DEF FramingInv, TypeOK, ReadInOrder, SizesRead
<1>2. /\ nextBlockSize = [nextBlockSize EXCEPT ![s] = old]
      /\ got = [got EXCEPT ![s] = got[s]]
  BY <1>1, Unexcepted
<1>3. CASE ~ LengthHere(bytes, old)
  <2>1. buffer' = [buffer EXCEPT ![s] = bytes] /\ UNCHANGED <<nextBlockSize, got>>
    BY <1>3 DEF recvObject
  <2>2. IsRead(s, bytes, old, got[s])
    BY <1>1, <1>2, <2>1 DEF IsRead
  <2> QED
    BY <2>2
<1>4. ASSUME LengthHere(bytes, old)
      PROVE  rest \in Seq(Bytes) /\ size # 0 /\ Fits(rest \o w, n, sent[s], size, open[s])
  <2>1. CASE old = 0
    <3>1. Len(bytes) >= Header
      BY <1>4, <2>1 DEF LengthHere
    <3>2. Fits(bytes \o w, n, sent[s], 0, open[s])
      BY <2>1
    <3>3. /\ n < sent[s] /\ Claimed(bytes) = Length(n + 1)
          /\ Fits(SubSeq(bytes, Header + 1, Len(bytes)) \o w, n, sent[s], Length(n + 1), open[s])
      BY <3>1, <3>2, LengthRead
    <3>4. rest = SubSeq(bytes, Header + 1, Len(bytes)) /\ size = Length(n + 1)
      BY <2>1, <3>3 DEF AfterLength, LengthOf
    <3>5. rest \in Seq(Bytes)
      <4>1. Header \in 0 .. Len(bytes) /\ Len(bytes) \in Nat
        BY <3>1, LenProperties, Sizes
      <4> QED
        BY <3>4, <4>1, FirstAndRest
    <3>6. size # 0
      <4>1. n \in Nat /\ sent[s] \in 0 .. MaxMessages
        BY <1>1, LenProperties DEF FramingInv, TypeOK
      <4>2. n + 1 \in 1 .. MaxMessages
        BY <3>3, <4>1, Sizes, SMTT(30)
      <4> QED
        BY <3>4, <4>2, Sizes
    <3> QED
      BY <3>3, <3>4, <3>5, <3>6
  <2>2. CASE old # 0
    BY <2>2 DEF AfterLength, LengthOf
  <2> QED
    BY <2>1, <2>2
<1>5. CASE LengthHere(bytes, old) /\ Len(rest) < size
  <2>1. /\ buffer' = [buffer EXCEPT ![s] = rest] /\ UNCHANGED got
        /\ nextBlockSize' = [nextBlockSize EXCEPT ![s] = size]
    BY <1>5 DEF recvObject
  <2> HIDE DEF rest, size
  <2>2. IsRead(s, rest, size, got[s])
    BY <1>1, <1>2, <1>4, <1>5, <2>1 DEF IsRead
  <2> QED
    BY <1>4, <1>5, <2>2
<1>6. CASE LengthHere(bytes, old) /\ ~ Len(rest) < size
  <2> DEFINE b == SubSeq(rest, size + 1, Len(rest))
             g == Append(got[s], MessageOf(SubSeq(rest, 1, size)))
  <2>1. /\ buffer' = [buffer EXCEPT ![s] = b] /\ got' = [got EXCEPT ![s] = g]
        /\ nextBlockSize' = [nextBlockSize EXCEPT ![s] = 0]
    BY <1>6 DEF recvObject, AfterMessage
  <2>2. rest \in Seq(Bytes) /\ size # 0 /\ Fits(rest \o w, n, sent[s], size, open[s])
    BY <1>4, <1>6
  <2>3. size \in SizesRead /\ size \in Nat /\ Len(rest) \in Nat
    BY <2>2, SizeType, LenProperties, Sizes DEF SizesRead
  <2>4. Len(rest) >= size
    BY <1>6, <2>3
  <2> HIDE DEF rest, size
  <2>5. /\ n + 1 \in 1 .. MaxMessages /\ MessageOf(SubSeq(rest, 1, size)) = n + 1
        /\ Fits(b \o w, n + 1, sent[s], 0, open[s])
    BY <2>2, <2>4, TextRead
  <2>6. b \in Seq(Bytes)
    BY <2>2, <2>3, <2>4, FirstAndRest
  <2>7. /\ g \in Seq(0 .. MaxMessages) /\ Len(g) = n + 1 /\ g[n + 1] = n + 1
        /\ \A i \in 1 .. n : g[i] = got[s][i]
    <3>1. n + 1 \in 0 .. MaxMessages
      BY <2>5
    <3> QED
      BY <1>1, <2>5, <3>1, AppendProperties
  <2>8. \A i \in DOMAIN g : g[i] = i
    <3>1. n \in Nat /\ DOMAIN got[s] = 1 .. n /\ DOMAIN g = 1 .. n + 1
      BY <1>1, <2>7, LenProperties
    <3> HIDE DEF g
    <3>2. ASSUME NEW i \in DOMAIN g PROVE g[i] = i
      <4>1. i \in DOMAIN got[s] \/ i = n + 1
        BY <3>1
      <4>2. CASE i \in DOMAIN got[s]
        BY <1>1, <2>7, <3>1, <4>2
      <4> QED
        BY <2>7, <4>1, <4>2
    <3> QED
      BY <3>2
  <2> HIDE DEF b, g
  <2>9. IsRead(s, b, 0, g)
    BY <2>1, <2>6, <2>7, <2>8 DEF IsRead
  <2> QED
    BY <2>5, <2>7, <2>9
<1> QED
  BY <1>3, <1>5, <1>6

-----------------------------------------------------------------------------
(* Every step.                                                             *)

LEMMA Known ==
    ASSUME FramingInv, NEW s \in Streams
    PROVE  /\ sent[s] \in 0 .. MaxMessages /\ open[s] \in BOOLEAN
           /\ wire[s] \in Seq(Bytes) /\ buffer[s] \in Seq(Bytes)
           /\ got[s] \in Seq(0 .. MaxMessages) /\ \A i \in DOMAIN got[s] : got[s][i] = i
           /\ Fits(buffer[s] \o wire[s], Len(got[s]), sent[s], nextBlockSize[s], open[s])
           /\ sent = [sent EXCEPT ![s] = sent[s]] /\ wire = [wire EXCEPT ![s] = wire[s]]
           /\ buffer = [buffer EXCEPT ![s] = buffer[s]] /\ got = [got EXCEPT ![s] = got[s]]
           /\ nextBlockSize = [nextBlockSize EXCEPT ![s] = nextBlockSize[s]]
           /\ open = [open EXCEPT ![s] = open[s]]
           /\ reading \in SUBSET Up /\ waiting \in BOOLEAN
           /\ (s \in Up /\ s \notin reading => buffer[s] = <<>>)
<1>1. /\ sent \in [Streams -> 0 .. MaxMessages]
      /\ wire \in [Streams -> Seq(Bytes)] /\ buffer \in [Streams -> Seq(Bytes)]
      /\ nextBlockSize \in [Streams -> SizesRead]
      /\ got \in [Streams -> Seq(0 .. MaxMessages)] /\ open \in [Streams -> BOOLEAN]
  BY DEF FramingInv, TypeOK, SizesRead
<1>2. /\ sent = [sent EXCEPT ![s] = sent[s]] /\ wire = [wire EXCEPT ![s] = wire[s]]
      /\ buffer = [buffer EXCEPT ![s] = buffer[s]] /\ got = [got EXCEPT ![s] = got[s]]
      /\ nextBlockSize = [nextBlockSize EXCEPT ![s] = nextBlockSize[s]]
      /\ open = [open EXCEPT ![s] = open[s]]
  BY <1>1
<1>3. /\ sent[s] \in 0 .. MaxMessages /\ open[s] \in BOOLEAN
      /\ wire[s] \in Seq(Bytes) /\ buffer[s] \in Seq(Bytes) /\ got[s] \in Seq(0 .. MaxMessages)
  BY <1>1
<1>4. reading \in SUBSET Up /\ waiting \in BOOLEAN /\ \A i \in DOMAIN got[s] : got[s][i] = i
  BY DEF FramingInv, TypeOK, ReadInOrder
<1>5. Fits(buffer[s] \o wire[s], Len(got[s]), sent[s], nextBlockSize[s], open[s])
  BY DEF FramingInv, Fitted
<1>6. s \in Up /\ s \notin reading => buffer[s] = <<>>
  BY DEF FramingInv, NothingLeft
<1> QED
  BY <1>2, <1>3, <1>4, <1>5, <1>6

\* The readers do nothing.
LEMMA NotRead ==
    ASSUME FramingInv, NEW s \in Streams,
           UNCHANGED <<buffer, nextBlockSize, got, reading, waiting>>
    PROVE  IsRead(s, buffer[s], nextBlockSize[s], got[s]) /\ Serves(s, buffer[s])
  BY Known DEF IsRead, Serves

LEMMA BytesAssociative ==
    \A s, t, u \in Seq(Bytes) : (s \o t) \o u = s \o (t \o u)
  BY ConcatAssociative

LEMMA SendStep == ASSUME FramingInv, NEW s \in Streams, sendObject(s) PROVE FramingInv'
<1> DEFINE new == [i \in 1 .. Block(sent[s] + 1) |-> <<sent[s] + 1, i>>]
           w == wire[s] \o new
<1>1. /\ sent[s] \in 0 .. MaxMessages /\ open[s] \in BOOLEAN
      /\ wire[s] \in Seq(Bytes) /\ buffer[s] \in Seq(Bytes)
  BY Known
<1>2. /\ open[s] = TRUE /\ sent[s] < MaxMessages /\ sent[s] + 1 \in 0 .. MaxMessages
      /\ sent' = [sent EXCEPT ![s] = sent[s] + 1]
      /\ UNCHANGED <<open, buffer, nextBlockSize, got, reading, waiting>>
  BY <1>1, Sizes DEF sendObject, reader, slot
<1>3. wire' = [wire EXCEPT ![s] = w]
  <2>1. sent'[s] = sent[s] + 1
    BY <1>2 DEF FramingInv, TypeOK
  <2>2. wire' = [wire EXCEPT ![s] =
                    wire[s] \o [i \in 1 .. Block(sent'[s]) |-> <<sent'[s], i>>]]
    BY DEF sendObject, Block
  <2> QED
    BY <2>1, <2>2
<1>4. /\ new \in Seq(Bytes)
      /\ Fits((buffer[s] \o wire[s]) \o new, Len(got[s]), sent[s] + 1, nextBlockSize[s], TRUE)
  <2>1. Fits(buffer[s] \o wire[s], Len(got[s]), sent[s], nextBlockSize[s], TRUE)
    BY <1>2, Known
  <2> QED
    BY <1>2, <2>1, FitsLonger
<1> HIDE DEF new
<1>5. (buffer[s] \o wire[s]) \o new = buffer[s] \o w
  BY <1>1, <1>4, BytesAssociative
<1>6. w \in Seq(Bytes)
  BY <1>1, <1>4, ConcatProperties
<1> HIDE DEF w
<1>7. Becomes(s, sent[s] + 1, w, open[s])
  BY <1>1, <1>2, <1>3, <1>6, Known DEF Becomes
<1>8. Fits(buffer[s] \o w, Len(got[s]), sent[s] + 1, nextBlockSize[s], open[s])
  BY <1>2, <1>4, <1>5
<1> QED
  BY <1>2, <1>7, <1>8, NotRead, OneStream

LEMMA SumBound == ASSUME NEW i \in Nat, NEW l \in Nat, NEW k \in 0 .. l PROVE i + k \in 0 .. i + l
  OBVIOUS

LEMMA CloseStep == ASSUME FramingInv, NEW s \in Streams, Close(s) PROVE FramingInv'
<1>1. PICK k \in 0 .. Len(wire[s]) : wire' = [wire EXCEPT ![s] = SubSeq(wire[s], 1, k)]
  BY DEF Close
<1> DEFINE w == SubSeq(wire[s], 1, k)
<1>2. /\ open' = [open EXCEPT ![s] = FALSE]
      /\ UNCHANGED <<sent, buffer, nextBlockSize, got, reading, waiting>>
  BY DEF Close, reader, slot
<1>3. wire[s] \in Seq(Bytes) /\ buffer[s] \in Seq(Bytes)
  BY Known
<1>4. w \in Seq(Bytes)
  BY <1>3, FirstAndRest
<1>5. buffer[s] \o w = SubSeq(buffer[s] \o wire[s], 1, Len(buffer[s]) + k)
  BY <1>3, MoreOfTheNext
<1>6. Len(buffer[s]) + k \in 0 .. Len(buffer[s] \o wire[s])
  <2>1. /\ Len(buffer[s]) \in Nat /\ Len(wire[s]) \in Nat
        /\ Len(buffer[s] \o wire[s]) = Len(buffer[s]) + Len(wire[s])
    BY <1>3, FirstBytes
  <2>2. Len(buffer[s]) + k \in 0 .. Len(buffer[s]) + Len(wire[s])
    BY <2>1, SumBound
  <2> QED
    BY <2>1, <2>2
<1>7. Fits(buffer[s] \o w, Len(got[s]), sent[s], nextBlockSize[s], FALSE)
  <2>1. Fits(buffer[s] \o wire[s], Len(got[s]), sent[s], nextBlockSize[s], open[s])
    BY Known
  <2>2. Fits(SubSeq(buffer[s] \o wire[s], 1, Len(buffer[s]) + k),
             Len(got[s]), sent[s], nextBlockSize[s], FALSE)
    BY <1>6, <2>1, FitsCut
  <2> QED
    BY <1>5, <2>2
<1>8. wire' = [wire EXCEPT ![s] = w]
  BY <1>1
<1> HIDE DEF w
<1>9. Becomes(s, sent[s], w, FALSE)
  BY <1>2, <1>4, <1>8, Known DEF Becomes
<1> QED
  BY <1>2, <1>7, <1>9, NotRead, OneStream

\* Bytes that arrive keep the sequence as it is.
LEMMA Arrives ==
    ASSUME FramingInv, NEW s \in Streams, NEW k \in 1 .. Len(wire[s])
    PROVE  LET bytes == buffer[s] \o SubSeq(wire[s], 1, k)
               w == SubSeq(wire[s], k + 1, Len(wire[s]))
           IN  /\ bytes \in Seq(Bytes) /\ w \in Seq(Bytes)
               /\ Fits(bytes \o w, Len(got[s]), sent[s], nextBlockSize[s], open[s])
<1> DEFINE u == SubSeq(wire[s], 1, k)
           w == SubSeq(wire[s], k + 1, Len(wire[s]))
<1>1. k \in 0 .. Len(wire[s])
  OBVIOUS
<1>2. wire[s] \in Seq(Bytes) /\ buffer[s] \in Seq(Bytes)
  BY Known
<1>3. u \in Seq(Bytes) /\ w \in Seq(Bytes)
  BY <1>1, <1>2, FirstAndRest
<1>4. (buffer[s] \o u) \o w = buffer[s] \o wire[s]
  BY <1>1, <1>2, ArrivedAreNext
<1>5. buffer[s] \o u \in Seq(Bytes)
  BY <1>2, <1>3, ConcatProperties
<1>6. Fits(buffer[s] \o wire[s], Len(got[s]), sent[s], nextBlockSize[s], open[s])
  BY Known
<1> QED
  BY <1>3, <1>4, <1>5, <1>6

LEMMA ClientStep == ASSUME FramingInv, NEW s \in Down, readData(s) PROVE FramingInv'
<1>1. s \in Streams /\ s \notin Up
  BY FramingAssumption DEF Streams
<1>2. PICK k \in 1 .. Len(wire[s]) :
         Arrival(s, k) /\ recvObject(s, buffer[s] \o SubSeq(wire[s], 1, k))
  BY DEF readData
<1> DEFINE bytes == buffer[s] \o SubSeq(wire[s], 1, k)
           w == SubSeq(wire[s], k + 1, Len(wire[s]))
<1>3. /\ bytes \in Seq(Bytes) /\ w \in Seq(Bytes)
      /\ Fits(bytes \o w, Len(got[s]), sent[s], nextBlockSize[s], open[s])
  BY <1>1, <1>2, Arrives
<1>4. wire' = [wire EXCEPT ![s] = w] /\ recvObject(s, bytes)
  BY <1>2 DEF Arrival
<1> HIDE DEF bytes, w
<1>5. PICK b, g, size : IsRead(s, b, size, g) /\ Fits(b \o w, Len(g), sent[s], size, open[s])
  BY <1>1, <1>3, <1>4, Received
<1>6. UNCHANGED <<sent, open, reading, waiting>>
  BY DEF readData, slot
<1>7. Becomes(s, sent[s], w, open[s])
  BY <1>1, <1>3, <1>4, <1>6, Known DEF Becomes
<1>8. Serves(s, b)
  BY <1>1, <1>6, Known DEF Serves
<1> QED
  BY <1>1, <1>5, <1>7, <1>8, OneStream

LEMMA MoreStep == ASSUME FramingInv, NEW s \in Up, readDataSlot(s) \/ MoreBytes(s) PROVE FramingInv'
<1>1. s \in Streams
  BY DEF Streams
<1>2. PICK k \in 1 .. Len(wire[s]) :
         /\ Arrival(s, k)
         /\ buffer' = [buffer EXCEPT ![s] = buffer[s] \o SubSeq(wire[s], 1, k)]
  BY DEF readDataSlot, MoreBytes
<1> DEFINE bytes == buffer[s] \o SubSeq(wire[s], 1, k)
           w == SubSeq(wire[s], k + 1, Len(wire[s]))
<1>3. /\ bytes \in Seq(Bytes) /\ w \in Seq(Bytes)
      /\ Fits(bytes \o w, Len(got[s]), sent[s], nextBlockSize[s], open[s])
  BY <1>1, <1>2, Arrives
<1>4. wire' = [wire EXCEPT ![s] = w] /\ buffer' = [buffer EXCEPT ![s] = bytes]
  BY <1>2 DEF Arrival
<1> HIDE DEF bytes, w
<1>5. UNCHANGED <<sent, open, nextBlockSize, got>>
  BY DEF readDataSlot, MoreBytes
<1>6. /\ reading' = {s} /\ waiting' \in BOOLEAN
      /\ reading = {} \/ reading = {s}
  BY Known, <1>1 DEF readDataSlot, MoreBytes
<1>7. Becomes(s, sent[s], w, open[s]) /\ IsRead(s, bytes, nextBlockSize[s], got[s])
  BY <1>1, <1>3, <1>4, <1>5, Known DEF Becomes, IsRead
<1>8. Serves(s, bytes)
  BY <1>6 DEF Serves
<1> QED
  BY <1>1, <1>3, <1>7, <1>8, OneStream

LEMMA ReadStep == ASSUME FramingInv, NEW s \in Up, ReadOne(s) PROVE FramingInv'
<1>1. s \in Streams
  BY DEF Streams
<1>2. /\ buffer[s] \in Seq(Bytes) /\ wire[s] \in Seq(Bytes)
      /\ Fits(buffer[s] \o wire[s], Len(got[s]), sent[s], nextBlockSize[s], open[s])
      /\ recvObject(s, buffer[s])
  BY <1>1, Known DEF ReadOne
<1>3. PICK b, g, size :
         IsRead(s, b, size, g) /\ Fits(b \o wire[s], Len(g), sent[s], size, open[s])
  BY <1>1, <1>2, Received
<1>4. reading = {s} /\ UNCHANGED <<sent, wire, open, reading>> /\ waiting' \in BOOLEAN
  BY DEF ReadOne, Waits
<1>5. Becomes(s, sent[s], wire[s], open[s])
  BY <1>1, <1>4, Known DEF Becomes
<1>6. Serves(s, b)
  BY <1>4 DEF Serves
<1> QED
  BY <1>1, <1>3, <1>5, <1>6, OneStream

LEMMA OtherStep ==
    ASSUME FramingInv, NEW s \in Up, SlotEnds(s) \/ WaitEnds(s) PROVE FramingInv'
<1>1. s \in Streams
  BY DEF Streams
<1>2. UNCHANGED <<sent, wire, open, buffer, nextBlockSize, got>>
  BY DEF SlotEnds, WaitEnds, reader
<1>3. /\ reading = {s} /\ reading' \in SUBSET Up /\ waiting' \in BOOLEAN
      /\ (s \notin reading' => buffer[s] = <<>>)
  BY <1>1, Known DEF SlotEnds, WaitEnds, NoMore
<1>4. Becomes(s, sent[s], wire[s], open[s]) /\ IsRead(s, buffer[s], nextBlockSize[s], got[s])
  BY <1>1, <1>2, Known DEF Becomes, IsRead
<1>5. Serves(s, buffer[s])
  BY <1>3 DEF Serves
<1>6. Fits(buffer[s] \o wire[s], Len(got[s]), sent[s], nextBlockSize[s], open[s])
  BY <1>1, Known
<1> QED
  BY <1>1, <1>4, <1>5, <1>6, OneStream

LEMMA FramingStep == ASSUME FramingInv, [Next]_vars PROVE FramingInv'
<1>1. CASE UNCHANGED vars
  <2>1. UNCHANGED <<sent, wire, open, buffer, nextBlockSize, got, reading, waiting>>
    BY <1>1 DEF vars, reader, slot
  <2> QED
    BY <2>1 DEF FramingInv, TypeOK, ReadInOrder, NothingLeft, Fitted
<1>2. CASE Next
  BY <1>2, SendStep, CloseStep, ClientStep, MoreStep, ReadStep, OtherStep DEF Next, Server
<1> QED
  BY <1>1, <1>2

LEMMA FramingAlways == Spec => []FramingInv
  BY FramingInit, FramingStep, PTL DEF Spec

-----------------------------------------------------------------------------
(* The theorems.                                                           *)

\* Type correctness; nextBlockSize is 0 or the length of a message.
THEOREM FramingTypeCorrect == Spec => []TypeOK
<1>1. FramingInv => TypeOK
  BY DEF FramingInv
<1> QED
  BY <1>1, FramingAlways, PTL

\* Both programs read what was written, in order and once, however the network
\* cuts the bytes and whatever a timeout interrupts.
THEOREM AlwaysReadInOrder == Spec => []ReadInOrder
<1>1. FramingInv => ReadInOrder
  BY DEF FramingInv
<1> QED
  BY <1>1, FramingAlways, PTL

\* The slot of the server leaves no bytes behind for which no signal comes.
THEOREM NeverAnythingLeft == Spec => []NothingLeft
<1>1. FramingInv => NothingLeft
  BY DEF FramingInv
<1> QED
  BY <1>1, FramingAlways, PTL
-----------------------------------------------------------------------------
(* What GaClient assumes of readyRead.                                     *)

CompleteIn(b, m) == {k \in 1 .. m : <<k, Header + Length(k)>> \in Range(b)}

\* A set of natural numbers has a least element.
LEMMA Least ==
    ASSUME NEW S \in SUBSET Nat, S # {}
    PROVE  \E m \in S : \A k \in S : m <= k
<1> DEFINE R == {p \in Nat \X Nat : p[1] < p[2]}
<1>1. OpToRel(<, Nat) = R
  BY Zenon DEF OpToRel
<1>2. IsWellFoundedOn(R, Nat)
  BY <1>1, NatLessThanWellFounded, Zenon
<1>3. PICK m \in S : \A k \in S : ~ (<<k, m>> \in R)
  <2> HIDE DEF R
  <2> QED  BY <1>2, WFMin, Zenon
<1>4. ASSUME NEW k \in S PROVE m <= k
  <2>1. k \in Nat /\ m \in Nat
    OBVIOUS
  <2>2. k < m => <<k, m>> \in R
    BY <2>1
  <2> QED  BY <1>3, <2>1, <2>2
<1> QED  BY <1>4

LEMMA ByteOfFirst ==
    ASSUME NEW b \in Seq(Bytes), NEW w \in Seq(Bytes), NEW i \in 1 .. Len(b)
    PROVE  i \in 1 .. Len(b \o w) /\ (b \o w)[i] = b[i]
<1> DEFINE all == b \o w
<1>1. /\ Len(b) \in Nat /\ Len(w) \in Nat /\ Len(all) = Len(b) + Len(w)
      /\ \A j \in 1 .. Len(b) : all[j] = b[j]
  BY FirstBytes
<1> HIDE DEF all
<1>2. i \in 1 .. Len(all) /\ all[i] = b[i]
  BY <1>1
<1> QED  BY <1>2 DEF all

\* Every byte belongs to a message that was written and not read.
LEMMA BytesBelong ==
    ASSUME NEW all, NEW n, NEW m, NEW size, NEW o, NEW place,
           Layout(all, n, m, size, o, place), NEW i \in 1 .. Len(all)
    PROVE  \E k \in n + 1 .. m : \E j \in 1 .. Block(k) :
              place[k] + j = i /\ all[i] = <<k, j>>
<1>1. /\ m \in 0 .. MaxMessages /\ n \in 0 .. m /\ place \in [n + 1 .. m + 1 -> Int]
      /\ Len(all) <= place[m + 1] /\ Len(all) \in Nat
      /\ place[n + 1] \in {0, -Header}
  BY LenProperties DEF Layout
<1> DEFINE Behind == {k \in n + 1 .. m + 1 : i <= place[k]}
<1>2. m + 1 \in Behind
  BY <1>1, Sizes
<1>3. PICK l \in Behind : \A k \in Behind : l <= k
  <2>1. Behind \in SUBSET Nat
    BY <1>1
  <2> QED  BY <1>2, <2>1, Least
<1>4. l # n + 1
  BY <1>1, <1>3, Sizes
<1>5. l - 1 \in n + 1 .. m /\ l - 1 \notin Behind /\ l - 1 \in 1 .. MaxMessages
  BY <1>1, <1>3, <1>4, Sizes
<1>6. place[l] = place[l - 1] + Block(l - 1)
  <2>1. \A k \in n + 1 .. m : place[k + 1] = place[k] + Block(k)
    BY DEF Layout
  <2>2. l - 1 + 1 = l
    BY <1>1, <1>3
  <2> QED  BY <1>5, <2>1, <2>2
<1>7. place[l - 1] \in Int /\ place[l - 1] < i /\ i <= place[l] /\ Block(l - 1) \in Nat
  BY <1>1, <1>3, <1>5, Sizes
<1>8. i - place[l - 1] \in 1 .. Block(l - 1) /\ place[l - 1] + (i - place[l - 1]) = i
  BY <1>6, <1>7
<1>9. all[i] = <<l - 1, i - place[l - 1]>>
  <2>1. \A j \in 1 .. Block(l - 1) :
            place[l - 1] + j \in 1 .. Len(all) => all[place[l - 1] + j] = <<l - 1, j>>
    BY <1>5 DEF Layout
  <2> QED  BY <1>8, <2>1
<1> QED  BY <1>5, <1>8, <1>9

\* A message is complete if the place of the next one is within the bytes.
LEMMA CompleteAre ==
    ASSUME NEW b \in Seq(Bytes), NEW w \in Seq(Bytes), NEW n, NEW m, NEW size, NEW o,
           NEW place, Layout(b \o w, n, m, size, o, place)
    PROVE  CompleteIn(b, m) = {k \in n + 1 .. m : place[k + 1] <= Len(b)}
<1> DEFINE all == b \o w
<1>1. /\ Len(b) \in Nat /\ Len(w) \in Nat /\ Len(all) = Len(b) + Len(w)
      /\ \A i \in 1 .. Len(b) : all[i] = b[i]
  BY FirstBytes
<1>2. Range(b) = {b[i] : i \in 1 .. Len(b)}
  BY LenProperties DEF Range
<1>3. Layout(all, n, m, size, o, place)
  OBVIOUS
<1> HIDE DEF all
<1>4. /\ m \in 0 .. MaxMessages /\ n \in 0 .. m /\ place \in [n + 1 .. m + 1 -> Int]
      /\ place[n + 1] \in {0, -Header}
      /\ \A k \in n + 1 .. m : place[k + 1] = place[k] + Block(k)
      /\ \A k \in n + 1 .. m : \A l \in k + 1 .. m + 1 : place[k] + Block(k) <= place[l]
      /\ \A k \in n + 1 .. m : \A i \in 1 .. Block(k) :
            place[k] + i \in 1 .. Len(all) => all[place[k] + i] = <<k, i>>
  BY <1>3 DEF Layout
<1>5. \A k \in n + 1 .. m : k \in 1 .. MaxMessages /\ k \in 1 .. m /\ place[k] \in Int
  BY <1>4, Sizes
<1>6. \A i \in 1 .. Len(all) : \E h \in n + 1 .. m : \E j \in 1 .. Block(h) :
         place[h] + j = i /\ all[i] = <<h, j>>
  <2>1. ASSUME NEW i \in 1 .. Len(all)
        PROVE  \E h \in n + 1 .. m : \E j \in 1 .. Block(h) :
                  place[h] + j = i /\ all[i] = <<h, j>>
    BY <1>3, BytesBelong
  <2> QED  BY <2>1
<1>7. ASSUME NEW k \in CompleteIn(b, m)
      PROVE  k \in n + 1 .. m /\ place[k + 1] <= Len(b)
  <2>1. PICK i \in 1 .. Len(b) : b[i] = <<k, Header + Length(k)>>
    BY <1>2 DEF CompleteIn
  <2>2. i \in 1 .. Len(all) /\ all[i] = b[i]
    BY ByteOfFirst DEF all
  <2>3. \E h \in n + 1 .. m : \E j \in 1 .. Block(h) : place[h] + j = i /\ all[i] = <<h, j>>
    BY <2>2, <1>6
  <2>4. PICK h \in n + 1 .. m : \E j \in 1 .. Block(h) : place[h] + j = i /\ b[i] = <<h, j>>
    BY <2>2, <2>3
  <2>5. PICK j \in 1 .. Block(h) : place[h] + j = i /\ b[i] = <<h, j>>
    BY <2>4
  <2>6. h = k /\ j = Block(k)
    BY <2>1, <2>5 DEF Block
  <2> QED  BY <1>4, <2>5, <2>6
<1>8. ASSUME NEW k \in n + 1 .. m, place[k + 1] <= Len(b)
      PROVE  k \in CompleteIn(b, m)
  <2>1. Block(k) \in Nat \ {0} /\ Block(k) = Header + Length(k) /\ Length(k) \in Nat \ {0}
    BY <1>5, Sizes DEF Block
  <2>2. place[k + 1] = place[k] + Block(k)
    BY <1>4
  <2>3. place[k] + Block(k) >= 1
    <3>1. n + 1 \in n + 1 .. m /\ n + 1 \in 1 .. MaxMessages /\ place[n + 1] \in Int
      BY <1>4, <1>5
    <3>2. Block(n + 1) = Header + Length(n + 1) /\ Length(n + 1) \in Nat \ {0}
      BY <3>1, Sizes DEF Block
    <3>3. place[n + 1] + Block(n + 1) >= 1
      <4>1. CASE place[n + 1] = 0
        BY <3>2, <4>1, Sizes
      <4>2. CASE place[n + 1] = -Header
        BY <3>2, <4>2, Sizes
      <4> QED  BY <1>4, <4>1, <4>2
    <3>4. CASE k = n + 1
      BY <3>3, <3>4
    <3>5. CASE k # n + 1
      <4>1. k \in n + 1 + 1 .. m + 1
        BY <1>4, <3>5
      <4>2. place[n + 1] + Block(n + 1) <= place[k]
        BY <1>4, <3>1, <4>1
      <4>3. place[n + 1] + Block(n + 1) \in Int
        BY <3>1, <3>2, Sizes
      <4> QED  BY <1>5, <2>1, <3>3, <4>2, <4>3
    <3> QED  BY <3>4, <3>5
  <2>4. place[k] + Block(k) \in 1 .. Len(b) /\ place[k] + Block(k) \in 1 .. Len(all)
    BY <1>1, <1>5, <1>8, <2>1, <2>2, <2>3
  <2>5. b[place[k] + Block(k)] = <<k, Header + Length(k)>>
    <3>1. Block(k) \in 1 .. Block(k)
      BY <2>1
    <3>2. all[place[k] + Block(k)] = <<k, Block(k)>>
      BY <1>4, <2>4, <3>1
    <3> QED  BY <1>1, <2>1, <2>4, <3>2
  <2> QED  BY <1>2, <1>5, <2>4, <2>5 DEF CompleteIn
<1> QED  BY <1>7, <1>8

\* The complete messages are the next ones; while there are bytes on the wire
\* the last message is not complete.
LEMMA CompleteAreNext ==
    ASSUME NEW b \in Seq(Bytes), NEW w \in Seq(Bytes), NEW n, NEW m, NEW size, NEW o,
           Fits(b \o w, n, m, size, o)
    PROVE  \E e \in n .. m : CompleteIn(b, m) = n + 1 .. e /\ (Len(w) > 0 => e < m)
<1>1. PICK place : Layout(b \o w, n, m, size, o, place)
  BY DEF Fits
<1>2. /\ Len(b) \in Nat /\ Len(w) \in Nat /\ Len(b \o w) = Len(b) + Len(w)
  BY FirstBytes
<1>3. /\ m \in 0 .. MaxMessages /\ n \in 0 .. m /\ place \in [n + 1 .. m + 1 -> Int]
      /\ place[n + 1] \in {0, -Header} /\ Len(b \o w) <= place[m + 1]
      /\ \A k \in n + 1 .. m : place[k + 1] = place[k] + Block(k)
      /\ \A k \in n + 1 .. m : \A l \in k + 1 .. m + 1 : place[k] + Block(k) <= place[l]
  BY <1>1 DEF Layout
<1>4. CompleteIn(b, m) = {k \in n + 1 .. m : place[k + 1] <= Len(b)}
  BY <1>1, CompleteAre
<1> DEFINE Open == {k \in n + 1 .. m + 1 : k = m + 1 \/ ~ place[k + 1] <= Len(b)}
<1>5. m + 1 \in Open
  BY <1>3
<1>6. PICK f \in Open : \A k \in Open : f <= k
  <2>1. Open \in SUBSET Nat
    BY <1>3
  <2> QED  BY <1>5, <2>1, Least
<1>7. f - 1 \in n .. m
  BY <1>3, <1>6
<1>8. ASSUME NEW k \in n + 1 .. m, place[k + 1] <= Len(b) PROVE k < f
  <2>1. CASE f = m + 1
    BY <1>3, <2>1
  <2>2. CASE f # m + 1
    <3>1. f \in n + 1 .. m /\ ~ place[f + 1] <= Len(b) /\ f \in Int
      BY <1>3, <1>6, <2>2
    <3>2. place[f + 1] = place[f] + Block(f)
      BY <1>3, <3>1
    <3>3. f <= k => f + 1 <= k + 1 /\ k + 1 \in f + 1 .. m + 1
      BY <1>3, <3>1
    <3>4. f <= k => place[f + 1] <= place[k + 1]
      BY <1>3, <3>1, <3>2, <3>3
    <3>5. place[f + 1] \in Int /\ place[k + 1] \in Int
      BY <1>3, <3>1
    <3> QED  BY <1>2, <1>3, <1>8, <3>1, <3>4, <3>5
  <2> QED  BY <2>1, <2>2
<1>9. ASSUME NEW k \in n + 1 .. f - 1 PROVE k \in n + 1 .. m /\ place[k + 1] <= Len(b)
  <2>1. k \in n + 1 .. m /\ k \in n + 1 .. m + 1 /\ ~ f <= k
    BY <1>3, <1>6
  <2> QED  BY <1>6, <2>1
<1>10. CompleteIn(b, m) = n + 1 .. f - 1
  <2>1. \A k \in n + 1 .. m : k < f => k \in n + 1 .. f - 1
    BY <1>3, <1>6
  <2> QED  BY <1>4, <1>8, <1>9, <2>1
<1>11. Len(w) > 0 => f - 1 < m
  <2> SUFFICES ASSUME Len(w) > 0, ~ f - 1 < m PROVE FALSE
    OBVIOUS
  <2>1. f - 1 = m
    BY <1>3, <1>7
  <2>2. place[m + 1] > Len(b)
    BY <1>2, <1>3
  <2>3. CASE m = n
    BY <1>2, <1>3, <2>2, <2>3, Sizes
  <2>4. CASE m # n
    <3>1. m \in n + 1 .. f - 1
      BY <1>3, <2>1, <2>4
    <3>2. place[m + 1] <= Len(b)
      BY <1>9, <3>1
    <3> QED  BY <1>2, <1>3, <2>2, <3>2
  <2> QED  BY <2>3, <2>4
<1> QED  BY <1>7, <1>10, <1>11
\* recvObject reads a message exactly if it is complete.
LEMMA TextIfComplete ==
    ASSUME NEW b \in Seq(Bytes), NEW w \in Seq(Bytes), NEW n, NEW m, NEW size, NEW o,
           Fits(b \o w, n, m, size, o)
    PROVE  TextHere(b, size) <=> n + 1 \in CompleteIn(b, m)
<1>1. PICK place : Layout(b \o w, n, m, size, o, place)
  BY DEF Fits
<1>2. /\ Len(b) \in Nat /\ Len(w) \in Nat /\ Len(b \o w) = Len(b) + Len(w)
  BY FirstBytes
<1>3. /\ m \in 0 .. MaxMessages /\ n \in 0 .. m /\ Len(b \o w) <= place[m + 1]
      /\ \/ size = 0 /\ place[n + 1] = 0
         \/ n < m /\ size = Length(n + 1) /\ place[n + 1] = -Header
      /\ \A k \in n + 1 .. m : place[k + 1] = place[k] + Block(k)
  BY <1>1 DEF Layout
<1>4. CompleteIn(b, m) = {k \in n + 1 .. m : place[k + 1] <= Len(b)}
  BY <1>1, CompleteAre
<1>5. CASE n = m
  <2>1. n + 1 \notin CompleteIn(b, m)
    BY <1>3, <1>4, <1>5
  <2>2. size = 0 /\ Len(b) = 0
    BY <1>2, <1>3, <1>5
  <2>3. ~ TextHere(b, size)
    BY <2>2, Sizes DEF TextHere, LengthHere
  <2> QED  BY <2>1, <2>3
<1>6. CASE n < m
  <2>1. n + 1 \in n + 1 .. m /\ n + 1 \in 1 .. MaxMessages
    BY <1>3, <1>6, Sizes
  <2>2. /\ Length(n + 1) \in Nat \ {0} /\ Block(n + 1) = Header + Length(n + 1)
        /\ place[n + 1 + 1] = place[n + 1] + Block(n + 1)
    BY <1>3, <2>1, Sizes DEF Block
  <2>3. n + 1 \in CompleteIn(b, m) <=> place[n + 1] + Block(n + 1) <= Len(b)
    BY <1>4, <2>1, <2>2
  <2>4. CASE size = 0
    <3>1. place[n + 1] = 0
      BY <1>3, <2>2, <2>4
    <3>2. CASE ~ Len(b) >= Header
      BY <1>2, <2>2, <2>3, <2>4, <3>1, <3>2, Sizes DEF TextHere, LengthHere
    <3>3. CASE Len(b) >= Header
      <4>1. Claimed(b) = Length(n + 1)
        BY <2>4, <3>3, LengthRead
      <4>2. Header \in 0 .. Len(b)
        BY <1>2, <3>3, Sizes
      <4>3. Len(SubSeq(b, Header + 1, Len(b))) = Len(b) - Header
        BY <4>2, FirstAndRest
      <4>4. TextHere(b, size) <=> Len(b) - Header >= Length(n + 1)
        BY <2>4, <3>3, <4>1, <4>3 DEF TextHere, LengthHere, AfterLength, LengthOf
      <4> QED  BY <1>2, <2>2, <2>3, <3>1, <4>4, Sizes
    <3> QED  BY <3>2, <3>3
  <2>5. CASE size # 0
    <3>1. size = Length(n + 1) /\ place[n + 1] = -Header
      BY <1>3, <2>5
    <3>2. TextHere(b, size) <=> Len(b) >= size
      BY <2>5 DEF TextHere, LengthHere, AfterLength, LengthOf
    <3> QED  BY <1>2, <2>2, <2>3, <3>1, <3>2, Sizes
  <2> QED  BY <2>4, <2>5
<1> QED  BY <1>3, <1>5, <1>6

LEMMA LaterBytes ==
    ASSUME NEW S, NEW b \in Seq(S), NEW c \in 0 .. Len(b)
    PROVE  /\ Range(SubSeq(b, c + 1, Len(b))) \subseteq Range(b)
           /\ \A i \in 1 .. Len(b) : b[i] \in Range(SubSeq(b, c + 1, Len(b))) \/ i <= c
<1> DEFINE r == SubSeq(b, c + 1, Len(b))
<1>1. /\ r \in Seq(S) /\ Len(r) = Len(b) - c /\ Len(b) \in Nat
      /\ \A i \in 1 .. Len(b) - c : r[i] = b[i + c]
  BY FirstAndRest, LenProperties
<1>2. DOMAIN b = 1 .. Len(b) /\ DOMAIN r = 1 .. Len(b) - c
  BY <1>1, LenProperties
<1> HIDE DEF r
<1>3. Range(r) \subseteq Range(b)
  <2>1. \A i \in 1 .. Len(b) - c : i + c \in 1 .. Len(b)
    BY <1>1
  <2> QED  BY <1>1, <1>2, <2>1 DEF Range
<1>4. ASSUME NEW i \in 1 .. Len(b), ~ i <= c PROVE b[i] \in Range(r)
  <2>1. i - c \in 1 .. Len(b) - c /\ i - c + c = i
    BY <1>1, <1>4
  <2> QED  BY <1>1, <1>2, <2>1 DEF Range
<1> QED  BY <1>3, <1>4 DEF r

\* What is left complete when recvObject has read its bytes off the front.
LEMMA CompleteRest ==
    ASSUME NEW b \in Seq(Bytes), NEW w \in Seq(Bytes), NEW n, NEW m, NEW size, NEW o,
           Fits(b \o w, n, m, size, o), n < m,
           NEW c \in 0 .. Len(b), size = 0 => c <= Block(n + 1),
           size # 0 => c <= Length(n + 1),
           NEW size2, Fits(SubSeq(b, c + 1, Len(b)) \o w, n + 1, m, size2, o)
    PROVE  CompleteIn(SubSeq(b, c + 1, Len(b)), m) = CompleteIn(b, m) \ {n + 1}
<1> DEFINE r == SubSeq(b, c + 1, Len(b))
<1>1. PICK place : Layout(b \o w, n, m, size, o, place)
  BY DEF Fits
<1>2. /\ Len(b) \in Nat /\ Len(w) \in Nat /\ Len(b \o w) = Len(b) + Len(w)
      /\ \A i \in 1 .. Len(b) : (b \o w)[i] = b[i]
  BY FirstBytes
<1>3. /\ m \in 0 .. MaxMessages /\ n \in 0 .. m /\ place \in [n + 1 .. m + 1 -> Int]
      /\ \/ size = 0 /\ place[n + 1] = 0
         \/ n < m /\ size = Length(n + 1) /\ place[n + 1] = -Header
      /\ \A k \in n + 1 .. m : \A l \in k + 1 .. m + 1 : place[k] + Block(k) <= place[l]
  BY <1>1 DEF Layout
<1>4. /\ n + 1 \in n + 1 .. m /\ n + 1 \in 1 .. MaxMessages /\ Length(n + 1) \in Nat \ {0}
      /\ Block(n + 1) = Header + Length(n + 1)
  BY <1>3, Sizes DEF Block
<1>5. c <= place[n + 1] + Block(n + 1)
  <2>1. CASE size = 0
    <3>1. place[n + 1] = 0 /\ c <= Block(n + 1)
      BY <1>3, <1>4, <2>1
    <3> QED  BY <1>2, <1>4, <3>1, Sizes
  <2>2. CASE size # 0
    BY <1>2, <1>3, <1>4, <2>2, Sizes
  <2> QED  BY <2>1, <2>2
<1>6. r \in Seq(Bytes)
  BY FirstAndRest
<1> HIDE DEF r
<1>7. CompleteIn(r, m) \subseteq CompleteIn(b, m)
  BY LaterBytes DEF CompleteIn, r
<1>8. n + 1 \notin CompleteIn(r, m)
  <2>1. Fits(r \o w, n + 1, m, size2, o)
    BY DEF r
  <2>2. \E e \in n + 1 .. m : CompleteIn(r, m) = n + 1 + 1 .. e
    BY <1>6, <2>1, CompleteAreNext
  <2> QED  BY <1>3, <2>2
<1>9. ASSUME NEW k \in CompleteIn(b, m), k # n + 1 PROVE k \in CompleteIn(r, m)
  <2>1. PICK i \in 1 .. Len(b) : b[i] = <<k, Header + Length(k)>>
    BY LenProperties DEF CompleteIn, Range
  <2>2. i \in 1 .. Len(b \o w) /\ (b \o w)[i] = b[i]
    BY ByteOfFirst
  <2>3. PICK h \in n + 1 .. m :
           \E j \in 1 .. Block(h) : place[h] + j = i /\ (b \o w)[i] = <<h, j>>
    <3> DEFINE all == b \o w
    <3>1. Layout(all, n, m, size, o, place) /\ i \in 1 .. Len(all)
      BY <1>1, <2>2
    <3>2. \E h \in n + 1 .. m : \E j \in 1 .. Block(h) : place[h] + j = i /\ all[i] = <<h, j>>
      <4> HIDE DEF all
      <4> QED  BY <3>1, BytesBelong
    <3> QED  BY <3>2
  <2>4. PICK j \in 1 .. Block(h) : place[h] + j = i /\ b[i] = <<h, j>>
    BY <2>2, <2>3
  <2>5. h = k
    BY <2>1, <2>4
  <2>6. k \in n + 1 + 1 .. m + 1 /\ place[k] \in Int
    BY <1>3, <1>9, <2>5
  <2>7. place[n + 1] + Block(n + 1) <= place[k]
    <3>1. \A l \in n + 1 + 1 .. m + 1 : place[n + 1] + Block(n + 1) <= place[l]
      BY <1>3, <1>4
    <3> QED  BY <2>6, <3>1
  <2>8. place[n + 1] + Block(n + 1) \in Int
    <3>1. Header \in Nat /\ Header + Length(n + 1) \in Nat
      BY <1>4, Sizes
    <3>2. place[n + 1] \in Int
      BY <1>3, <3>1
    <3> QED  BY <1>4, <3>1, <3>2
  <2>9. k \in 1 .. MaxMessages
    BY <1>3, <2>5, Sizes
  <2>10. Block(k) \in Nat /\ j \in 1 .. Block(k)
    BY <2>4, <2>5, <2>9, Sizes
  <2>11. ~ i <= c
    BY <1>5, <2>4, <2>5, <2>6, <2>7, <2>8, <2>10
  <2>12. b[i] \in Range(r)
    BY <2>11, LaterBytes DEF r
  <2> QED  BY <2>1, <2>12 DEF CompleteIn
<1> QED  BY <1>7, <1>8, <1>9 DEF r

LEMMA RestOfRest ==
    ASSUME NEW S, NEW s \in Seq(S), NEW h \in 0 .. Len(s), NEW z \in 0 .. Len(s) - h
    PROVE  LET r == SubSeq(s, h + 1, Len(s))
           IN  SubSeq(r, z + 1, Len(r)) = SubSeq(s, h + z + 1, Len(s))
<1> DEFINE r == SubSeq(s, h + 1, Len(s))
           u == SubSeq(r, z + 1, Len(r))
           v == SubSeq(s, h + z + 1, Len(s))
<1>1. Len(s) \in Nat
  BY LenProperties
<1>2. r \in Seq(S) /\ Len(r) = Len(s) - h /\ \A i \in 1 .. Len(s) - h : r[i] = s[i + h]
  BY FirstAndRest
<1>3. z \in 0 .. Len(r) /\ h + z \in 0 .. Len(s) /\ Len(s) - (h + z) = Len(r) - z
  BY <1>1, <1>2
<1>4. u \in Seq(S) /\ Len(u) = Len(r) - z /\ \A i \in 1 .. Len(r) - z : u[i] = r[i + z]
  BY <1>2, <1>3, FirstAndRest
<1>5. /\ v \in Seq(S) /\ Len(v) = Len(r) - z
      /\ \A i \in 1 .. Len(r) - z : v[i] = s[i + (h + z)]
  BY <1>3, FirstAndRest
<1> HIDE DEF u, v
<1>6. ASSUME NEW i \in 1 .. Len(r) - z PROVE u[i] = v[i]
  <2>1. i + z \in 1 .. Len(s) - h /\ i + z + h = i + (h + z)
    BY <1>1, <1>2, <1>3
  <2>2. r[i + z] = s[i + z + h]
    BY <1>2, <2>1
  <2>3. r[i + z] = s[i + (h + z)]
    BY <2>1, <2>2
  <2> QED  BY <1>4, <1>5, <2>3
<1>7. u = v
  BY <1>4, <1>5, <1>6, SeqEqual
<1> QED  BY <1>7 DEF u, v

\* A message is read and the others stay complete, or none is complete.
LEMMA ReadsComplete ==
    ASSUME FramingInv, NEW s \in Streams, NEW bytes \in Seq(Bytes), NEW w \in Seq(Bytes),
           Fits(bytes \o w, Len(got[s]), sent[s], nextBlockSize[s], open[s]),
           recvObject(s, bytes)
    PROVE  LET n == Len(got[s])
               whole == CompleteIn(bytes, sent[s])
           IN  \/ /\ n + 1 \in whole /\ Len(got'[s]) = n + 1
                  /\ CompleteIn(buffer'[s], sent[s]) = whole \ {n + 1}
               \/ whole = {} /\ got'[s] = got[s] /\ CompleteIn(buffer'[s], sent[s]) = {}
<1> DEFINE n == Len(got[s])
           m == sent[s]
           old == nextBlockSize[s]
           rest == AfterLength(bytes, old)
           size == LengthOf(bytes, old)
           h == IF old = 0 THEN Header ELSE 0
<1>1. /\ got \in [Streams -> Seq(0 .. MaxMessages)] /\ buffer \in [Streams -> Seq(Bytes)]
      /\ n \in Nat /\ m \in Nat /\ got[s] \in Seq(0 .. MaxMessages)
  BY LenProperties DEF FramingInv, TypeOK
<1>2. TextHere(bytes, old) <=> n + 1 \in CompleteIn(bytes, m)
  BY TextIfComplete
<1>3. PICK e \in n .. m : CompleteIn(bytes, m) = n + 1 .. e
  BY CompleteAreNext
<1>4. Len(bytes) \in Nat
  BY LenProperties
<1>5. ASSUME LengthHere(bytes, old)
      PROVE  /\ n < m /\ size = Length(n + 1) /\ size \in Nat \ {0}
             /\ Fits(rest \o w, n, m, size, open[s])
             /\ h \in 0 .. Len(bytes) /\ rest = SubSeq(bytes, h + 1, Len(bytes))
  <2>1. n < m => n + 1 \in 1 .. MaxMessages
    BY <1>1, Sizes DEF FramingInv, TypeOK
  <2>2. CASE old = 0
    <3>1. Len(bytes) >= Header
      BY <1>5, <2>2 DEF LengthHere
    <3>2. /\ n < m /\ Claimed(bytes) = Length(n + 1)
          /\ Fits(SubSeq(bytes, Header + 1, Len(bytes)) \o w, n, m, Length(n + 1), open[s])
      BY <2>2, <3>1, LengthRead
    <3>3. rest = SubSeq(bytes, Header + 1, Len(bytes)) /\ size = Length(n + 1)
      BY <2>2, <3>2 DEF AfterLength, LengthOf
    <3>4. h = Header /\ Header \in 0 .. Len(bytes)
      BY <1>4, <2>2, <3>1, Sizes
    <3>5. size \in Nat \ {0}
      BY <2>1, <3>2, <3>3, Sizes
    <3> HIDE DEF h, rest, size
    <3> QED  BY <3>2, <3>3, <3>4, <3>5
  <2>3. CASE old # 0
    <3>1. rest = bytes /\ size = old
      BY <2>3 DEF AfterLength, LengthOf
    <3>2. n < m /\ old = Length(n + 1)
      BY <2>3 DEF Fits, Layout
    <3>3. bytes = SubSeq(bytes, 1, Len(bytes))
      BY SubSeqFull
    <3>4. h = 0 /\ 0 \in 0 .. Len(bytes) /\ 0 + 1 = 1
      BY <1>4, <2>3
    <3>5. size \in Nat \ {0}
      BY <2>1, <3>1, <3>2, Sizes
    <3> HIDE DEF h, rest, size
    <3> QED  BY <3>1, <3>2, <3>3, <3>4, <3>5
  <2> QED  BY <2>2, <2>3
<1>6. CASE ~ TextHere(bytes, old)
  <2>1. CompleteIn(bytes, m) = {}
    BY <1>1, <1>2, <1>3, <1>6
  <2>2. CASE ~ LengthHere(bytes, old)
    <3>1. buffer'[s] = bytes /\ got'[s] = got[s]
      BY <1>1, <2>2 DEF recvObject
    <3> QED  BY <2>1, <3>1
  <2>3. CASE LengthHere(bytes, old)
    <3>1. /\ size \in Nat
          /\ h \in 0 .. Len(bytes) /\ rest = SubSeq(bytes, h + 1, Len(bytes))
      BY <1>5, <2>3
    <3>2. Len(rest) \in Nat /\ Range(rest) \subseteq Range(bytes)
      BY <1>4, <3>1, FirstAndRest, LaterBytes
    <3>3. Len(rest) < size
      BY <1>6, <2>3, <3>1, <3>2 DEF TextHere
    <3>4. buffer'[s] = rest /\ got'[s] = got[s]
      BY <1>1, <2>3, <3>3 DEF recvObject
    <3>5. CompleteIn(rest, m) \subseteq CompleteIn(bytes, m)
      BY <3>2 DEF CompleteIn
    <3> QED  BY <2>1, <3>4, <3>5
  <2> QED  BY <2>2, <2>3
<1>7. CASE TextHere(bytes, old)
  <2>1. LengthHere(bytes, old) /\ Len(rest) >= size
    BY <1>7 DEF TextHere
  <2> DEFINE left == SubSeq(rest, size + 1, Len(rest))
  <2>2. /\ n < m /\ size = Length(n + 1) /\ size \in Nat \ {0}
        /\ Fits(rest \o w, n, m, size, open[s])
        /\ h \in 0 .. Len(bytes) /\ rest = SubSeq(bytes, h + 1, Len(bytes))
    BY <1>5, <2>1
  <2>3. rest \in Seq(Bytes) /\ Len(rest) = Len(bytes) - h
    BY <2>2, FirstAndRest
  <2> HIDE DEF h, rest, size
  <2>4. ~ Len(rest) < size
    BY <1>4, <2>1, <2>2, <2>3
  <2>5. buffer'[s] = left /\ got'[s] = Append(got[s], MessageOf(SubSeq(rest, 1, size)))
    BY <1>1, <2>1, <2>4 DEF recvObject, rest, size
  <2>6. /\ n + 1 \in 1 .. MaxMessages /\ MessageOf(SubSeq(rest, 1, size)) = n + 1
        /\ Fits(left \o w, n + 1, m, 0, open[s])
    <3>1. size # 0 /\ Len(rest) >= size /\ Fits(rest \o w, n, m, size, open[s])
      BY <2>1, <2>2
    <3> HIDE DEF left
    <3>2. /\ n + 1 \in 1 .. MaxMessages /\ MessageOf(SubSeq(rest, 1, size)) = n + 1
          /\ Fits(SubSeq(rest, size + 1, Len(rest)) \o w, n + 1, m, 0, open[s])
      BY <2>3, <3>1, TextRead
    <3> QED  BY <3>2 DEF left
  <2>7. Len(got'[s]) = n + 1
    <3>1. n + 1 \in 0 .. MaxMessages
      BY <2>6
    <3> QED  BY <1>1, <2>5, <2>6, <3>1, AppendProperties
  <2>8. left = SubSeq(bytes, h + size + 1, Len(bytes)) /\ h + size \in 0 .. Len(bytes)
    <3>1. size \in 0 .. Len(bytes) - h /\ h + size \in 0 .. Len(bytes)
      BY <1>4, <2>1, <2>2, <2>3
    <3> QED  BY <2>2, <3>1, RestOfRest
  <2>9. /\ old = 0 => h + size <= Block(n + 1)
        /\ old # 0 => h + size <= Length(n + 1)
    BY <2>2, Sizes DEF h, Block
  <2>10. CompleteIn(SubSeq(bytes, h + size + 1, Len(bytes)), m) = CompleteIn(bytes, m) \ {n + 1}
    <3> DEFINE c == h + size
    <3>1. /\ n < m /\ c \in 0 .. Len(bytes)
          /\ (old = 0 => c <= Block(n + 1)) /\ (old # 0 => c <= Length(n + 1))
      BY <2>2, <2>8, <2>9
    <3>2. Fits(SubSeq(bytes, c + 1, Len(bytes)) \o w, n + 1, m, 0, open[s])
      BY <2>6, <2>8
    <3>3. Fits(bytes \o w, n, m, old, open[s])
      OBVIOUS
    <3> HIDE DEF c, n, m, old
    <3>4. CompleteIn(SubSeq(bytes, c + 1, Len(bytes)), m) = CompleteIn(bytes, m) \ {n + 1}
      BY <3>1, <3>2, <3>3, CompleteRest
    <3> QED  BY <3>4 DEF c
  <2> QED  BY <1>2, <1>7, <2>5, <2>7, <2>8, <2>10
<1> QED  BY <1>6, <1>7
\* The messages n + 1 .. m in their order.
Unread(n, m) == [i \in 1 .. m - n |-> n + i]

LEMMA UnreadQueue ==
    ASSUME NEW n \in Nat, NEW m \in Nat, n <= m
    PROVE  /\ Unread(n, m) \in Seq(Nat) /\ Len(Unread(n, m)) = m - n
           /\ Unread(n, m + 1) = Append(Unread(n, m), m + 1)
           /\ n < m => Unread(n + 1, m) = Tail(Unread(n, m))
<1>1. ASSUME NEW a \in Nat, NEW b \in Nat, a <= b
      PROVE  /\ Unread(a, b) \in Seq(Nat) /\ Len(Unread(a, b)) = b - a
             /\ \A i \in 1 .. b - a : Unread(a, b)[i] = a + i
  <2>1. b - a \in Nat /\ Unread(a, b) \in [1 .. b - a -> Nat]
    BY <1>1 DEF Unread
  <2>2. Unread(a, b) \in Seq(Nat)
    BY <2>1, SeqDef
  <2>3. Len(Unread(a, b)) = b - a
    BY <2>1, <2>2, LenProperties
  <2> QED  BY <2>2, <2>3 DEF Unread
<1>2. Unread(n, m + 1) = Append(Unread(n, m), m + 1)
  <2> DEFINE q == Unread(n, m)
             r == Unread(n, m + 1)
             t == Append(q, m + 1)
  <2>1. q \in Seq(Nat) /\ Len(q) = m - n /\ \A i \in 1 .. m - n : q[i] = n + i
    BY <1>1
  <2>2. /\ r \in Seq(Nat) /\ Len(r) = m - n + 1 /\ \A i \in 1 .. m - n + 1 : r[i] = n + i
    BY <1>1
  <2> HIDE DEF q, r
  <2>3. t \in Seq(Nat) /\ Len(t) = m - n + 1 /\ t[m - n + 1] = m + 1
        /\ \A i \in 1 .. m - n : t[i] = q[i]
    BY <2>1, AppendProperties
  <2>4. \A i \in 1 .. Len(r) : r[i] = t[i]
    <3>1. ASSUME NEW i \in 1 .. m - n + 1 PROVE i \in 1 .. m - n \/ i = m - n + 1
      OBVIOUS
    <3>2. n + (m - n + 1) = m + 1
      OBVIOUS
    <3> HIDE DEF t
    <3> QED  BY <2>1, <2>2, <2>3, <3>1, <3>2
  <2>5. r = t
    BY <2>2, <2>3, <2>4, SeqEqual
  <2> QED  BY <2>5 DEF q, r
<1>3. ASSUME n < m PROVE Unread(n + 1, m) = Tail(Unread(n, m))
  <2> DEFINE q == Unread(n, m)
             r == Unread(n + 1, m)
             t == Tail(q)
  <2>1. q \in Seq(Nat) /\ Len(q) = m - n /\ \A i \in 1 .. m - n : q[i] = n + i
    BY <1>1
  <2>2. /\ r \in Seq(Nat) /\ Len(r) = m - n - 1
        /\ \A i \in 1 .. m - n - 1 : r[i] = n + 1 + i
    BY <1>1, <1>3
  <2> HIDE DEF q, r
  <2>3. q # <<>>
    BY <1>3, <2>1, EmptySeq
  <2>4. t \in Seq(Nat) /\ Len(t) = m - n - 1 /\ \A i \in 1 .. m - n - 1 : t[i] = q[i + 1]
    BY <2>1, <2>3, HeadTailProperties
  <2>5. \A i \in 1 .. Len(r) : r[i] = t[i]
    <3>1. ASSUME NEW i \in 1 .. m - n - 1
          PROVE  i + 1 \in 1 .. m - n /\ n + (i + 1) = n + 1 + i
      OBVIOUS
    <3> HIDE DEF t
    <3> QED  BY <2>1, <2>2, <2>4, <3>1
  <2>6. r = t
    BY <2>2, <2>4, <2>5, SeqEqual
  <2> QED  BY <2>6 DEF q, r
<1> QED  BY <1>1, <1>2, <1>3

\* A client reads a message of its stream, or nothing that Delivery knows of.
LEMMA ReadDelivers ==
    ASSUME FramingInv, NEW s \in Down, readData(s)
    PROVE  [ClientReads(s)!Receive]_(ClientReads(s)!vars)
<1> DEFINE n == Len(got[s])
           m == sent[s]
<1>1. s \in Streams
  BY DEF Streams
<1>2. PICK k \in 1 .. Len(wire[s]) :
         Arrival(s, k) /\ recvObject(s, buffer[s] \o SubSeq(wire[s], 1, k))
  BY DEF readData
<1> DEFINE bytes == buffer[s] \o SubSeq(wire[s], 1, k)
           w == SubSeq(wire[s], k + 1, Len(wire[s]))
<1>3. /\ bytes \in Seq(Bytes) /\ w \in Seq(Bytes)
      /\ Fits(bytes \o w, n, m, nextBlockSize[s], open[s])
  BY <1>1, <1>2, Arrives
<1>4. /\ buffer[s] \in Seq(Bytes) /\ wire[s] \in Seq(Bytes)
      /\ Fits(buffer[s] \o wire[s], n, m, nextBlockSize[s], open[s])
      /\ n \in Nat /\ m \in Nat
  BY <1>1, Known, LenProperties, Sizes
<1>5. recvObject(s, bytes) /\ sent'[s] = m
  BY <1>2 DEF readData
<1>6. Range(buffer[s]) \subseteq Range(bytes)
  <2> DEFINE u == SubSeq(wire[s], 1, k)
  <2>1. u \in Seq(Bytes)
    <3>1. k \in 0 .. Len(wire[s])
      OBVIOUS
    <3> QED  BY <1>4, <3>1, FirstAndRest
  <2> HIDE DEF u
  <2>2. /\ Len(buffer[s]) \in Nat /\ Len(u) \in Nat
        /\ Len(buffer[s] \o u) = Len(buffer[s]) + Len(u)
        /\ \A i \in 1 .. Len(buffer[s]) : (buffer[s] \o u)[i] = buffer[s][i]
    BY <1>4, <2>1, FirstBytes
  <2>3. DOMAIN buffer[s] = 1 .. Len(buffer[s]) /\ DOMAIN (buffer[s] \o u) = 1 .. Len(buffer[s] \o u)
    BY <1>4, <2>1, ConcatProperties, LenProperties
  <2> QED  BY <2>2, <2>3 DEF Range, u
<1> HIDE DEF bytes, w
<1>7. PICK e \in n .. m : CompleteIn(buffer[s], m) = n + 1 .. e /\ (Len(wire[s]) > 0 => e < m)
  BY <1>4, CompleteAreNext
<1>8. PICK e2 \in n .. m : CompleteIn(bytes, m) = n + 1 .. e2
  BY <1>3, CompleteAreNext
<1>9. e < m /\ e <= e2
  <2>1. Len(wire[s]) > 0
    BY <1>2, <1>4, LenProperties
  <2>2. CompleteIn(buffer[s], m) \subseteq CompleteIn(bytes, m)
    BY <1>6 DEF CompleteIn
  <2>3. e \in Nat /\ e2 \in Nat /\ n <= e /\ n <= e2
    BY <1>4, <1>7, <1>8
  <2>4. e = n \/ e \in n + 1 .. e
    BY <1>4, <2>3
  <2>5. e \in n + 1 .. e => e \in n + 1 .. e2
    BY <1>7, <1>8, <2>2
  <2>6. e <= e2
    BY <2>3, <2>4, <2>5
  <2> QED  BY <1>7, <2>1, <2>6
<1> HIDE DEF n, m
<1>10. \A a \in Nat, b \in Nat : a <= b => Cardinality(a + 1 .. b) = b - a
  <2>1. ASSUME NEW a \in Nat, NEW b \in Nat, a <= b PROVE Cardinality(a + 1 .. b) = b - a
    <3>1. /\ a + 1 \in Int /\ b \in Int /\ b - (a + 1) + 1 = b - a
          /\ a + 1 > b => b - a = 0
      BY <2>1
    <3>2. Cardinality(a + 1 .. b) = IF a + 1 > b THEN 0 ELSE b - (a + 1) + 1
      BY <3>1, FS_Interval
    <3> QED  BY <3>1, <3>2
  <2> QED  BY <2>1
<1> DEFINE arrived == Cardinality(Complete(s))
           queue == Unread(Len(got[s]), sent[s])
<1>11. arrived = e - n /\ Len(queue) = m - n /\ n <= m
  <2>1. Complete(s) = n + 1 .. e
    BY <1>7 DEF Complete, CompleteIn, m
  <2>2. n <= m /\ n <= e /\ e \in Nat
    BY <1>4, <1>7
  <2>3. Cardinality(n + 1 .. e) = e - n
    BY <1>4, <1>10, <2>2
  <2>4. Len(Unread(n, m)) = m - n
    BY <1>4, <2>2, UnreadQueue
  <2> QED  BY <2>1, <2>2, <2>3, <2>4 DEF n, m
<1>12. Complete(s)' = CompleteIn(buffer'[s], m)
  BY <1>5 DEF Complete, CompleteIn
<1>13. \/ /\ n + 1 \in CompleteIn(bytes, m) /\ Len(got'[s]) = n + 1
          /\ CompleteIn(buffer'[s], m) = CompleteIn(bytes, m) \ {n + 1}
       \/ CompleteIn(bytes, m) = {} /\ got'[s] = got[s] /\ CompleteIn(buffer'[s], m) = {}
  BY <1>1, <1>3, <1>5, ReadsComplete DEF n, m
<1>14. CASE /\ n + 1 \in CompleteIn(bytes, m) /\ Len(got'[s]) = n + 1
            /\ CompleteIn(buffer'[s], m) = CompleteIn(bytes, m) \ {n + 1}
  <2>1. n < e2 /\ n < m
    BY <1>4, <1>7, <1>8, <1>14
  <2>2. CompleteIn(buffer'[s], m) = n + 1 + 1 .. e2
    BY <1>4, <1>8, <1>14
  <2>3. arrived' = (e2 - n) - 1
    <3>1. arrived' = Cardinality(n + 1 + 1 .. e2)
      BY <1>12, <2>2
    <3>2. n + 1 \in Nat /\ e2 \in Nat /\ n + 1 <= e2 /\ e2 - (n + 1) = e2 - n - 1
      BY <1>4, <1>8, <2>1
    <3>3. Cardinality(n + 1 + 1 .. e2) = e2 - (n + 1)
      BY <1>10, <3>2
    <3> QED  BY <3>1, <3>2, <3>3
  <2>4. queue' = Tail(queue)
    <3>1. queue' = Unread(n + 1, m)
      BY <1>5, <1>14
    <3> QED  BY <1>4, <1>11, <2>1, <3>1, UnreadQueue DEF n, m
  <2>5. arrived < Len(queue) /\ e2 - n \in 1 .. Len(queue) /\ e2 - n >= arrived
    BY <1>4, <1>7, <1>8, <1>9, <1>11, <2>1
  <2> HIDE DEF arrived, queue
  <2>6. /\ arrived < Len(queue) /\ queue' = Tail(queue)
        /\ \E j \in 1 .. Len(queue) : j >= arrived /\ arrived' = j - 1
    BY <2>3, <2>4, <2>5
  <2> QED  BY <2>6 DEF ClientReads!Receive, arrived, queue, Unread
<1>15. CASE CompleteIn(bytes, m) = {} /\ got'[s] = got[s] /\ CompleteIn(buffer'[s], m) = {}
  <2>1. Complete(s) = {} /\ Complete(s)' = {}
    BY <1>6, <1>12, <1>15 DEF Complete, CompleteIn, m
  <2>2. UNCHANGED <<queue, arrived>>
    BY <1>5, <1>15, <2>1 DEF m
  <2> QED  BY <2>2 DEF ClientReads!vars, Unread
<1> QED  BY <1>13, <1>14, <1>15
\* A message that the server writes is behind those that are not read.
LEMMA SendDelivers ==
    ASSUME FramingInv, NEW s \in Down, sendObject(s)
    PROVE  ClientReads(s)!Send
<1> DEFINE n == Len(got[s])
           m == sent[s]
<1>1. s \in Streams
  BY DEF Streams
<1>2. /\ buffer[s] \in Seq(Bytes) /\ wire[s] \in Seq(Bytes)
      /\ Fits(buffer[s] \o wire[s], n, m, nextBlockSize[s], open[s])
      /\ n \in Nat /\ m \in Nat
  <2>1. sent[s] \in 0 .. MaxMessages /\ got[s] \in Seq(0 .. MaxMessages)
    BY <1>1, Known
  <2>2. n \in Nat /\ m \in Nat
    BY <2>1, LenProperties, Sizes
  <2> QED  BY <1>1, <2>2, Known
<1>3. PICK place : Layout(buffer[s] \o wire[s], n, m, nextBlockSize[s], open[s], place)
  BY <1>2 DEF Fits
<1>4. n <= m /\ m + 1 \in 1 .. MaxMessages
  <2>1. n \in 0 .. m
    BY <1>3 DEF Layout
  <2>2. m < MaxMessages
    BY DEF sendObject
  <2> QED  BY <1>2, <2>1, <2>2, Sizes
<1>5. sent'[s] = m + 1 /\ UNCHANGED <<buffer, got>>
  <2>1. sent \in [Streams -> 0 .. MaxMessages]
    BY DEF FramingInv, TypeOK
  <2> QED  BY <1>1, <2>1 DEF sendObject, reader
<1>6. <<m + 1, Header + Length(m + 1)>> \notin Range(buffer[s])
  <2> SUFFICES ASSUME <<m + 1, Header + Length(m + 1)>> \in Range(buffer[s]) PROVE FALSE
    OBVIOUS
  <2> DEFINE all == buffer[s] \o wire[s]
  <2>1. PICK i \in 1 .. Len(buffer[s]) : buffer[s][i] = <<m + 1, Header + Length(m + 1)>>
    BY <1>2, LenProperties DEF Range
  <2>2. i \in 1 .. Len(all) /\ all[i] = buffer[s][i]
    BY <1>2, ByteOfFirst
  <2>3. Layout(all, n, m, nextBlockSize[s], open[s], place)
    BY <1>3
  <2> HIDE DEF all, n, m
  <2>4. \E k \in n + 1 .. m : \E j \in 1 .. Block(k) : place[k] + j = i /\ all[i] = <<k, j>>
    BY <2>2, <2>3, BytesBelong
  <2> QED  BY <1>2, <2>1, <2>2, <2>4
<1>7. Complete(s)' = Complete(s)
  <2>1. \A k \in 1 .. m + 1 : k \in 1 .. m \/ k = m + 1
    BY <1>2
  <2>2. 1 .. m \subseteq 1 .. m + 1
    BY <1>2
  <2> QED  BY <1>5, <1>6, <2>1, <2>2 DEF Complete
<1> DEFINE queue == Unread(Len(got[s]), sent[s])
<1>8. queue' = Append(queue, m + 1)
  <2>1. queue' = Unread(n, m + 1) /\ queue = Unread(n, m)
    BY <1>5
  <2> QED  BY <1>2, <1>4, <2>1, UnreadQueue
<1>9. UNCHANGED Cardinality(Complete(s))
  BY <1>7
<1> HIDE DEF n, m
<1> QED  BY <1>4, <1>8, <1>9 DEF ClientReads!Send, Unread

\* ClientsReadAsAssumed: however the network cuts the bytes of the server's
\* messages, a client reads one whole message, the oldest, for each signal that
\* makes it read one; those that came with it wait in the buffer, and a signal
\* at which the oldest is not whole is as if there were none.
THEOREM ClientsAlwaysReadAsAssumed == Spec => ClientsReadAsAssumed
<1>1. ASSUME Init, NEW s \in Down PROVE ClientReads(s)!Init
  <2>1. s \in Streams
    BY DEF Streams
  <2>2. sent[s] = 0 /\ got[s] = <<>> /\ buffer[s] = <<>>
    BY <1>1, <2>1 DEF Init
  <2>3. Complete(s) = {}
    BY <2>2 DEF Complete
  <2>4. Cardinality(Complete(s)) = 0
    BY <2>3, FS_EmptySet
  <2>5. Len(got[s]) = 0
    BY <2>2, EmptySeq
  <2>6. Unread(0, 0) = <<>>
    <3>1. Unread(0, 0) \in Seq(Nat) /\ Len(Unread(0, 0)) = 0
      BY UnreadQueue
    <3> QED  BY <3>1, EmptySeq
  <2> QED  BY <2>2, <2>4, <2>5, <2>6 DEF ClientReads!Init, Unread
<1>2. ASSUME FramingInv, [Next]_vars, NEW s \in Down
      PROVE  [ClientReads(s)!Next]_(ClientReads(s)!vars)
  <2>1. s \in Streams /\ s \notin Up
    BY FramingAssumption DEF Streams
  <2>2. /\ sent \in [Streams -> 0 .. MaxMessages]
        /\ buffer \in [Streams -> Seq(Bytes)] /\ got \in [Streams -> Seq(0 .. MaxMessages)]
    BY <1>2 DEF FramingInv, TypeOK
  <2>3. ASSUME sent'[s] = sent[s], got'[s] = got[s], buffer'[s] = buffer[s]
        PROVE  UNCHANGED ClientReads(s)!vars
    BY <2>3 DEF ClientReads!vars, Complete
  <2>4. CASE UNCHANGED vars
    BY <2>3, <2>4 DEF vars, reader
  <2>5. ASSUME NEW t \in Streams, sendObject(t), t # s
        PROVE  sent'[s] = sent[s] /\ got'[s] = got[s] /\ buffer'[s] = buffer[s]
    BY <2>1, <2>2, <2>5 DEF sendObject, reader
  <2>6. CASE sendObject(s)
    BY <1>2, <2>6, SendDelivers DEF ClientReads!Next
  <2>7. ASSUME NEW t \in Streams, Close(t)
        PROVE  sent'[s] = sent[s] /\ got'[s] = got[s] /\ buffer'[s] = buffer[s]
    BY <2>7 DEF Close, reader
  <2>8. CASE readData(s)
    BY <1>2, <2>8, ReadDelivers DEF ClientReads!Next
  <2>9. ASSUME NEW t \in Down, readData(t), t # s
        PROVE  sent'[s] = sent[s] /\ got'[s] = got[s] /\ buffer'[s] = buffer[s]
    BY <2>1, <2>2, <2>9 DEF readData, recvObject
  <2>10. ASSUME NEW t \in Up, Server(t)
         PROVE  sent'[s] = sent[s] /\ got'[s] = got[s] /\ buffer'[s] = buffer[s]
    <3>1. t # s
      BY <2>1
    <3>2. CASE readDataSlot(t) \/ MoreBytes(t)
      BY <2>1, <2>2, <3>1, <3>2 DEF readDataSlot, MoreBytes
    <3>3. CASE ReadOne(t)
      BY <2>1, <2>2, <3>1, <3>3 DEF ReadOne, recvObject
    <3>4. CASE SlotEnds(t) \/ WaitEnds(t)
      BY <3>4 DEF SlotEnds, WaitEnds, reader
    <3> QED  BY <2>10, <3>2, <3>3, <3>4 DEF Server
  <2> QED  BY <1>2, <2>3, <2>4, <2>5, <2>6, <2>7, <2>8, <2>9, <2>10 DEF Next
<1>3. Init => \A s \in Down : ClientReads(s)!Init
  BY <1>1
<1>4. FramingInv /\ [Next]_vars =>
         [\A s \in Down : [ClientReads(s)!Next]_(ClientReads(s)!vars)]_vars
  BY <1>2
<1> QED
  BY <1>3, <1>4, FramingAlways, PTL DEF Spec, ClientsReadAsAssumed
=============================================================================
