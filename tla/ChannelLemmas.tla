---------------------------- MODULE ChannelLemmas ----------------------------
(* Which elements a channel or an outbox holds after each operation on it.   *)
EXTENDS Outboxes, TLAPS

\* The elements of a sequence, by position.
LEMMA RangeElem ==
  ASSUME NEW S, NEW s \in Seq(S)
  PROVE  /\ Range(s) \subseteq S
         /\ \A i \in 1..Len(s) : s[i] \in Range(s)
         /\ \A e \in Range(s) : \E i \in 1..Len(s) : s[i] = e
  BY DEF Range

\* Putting one element in a channel.
LEMMA RangeAppend ==
  ASSUME NEW S, NEW s \in Seq(S), NEW e \in S
  PROVE  /\ Append(s, e) \in Seq(S)
         /\ Range(Append(s, e)) = Range(s) \cup {e}
<1>1. Append(s, e) \in Seq(S) /\ Len(Append(s, e)) = Len(s) + 1
  OBVIOUS
<1>2. Range(Append(s, e)) \subseteq Range(s) \cup {e}
  BY DEF Range
<1>3. \A i \in 1..Len(s) : Append(s, e)[i] = s[i]
  OBVIOUS
<1>4. Append(s, e)[Len(s) + 1] = e
  OBVIOUS
<1>5. Range(s) \subseteq Range(Append(s, e))
  BY <1>1, <1>3 DEF Range
<1>6. Len(s) + 1 \in DOMAIN Append(s, e)
  BY <1>1
<1>7. e \in Range(Append(s, e))
  BY <1>4, <1>6 DEF Range
<1> QED BY <1>1, <1>2, <1>5, <1>7

\* Putting several.
LEMMA RangeConcat ==
  ASSUME NEW S, NEW s \in Seq(S), NEW t \in Seq(S)
  PROVE  /\ s \o t \in Seq(S)
         /\ Range(s \o t) = Range(s) \cup Range(t)
<1>1. s \o t \in Seq(S) /\ Len(s \o t) = Len(s) + Len(t)
  OBVIOUS
<1>2. \A i \in 1..Len(s) : (s \o t)[i] = s[i]
  OBVIOUS
<1>3. \A i \in 1..Len(t) : (s \o t)[Len(s) + i] = t[i]
  OBVIOUS
<1>4. ASSUME NEW i \in 1..(Len(s) + Len(t)) PROVE (s \o t)[i] \in Range(s) \cup Range(t)
  <2>1. CASE i <= Len(s)
    BY <2>1, <1>2, RangeElem
  <2>2. CASE i > Len(s)
    <3>1. i - Len(s) \in 1..Len(t) /\ i = Len(s) + (i - Len(s))
      BY <2>2
    <3> QED BY <3>1, <1>3, RangeElem
  <2> QED BY <2>1, <2>2
<1>d. DOMAIN (s \o t) = 1..(Len(s) + Len(t))
  BY <1>1
<1>5. Range(s \o t) \subseteq Range(s) \cup Range(t)
  BY <1>d, <1>4 DEF Range
<1>6. ASSUME NEW e \in Range(s) PROVE e \in Range(s \o t)
  <2>1. PICK i \in 1..Len(s) : s[i] = e
    BY RangeElem
  <2>2. i \in 1..(Len(s) + Len(t))
    OBVIOUS
  <2> QED BY <2>1, <2>2, <1>d, <1>2 DEF Range
<1>7. ASSUME NEW e \in Range(t) PROVE e \in Range(s \o t)
  <2>1. PICK i \in 1..Len(t) : t[i] = e
    BY RangeElem
  <2>2. Len(s) + i \in 1..(Len(s) + Len(t))
    OBVIOUS
  <2> QED BY <2>1, <2>2, <1>d, <1>3, SMTT(60) DEF Range
<1> QED BY <1>1, <1>5, <1>6, <1>7

\* Taking the first element out.
LEMMA RangeTail ==
  ASSUME NEW S, NEW s \in Seq(S), s # <<>>
  PROVE  /\ Tail(s) \in Seq(S)
         /\ Range(Tail(s)) \subseteq Range(s)
         /\ Head(s) \in Range(s)
<1>1. Tail(s) \in Seq(S) /\ Len(Tail(s)) = Len(s) - 1 /\ Len(s) >= 1
  OBVIOUS
<1>2. \A i \in 1..(Len(s) - 1) : Tail(s)[i] = s[i + 1]
  OBVIOUS
<1>3. Head(s) = s[1]
  OBVIOUS
<1>4. ASSUME NEW e \in Range(Tail(s)) PROVE e \in Range(s)
  <2>1. PICK i \in 1..(Len(s) - 1) : Tail(s)[i] = e
    BY <1>1, RangeElem, Zenon
  <2>2. i + 1 \in 1..Len(s)
    BY <1>1
  <2> QED BY <2>1, <2>2, <1>2, RangeElem
<1>5. Head(s) \in Range(s)
  BY <1>1, <1>3, RangeElem
<1> QED BY <1>1, <1>4, <1>5

\* A connection breaks and only a prefix arrives.
LEMMA RangePrefix ==
  ASSUME NEW S, NEW s \in Seq(S), NEW n \in 0..Len(s)
  PROVE  /\ SubSeq(s, 1, n) \in Seq(S)
         /\ Range(SubSeq(s, 1, n)) \subseteq Range(s)
<1>1. SubSeq(s, 1, n) \in Seq(S) /\ Len(SubSeq(s, 1, n)) = n
  OBVIOUS
<1>2. \A i \in 1..n : SubSeq(s, 1, n)[i] = s[i]
  OBVIOUS
<1>3. \A i \in 1..n : i \in 1..Len(s)
  OBVIOUS
<1>4. ASSUME NEW e \in Range(SubSeq(s, 1, n)) PROVE e \in Range(s)
  <2>1. PICK i \in 1..n : SubSeq(s, 1, n)[i] = e
    BY <1>1, RangeElem, Zenon
  <2> QED BY <2>1, <1>2, <1>3, RangeElem
<1> QED BY <1>1, <1>4

\* An empty channel holds nothing.
LEMMA RangeEmpty == Range(<<>>) = {}
  BY DEF Range

\* A channel with one element.
LEMMA RangeSingle == ASSUME NEW e PROVE Range(<<e>>) = {e}
  BY DEF Range

\* Removing the item at position k of an outbox.
LEMMA DeleteAtElem ==
  ASSUME NEW S, NEW s \in Seq(S), NEW k \in 1..Len(s), NEW R,
         R = SubSeq(s, 1, k - 1) \o SubSeq(s, k + 1, Len(s))
  PROVE  /\ R \in Seq(S)
         /\ Len(R) = Len(s) - 1
         /\ \A i \in 1..(k - 1) : R[i] = s[i]
         /\ \A i \in k..(Len(s) - 1) : R[i] = s[i + 1]
<1> DEFINE p == SubSeq(s, 1, k - 1)
           q == SubSeq(s, k + 1, Len(s))
<1>1. p \in Seq(S) /\ Len(p) = k - 1 /\ \A i \in 1..(k - 1) : p[i] = s[i]
  OBVIOUS
<1>2. q \in Seq(S) /\ Len(q) = Len(s) - k /\ \A i \in 1..(Len(s) - k) : q[i] = s[k + i]
  <2>1. CASE k < Len(s)
    <3>1. k + 1 \in 1..Len(s)
      BY <2>1
    <3>2. q \in Seq(S) /\ Len(q) = Len(s) - k
      BY <3>1
    <3>3. ASSUME NEW i \in 1..(Len(s) - k) PROVE q[i] = s[k + i]
      <4>1. q[i] = s[(k + 1) + i - 1]
        BY <3>1, <3>2, SMTT(60)
      <4>2. (k + 1) + i - 1 = k + i
        OBVIOUS
      <4> QED BY <4>1, <4>2
    <3> QED BY <3>2, <3>3
  <2>2. CASE k = Len(s)
    BY <2>2
  <2> QED BY <2>1, <2>2
<1>3. R = p \o q
  OBVIOUS
<1> HIDE DEF p, q
<1>4. p \o q \in Seq(S) /\ Len(p \o q) = Len(s) - 1
  <2>a. p \in Seq(S) /\ q \in Seq(S)
    BY <1>1, <1>2
  <2>b. Len(p \o q) = Len(p) + Len(q)
    BY <2>a
  <2>1. p \o q \in Seq(S) /\ Len(p \o q) = Len(p) + Len(q)
    BY <2>a, <2>b, RangeConcat
  <2>2. (k - 1) + (Len(s) - k) = Len(s) - 1
    OBVIOUS
  <2> QED BY <2>1, <2>2, <1>1, <1>2
<1>5. \A i \in 1..(k - 1) : (p \o q)[i] = s[i]
  BY <1>1, <1>2
<1>6. ASSUME NEW i \in k..(Len(s) - 1) PROVE (p \o q)[i] = s[i + 1]
  <2>1. i - (k - 1) \in 1..Len(q)
    BY <1>2
  <2>2. (p \o q)[i] = q[i - (k - 1)]
    BY <1>1, <1>2, <2>1
  <2> QED BY <2>1, <2>2, <1>2
<1> QED BY <1>3, <1>4, <1>5, <1>6, Zenon

\* delete_outbound takes one item out and leaves the others.
LEMMA WithoutElem ==
  ASSUME NEW S, NEW s \in Seq(S), NEW f
  PROVE  /\ Without(s, f) \in Seq(S)
         /\ Range(Without(s, f)) \subseteq Range(s)
         /\ \A e \in Range(s) : e # f => e \in Range(Without(s, f))
<1>1. CASE f \notin Range(s)
  BY <1>1 DEF Without
<1>2. CASE f \in Range(s)
  <2> DEFINE k == CHOOSE i \in DOMAIN s : s[i] = f
             t == DeleteAt(s, k)
  <2>1. k \in 1..Len(s) /\ s[k] = f
    BY <1>2 DEF Range
  <2>2. Without(s, f) = t
    BY <1>2 DEF Without
  <2> HIDE DEF k
  <2>r. t = SubSeq(s, 1, k - 1) \o SubSeq(s, k + 1, Len(s))
    BY DEF DeleteAt
  <2> HIDE DEF t
  <2>3. /\ t \in Seq(S) /\ Len(t) = Len(s) - 1
        /\ \A i \in 1..(k - 1) : t[i] = s[i]
        /\ \A i \in k..(Len(s) - 1) : t[i] = s[i + 1]
    BY <2>1, <2>r, DeleteAtElem, ZenonT(120)
  <2>4. ASSUME NEW e \in Range(t) PROVE e \in Range(s)
    <3>1. PICK i \in 1..(Len(s) - 1) : t[i] = e
      BY <2>3, RangeElem
    <3>2. CASE i < k
      <4>1. i \in 1..Len(s) /\ i \in 1..(k - 1)
        BY <3>2, <2>1
      <4>2. s[i] = e
        BY <3>1, <4>1, <2>3
      <4> QED BY <4>1, <4>2, RangeElem
    <3>3. CASE i >= k
      <4>1. i + 1 \in DOMAIN s /\ i \in k..(Len(s) - 1)
        BY <3>3, <2>1
      <4> QED BY <3>1, <4>1, <2>3 DEF Range
    <3> QED BY <3>2, <3>3, <2>1
  <2>5. ASSUME NEW e \in Range(s), e # f PROVE e \in Range(t)
    <3>1. PICK i \in 1..Len(s) : s[i] = e
      BY RangeElem
    <3>2. CASE i < k
      <4>1. i \in DOMAIN t /\ i \in 1..(k - 1)
        BY <3>2, <2>1, <2>3
      <4> QED BY <3>1, <4>1, <2>3 DEF Range
    <3>3. CASE i > k
      <4>1. i - 1 \in DOMAIN t /\ i - 1 \in k..(Len(s) - 1) /\ (i - 1) + 1 = i
        BY <3>3, <2>1, <2>3
      <4> QED BY <3>1, <4>1, <2>3 DEF Range
    <3> QED BY <3>1, <3>2, <3>3, <2>1, <2>5
  <2> QED BY <2>2, <2>3, <2>4, <2>5
<1> QED BY <1>1, <1>2
=============================================================================
