--------------------------- MODULE SequenceLemmas ---------------------------
(***************************************************************************)
(* What the deque operations of the queue do to the elements of a sequence *)
(* that repeats none: facts the proofs about the queue cite by name.       *)
(***************************************************************************)
EXTENDS SequencesExt, SequenceTheorems, TLAPS

\* No element occurs twice.
NoRepeat(s) == \A i, j \in DOMAIN s : s[i] = s[j] => i = j

\* Membership in a sequence, by position.
LEMMA InToSet ==
    ASSUME NEW S, NEW s \in Seq(S), NEW e
    PROVE  e \in ToSet(s) <=> \E i \in 1 .. Len(s) : s[i] = e
BY LenProperties DEF ToSet

\* The elements of a sequence are of its type.
LEMMA ToSetSubset ==
    ASSUME NEW S, NEW s \in Seq(S)
    PROVE  ToSet(s) \subseteq S
BY InToSet, ElementOfSeq

\* The empty sequence has no elements.
LEMMA ToSetEmpty == ToSet(<<>>) = {}
BY DEF ToSet

\* deque.append: one element more.
LEMMA AppendLemma ==
    ASSUME NEW S, NEW s \in Seq(S), NEW e \in S
    PROVE  /\ Append(s, e) \in Seq(S)
           /\ Len(Append(s, e)) = Len(s) + 1
           /\ ToSet(Append(s, e)) = ToSet(s) \cup {e}
           /\ NoRepeat(s) /\ e \notin ToSet(s) => NoRepeat(Append(s, e))
<1> DEFINE t == Append(s, e)
<1>1. /\ t \in Seq(S) /\ Len(t) = Len(s) + 1
      /\ \A i \in 1 .. Len(s) : t[i] = s[i]
      /\ t[Len(s) + 1] = e
  BY AppendProperties
<1>2. Len(s) \in Nat /\ DOMAIN s = 1 .. Len(s) /\ DOMAIN t = 1 .. Len(s) + 1
  BY <1>1, LenProperties
<1> HIDE DEF t
<1>3. ToSet(t) = ToSet(s) \cup {e}
  <2>1. ASSUME NEW x \in ToSet(t) PROVE x \in ToSet(s) \cup {e}
    <3>1. PICK i \in 1 .. Len(s) + 1 : t[i] = x
      BY <2>1, <1>1, InToSet
    <3>2. CASE i = Len(s) + 1
      BY <3>1, <3>2, <1>1
    <3>3. CASE i # Len(s) + 1
      BY <3>1, <3>3, <1>1, <1>2, InToSet
    <3> QED BY <3>2, <3>3
  <2>2. ASSUME NEW x \in ToSet(s) PROVE x \in ToSet(t)
    <3>1. PICK i \in 1 .. Len(s) : s[i] = x
      BY <2>2, InToSet
    <3> QED BY <3>1, <1>1, <1>2, InToSet
  <2>3. e \in ToSet(t)
    BY <1>1, <1>2, InToSet
  <2> QED BY <2>1, <2>2, <2>3
<1>4. ASSUME NoRepeat(s), e \notin ToSet(s) PROVE NoRepeat(t)
  BY <1>1, <1>2, <1>4, InToSet DEF NoRepeat
<1> QED BY <1>1, <1>3, <1>4 DEF t

\* deque.appendleft: one element more, in front.
LEMMA PushLemma ==
    ASSUME NEW S, NEW s \in Seq(S), NEW e \in S
    PROVE  /\ <<e>> \o s \in Seq(S)
           /\ Len(<<e>> \o s) = Len(s) + 1
           /\ ToSet(<<e>> \o s) = ToSet(s) \cup {e}
           /\ NoRepeat(s) /\ e \notin ToSet(s) => NoRepeat(<<e>> \o s)
<1> DEFINE t == <<e>> \o s
<1>1. <<e>> \in Seq(S) /\ Len(<<e>>) = 1 /\ <<e>>[1] = e
  OBVIOUS
<1>2. Len(s) \in Nat /\ DOMAIN s = 1 .. Len(s)
  BY LenProperties
<1>3. /\ t \in Seq(S) /\ Len(t) = Len(s) + 1 /\ t[1] = e
      /\ \A i \in 1 .. Len(s) : t[i + 1] = s[i]
  <2>1. /\ t \in Seq(S) /\ Len(t) = 1 + Len(s)
        /\ \A i \in 1 .. 1 + Len(s) :
              t[i] = IF i <= 1 THEN <<e>>[i] ELSE s[i - 1]
    BY <1>1, ConcatProperties
  <2> HIDE DEF t
  <2>2. \A i \in 1 .. Len(s) :
           /\ i + 1 \in 1 .. 1 + Len(s) /\ ~(i + 1 <= 1) /\ (i + 1) - 1 = i
    BY <1>2
  <2>3. 1 \in 1 .. 1 + Len(s)
    BY <1>2
  <2> QED BY <1>1, <1>2, <2>1, <2>2, <2>3
<1>4. DOMAIN t = 1 .. Len(s) + 1
  BY <1>3, LenProperties
<1> HIDE DEF t
<1>5. \A i \in 1 .. Len(s) + 1 : i = 1 \/ (i - 1 \in 1 .. Len(s) /\ t[i] = s[i - 1])
  <2> TAKE i \in 1 .. Len(s) + 1
  <2>1. i # 1 => i - 1 \in 1 .. Len(s) /\ (i - 1) + 1 = i
    BY <1>2
  <2> QED BY <2>1, <1>3
<1>6. ToSet(t) = ToSet(s) \cup {e}
  <2>1. ASSUME NEW x \in ToSet(t) PROVE x \in ToSet(s) \cup {e}
    <3>1. PICK i \in 1 .. Len(s) + 1 : t[i] = x
      BY <2>1, <1>3, InToSet
    <3> QED BY <3>1, <1>3, <1>5, InToSet
  <2>2. ASSUME NEW x \in ToSet(s) PROVE x \in ToSet(t)
    <3>1. PICK i \in 1 .. Len(s) : s[i] = x
      BY <2>2, InToSet
    <3>2. i + 1 \in 1 .. Len(s) + 1 /\ t[i + 1] = x
      BY <3>1, <1>2, <1>3
    <3> QED BY <3>2, <1>3, InToSet
  <2>3. e \in ToSet(t)
    BY <1>2, <1>3, InToSet
  <2> QED BY <2>1, <2>2, <2>3
<1>7. ASSUME NoRepeat(s), e \notin ToSet(s) PROVE NoRepeat(t)
  <2> SUFFICES ASSUME NEW i \in 1 .. Len(s) + 1, NEW j \in 1 .. Len(s) + 1,
                      t[i] = t[j]
               PROVE  i = j
    BY <1>4 DEF NoRepeat
  <2>1. \A k \in 1 .. Len(s) : s[k] # e
    BY <1>7, InToSet
  <2>2. CASE i = 1 \/ j = 1
    BY <2>1, <2>2, <1>3, <1>5
  <2>3. CASE i # 1 /\ j # 1
    <3>1. i - 1 = j - 1
      BY <2>3, <1>2, <1>5, <1>7 DEF NoRepeat
    <3> QED BY <3>1, <1>2
  <2> QED BY <2>2, <2>3
<1> QED BY <1>3, <1>6, <1>7 DEF t

\* A slice, by position.
LEMMA SliceLemma ==
    ASSUME NEW S, NEW s \in Seq(S), NEW m \in 1 .. Len(s) + 1, NEW n \in 0 .. Len(s)
    PROVE  /\ SubSeq(s, m, n) \in Seq(S)
           /\ Len(SubSeq(s, m, n)) = IF m <= n THEN n - m + 1 ELSE 0
           /\ \A i \in 1 .. Len(SubSeq(s, m, n)) :
                 m + i - 1 \in 1 .. Len(s) /\ SubSeq(s, m, n)[i] = s[m + i - 1]
           /\ ToSet(SubSeq(s, m, n)) = {s[j] : j \in m .. n}
           /\ NoRepeat(s) => NoRepeat(SubSeq(s, m, n))
<1> DEFINE t == SubSeq(s, m, n)
<1>1. Len(s) \in Nat /\ DOMAIN s = 1 .. Len(s) /\ m \in Int /\ n \in Int
  BY LenProperties
<1>2. \A i \in m .. n : i \in 1 .. Len(s) /\ s[i] \in S
  BY <1>1, ElementOfSeq
<1>3. /\ t \in Seq(S) /\ Len(t) = IF m <= n THEN n - m + 1 ELSE 0
      /\ \A i \in 1 .. n - m + 1 : t[i] = s[m + i - 1]
  BY <1>1, <1>2, SubSeqProperties
<1>4. DOMAIN t = 1 .. Len(t)
  BY <1>3, LenProperties
<1> HIDE DEF t
<1>5. \A i \in 1 .. Len(t) : m + i - 1 \in m .. n /\ t[i] = s[m + i - 1]
  BY <1>1, <1>3
<1>6. ToSet(t) = {s[j] : j \in m .. n}
  <2>1. ASSUME NEW x \in ToSet(t) PROVE \E j \in m .. n : s[j] = x
    <3>1. PICK i \in 1 .. Len(t) : t[i] = x
      BY <2>1, <1>3, InToSet
    <3> QED BY <3>1, <1>5
  <2>2. ASSUME NEW j \in m .. n PROVE s[j] \in ToSet(t)
    <3>1. j - m + 1 \in 1 .. Len(t) /\ m + (j - m + 1) - 1 = j
      BY <1>1, <1>3
    <3> QED BY <3>1, <1>3, <1>5, InToSet
  <2> QED BY <2>1, <2>2
<1>7. ASSUME NoRepeat(s) PROVE NoRepeat(t)
  <2> SUFFICES ASSUME NEW i \in 1 .. Len(t), NEW j \in 1 .. Len(t), t[i] = t[j]
               PROVE  i = j
    BY <1>4 DEF NoRepeat
  <2>1. m + i - 1 = m + j - 1
    BY <1>1, <1>2, <1>5, <1>7 DEF NoRepeat
  <2> QED BY <2>1, <1>1
<1> QED BY <1>2, <1>3, <1>5, <1>6, <1>7 DEF t

\* Concatenation, by its elements.
LEMMA ConcatLemma ==
    ASSUME NEW S, NEW s \in Seq(S), NEW t \in Seq(S)
    PROVE  /\ s \o t \in Seq(S) /\ Len(s \o t) = Len(s) + Len(t)
           /\ ToSet(s \o t) = ToSet(s) \cup ToSet(t)
           /\ NoRepeat(s) /\ NoRepeat(t) /\ ToSet(s) \cap ToSet(t) = {}
                 => NoRepeat(s \o t)
<1> DEFINE u == s \o t
<1>1. /\ u \in Seq(S) /\ Len(u) = Len(s) + Len(t)
      /\ \A i \in 1 .. Len(s) + Len(t) :
            u[i] = IF i <= Len(s) THEN s[i] ELSE t[i - Len(s)]
  BY ConcatProperties
<1>2. /\ Len(s) \in Nat /\ DOMAIN s = 1 .. Len(s)
      /\ Len(t) \in Nat /\ DOMAIN t = 1 .. Len(t) /\ DOMAIN u = 1 .. Len(u)
  BY <1>1, LenProperties
<1> HIDE DEF u
<1>3. \A i \in 1 .. Len(s) : i \in 1 .. Len(u) /\ u[i] = s[i]
  BY <1>1, <1>2
<1>4. \A i \in 1 .. Len(t) : Len(s) + i \in 1 .. Len(u) /\ u[Len(s) + i] = t[i]
  <2> TAKE i \in 1 .. Len(t)
  <2>1. /\ Len(s) + i \in 1 .. Len(s) + Len(t) /\ ~(Len(s) + i <= Len(s))
        /\ (Len(s) + i) - Len(s) = i
    BY <1>2
  <2> QED BY <2>1, <1>1
<1>5. \A i \in 1 .. Len(u) : \/ i \in 1 .. Len(s) /\ u[i] = s[i]
                             \/ i - Len(s) \in 1 .. Len(t) /\ u[i] = t[i - Len(s)]
  BY <1>1, <1>2
<1>6. ToSet(u) = ToSet(s) \cup ToSet(t)
  <2>1. ASSUME NEW x \in ToSet(u) PROVE x \in ToSet(s) \cup ToSet(t)
    <3>1. PICK i \in 1 .. Len(u) : u[i] = x
      BY <2>1, <1>1, InToSet
    <3> QED BY <3>1, <1>5, InToSet
  <2>2. ToSet(s) \subseteq ToSet(u)
    BY <1>1, <1>3, InToSet
  <2>3. ASSUME NEW x \in ToSet(t) PROVE x \in ToSet(u)
    <3>1. PICK i \in 1 .. Len(t) : t[i] = x
      BY <2>3, InToSet
    <3>2. Len(s) + i \in 1 .. Len(u) /\ u[Len(s) + i] = x
      BY <3>1, <1>4
    <3> QED BY <3>2, <1>1, InToSet
  <2> QED BY <2>1, <2>2, <2>3
<1>7. ASSUME NoRepeat(s), NoRepeat(t), ToSet(s) \cap ToSet(t) = {}
      PROVE  NoRepeat(u)
  <2> SUFFICES ASSUME NEW i \in 1 .. Len(u), NEW j \in 1 .. Len(u), u[i] = u[j]
               PROVE  i = j
    BY <1>2 DEF NoRepeat
  <2>1. \A k \in 1 .. Len(s), l \in 1 .. Len(t) : s[k] # t[l]
    BY <1>7, InToSet
  <2>2. CASE i \in 1 .. Len(s) /\ j \in 1 .. Len(s)
    BY <2>2, <1>2, <1>3, <1>7 DEF NoRepeat
  <2>3. CASE i \notin 1 .. Len(s) /\ j \notin 1 .. Len(s)
    <3>1. i - Len(s) = j - Len(s)
      BY <2>3, <1>2, <1>5, <1>7 DEF NoRepeat
    <3> QED BY <3>1, <1>1, <1>2
  <2> QED BY <2>1, <2>2, <2>3, <1>5
<1> QED BY <1>1, <1>6, <1>7 DEF u

\* Deleting position i: the element there is gone, every other one stays.
LEMMA RemoveAtLemma ==
    ASSUME NEW S, NEW s \in Seq(S), NEW i \in 1 .. Len(s)
    PROVE  /\ RemoveAt(s, i) \in Seq(S)
           /\ Len(RemoveAt(s, i)) = Len(s) - 1
           /\ NoRepeat(s) => /\ NoRepeat(RemoveAt(s, i))
                             /\ ToSet(RemoveAt(s, i)) = ToSet(s) \ {s[i]}
<1> DEFINE f == SubSeq(s, 1, i - 1)
           b == SubSeq(s, i + 1, Len(s))
<1>1. /\ Len(s) \in Nat /\ DOMAIN s = 1 .. Len(s)
      /\ 1 \in 1 .. Len(s) + 1 /\ i - 1 \in 0 .. Len(s)
      /\ i + 1 \in 1 .. Len(s) + 1 /\ Len(s) \in 0 .. Len(s)
  BY LenProperties
<1>2. /\ f \in Seq(S) /\ Len(f) = i - 1
      /\ ToSet(f) = {s[j] : j \in 1 .. i - 1}
      /\ NoRepeat(s) => NoRepeat(f)
  <2>1. Len(f) = IF 1 <= i - 1 THEN (i - 1) - 1 + 1 ELSE 0
    BY <1>1, SliceLemma
  <2> QED BY <2>1, <1>1, SliceLemma
<1>3. /\ b \in Seq(S) /\ Len(b) = Len(s) - i
      /\ ToSet(b) = {s[j] : j \in i + 1 .. Len(s)}
      /\ NoRepeat(s) => NoRepeat(b)
  <2>1. /\ b \in Seq(S) /\ NoRepeat(s) => NoRepeat(b)
        /\ Len(b) = IF i + 1 <= Len(s) THEN Len(s) - (i + 1) + 1 ELSE 0
        /\ ToSet(b) = {s[j] : j \in i + 1 .. Len(s)}
    BY <1>1, SliceLemma
  <2>2. Len(b) = Len(s) - i
    BY <2>1, <1>1
  <2> QED BY <2>1, <2>2
<1>4. RemoveAt(s, i) = f \o b
  BY DEF RemoveAt
<1> DEFINE r == RemoveAt(s, i)
<1> HIDE DEF f, b
<1>5. /\ r \in Seq(S) /\ Len(r) = Len(f) + Len(b)
      /\ ToSet(r) = ToSet(f) \cup ToSet(b)
      /\ NoRepeat(f) /\ NoRepeat(b) /\ ToSet(f) \cap ToSet(b) = {}
            => NoRepeat(r)
  <2>1. f \in Seq(S) /\ b \in Seq(S)
    BY <1>2, <1>3
  <2> QED BY <2>1, <1>4, ConcatLemma
<1> HIDE DEF r
<1>6. r \in Seq(S) /\ Len(r) = Len(s) - 1
  BY <1>1, <1>2, <1>3, <1>5
<1>7. ASSUME NoRepeat(s)
      PROVE  NoRepeat(r) /\ ToSet(r) = ToSet(s) \ {s[i]}
  <2>1. \A j, k \in 1 .. Len(s) : s[j] = s[k] => j = k
    BY <1>1, <1>7 DEF NoRepeat
  <2>2. ToSet(f) \cap ToSet(b) = {}
    BY <2>1, <1>1, <1>2, <1>3
  <2>3. ToSet(s) = {s[j] : j \in 1 .. Len(s)}
    BY <1>1 DEF ToSet
  <2>4. \A j \in 1 .. Len(s) : j # i <=> j \in (1 .. i - 1) \cup (i + 1 .. Len(s))
    BY <1>1
  <2>5. (1 .. i - 1) \cup (i + 1 .. Len(s)) \subseteq 1 .. Len(s)
    BY <1>1
  <2>6. ToSet(f) \cup ToSet(b) = ToSet(s) \ {s[i]}
    BY <2>1, <2>3, <2>4, <2>5, <1>2, <1>3
  <2>7. NoRepeat(f) /\ NoRepeat(b)
    BY <1>2, <1>3, <1>7
  <2> QED BY <2>2, <2>6, <2>7, <1>5
<1> QED BY <1>6, <1>7 DEF r

\* deque.popleft: the head leaves, the rest stays in order.
LEMMA HeadTailLemma ==
    ASSUME NEW S, NEW s \in Seq(S), s # <<>>
    PROVE  /\ Head(s) \in S /\ Head(s) \in ToSet(s) /\ Head(s) = s[1]
           /\ Tail(s) \in Seq(S) /\ Len(Tail(s)) = Len(s) - 1
           /\ NoRepeat(s) => /\ NoRepeat(Tail(s))
                             /\ ToSet(Tail(s)) = ToSet(s) \ {Head(s)}
<1>1. Len(s) \in Nat \ {0} /\ 1 \in 1 .. Len(s)
  BY EmptySeq, LenProperties
<1>2. Head(s) = s[1] /\ Head(s) \in S
  BY HeadTailProperties
<1>3. Tail(s) = RemoveAt(s, 1)
  <2>1. Tail(s) = SubSeq(s, 2, Len(s))
    BY TailIsSubSeq
  <2>2. SubSeq(s, 1, 0) = <<>>
    BY SubSeqEmpty
  <2>3. <<>> \o SubSeq(s, 2, Len(s)) = SubSeq(s, 2, Len(s))
    BY <2>1, HeadTailProperties, ConcatEmptySeq
  <2> QED BY <2>1, <2>2, <2>3 DEF RemoveAt
<1>4. Head(s) \in ToSet(s)
  BY <1>1, <1>2, InToSet
<1>5. /\ Tail(s) \in Seq(S) /\ Len(Tail(s)) = Len(s) - 1
      /\ NoRepeat(s) => /\ NoRepeat(Tail(s))
                        /\ ToSet(Tail(s)) = ToSet(s) \ {s[1]}
  <2>1. /\ RemoveAt(s, 1) \in Seq(S) /\ Len(RemoveAt(s, 1)) = Len(s) - 1
        /\ NoRepeat(s) => /\ NoRepeat(RemoveAt(s, 1))
                          /\ ToSet(RemoveAt(s, 1)) = ToSet(s) \ {s[1]}
    BY <1>1, RemoveAtLemma
  <2> QED BY ONLY <2>1, <1>3
<1> QED BY <1>2, <1>4, <1>5

\* Deleting position i moves what is behind it up by one.
LEMMA RemoveAtPositions ==
    ASSUME NEW S, NEW s \in Seq(S), NEW i \in 1 .. Len(s)
    PROVE  \A j \in 1 .. Len(s) - 1 :
              RemoveAt(s, i)[j] = s[IF j < i THEN j ELSE j + 1]
<1> DEFINE f == SubSeq(s, 1, i - 1)
           b == SubSeq(s, i + 1, Len(s))
           r == RemoveAt(s, i)
<1>1. /\ Len(s) \in Nat /\ i \in Int
      /\ 1 \in 1 .. Len(s) + 1 /\ i - 1 \in 0 .. Len(s)
      /\ i + 1 \in 1 .. Len(s) + 1 /\ Len(s) \in 0 .. Len(s)
  BY LenProperties
<1>2. /\ f \in Seq(S) /\ Len(f) = i - 1
      /\ \A j \in 1 .. Len(f) : f[j] = s[1 + j - 1]
  <2>1. /\ f \in Seq(S)
        /\ Len(f) = IF 1 <= i - 1 THEN (i - 1) - 1 + 1 ELSE 0
        /\ \A j \in 1 .. Len(f) : f[j] = s[1 + j - 1]
    BY <1>1, SliceLemma
  <2>2. Len(f) = i - 1
    BY <2>1, <1>1
  <2> QED BY <2>1, <2>2
<1>3. /\ b \in Seq(S) /\ Len(b) = Len(s) - i
      /\ \A j \in 1 .. Len(b) : b[j] = s[i + 1 + j - 1]
  <2>1. /\ b \in Seq(S)
        /\ Len(b) = IF i + 1 <= Len(s) THEN Len(s) - (i + 1) + 1 ELSE 0
        /\ \A j \in 1 .. Len(b) : b[j] = s[i + 1 + j - 1]
    BY <1>1, SliceLemma
  <2>2. Len(b) = Len(s) - i
    BY <2>1, <1>1
  <2> QED BY <2>1, <2>2
<1>4. r = f \o b
  BY DEF RemoveAt
<1> HIDE DEF f, b, r
<1>5. \A j \in 1 .. Len(f) + Len(b) :
         r[j] = IF j <= Len(f) THEN f[j] ELSE b[j - Len(f)]
  BY <1>2, <1>3, <1>4, ConcatProperties
<1>6. ASSUME NEW j \in 1 .. Len(s) - 1
      PROVE  r[j] = s[IF j < i THEN j ELSE j + 1]
  <2>1. /\ j \in 1 .. Len(f) + Len(b) /\ (j <= Len(f) <=> j < i)
        /\ j <= Len(f) => j \in 1 .. Len(f) /\ 1 + j - 1 = j
        /\ ~(j <= Len(f)) => /\ j - Len(f) \in 1 .. Len(b)
                             /\ i + 1 + (j - Len(f)) - 1 = j + 1
    BY <1>1, <1>2, <1>3
  <2> QED BY <2>1, <1>2, <1>3, <1>5
<1> QED BY <1>6 DEF r

\* A sequence of numbers in ascending order.
Ascending(s) == \A i, j \in DOMAIN s : i < j => s[i] < s[j]

\* Deleting an element keeps the order.
LEMMA AscendingRemoveAt ==
    ASSUME NEW s \in Seq(Int), NEW i \in 1 .. Len(s), Ascending(s)
    PROVE  Ascending(RemoveAt(s, i))
<1> DEFINE r == RemoveAt(s, i)
<1>1. Len(s) \in Nat /\ DOMAIN s = 1 .. Len(s)
  BY LenProperties
<1>2. DOMAIN r = 1 .. Len(s) - 1
  <2>1. r \in Seq(Int) /\ Len(r) = Len(s) - 1
    BY RemoveAtLemma
  <2> QED BY <2>1, LenProperties
<1>3. \A j \in 1 .. Len(s) - 1 : r[j] = s[IF j < i THEN j ELSE j + 1]
  BY RemoveAtPositions
<1> HIDE DEF r
<1>4. ASSUME NEW j \in 1 .. Len(s) - 1, NEW k \in 1 .. Len(s) - 1, j < k
      PROVE  r[j] < r[k]
  <2> DEFINE p == IF j < i THEN j ELSE j + 1
             q == IF k < i THEN k ELSE k + 1
  <2>1. p \in 1 .. Len(s) /\ q \in 1 .. Len(s) /\ p < q
    BY <1>1, <1>4
  <2>2. r[j] = s[p] /\ r[k] = s[q]
    BY <1>3
  <2> QED BY <2>1, <2>2, <1>1 DEF Ascending
<1> QED BY <1>2, <1>4 DEF Ascending, r

\* So does taking a slice.
LEMMA AscendingSlice ==
    ASSUME NEW s \in Seq(Int), NEW m \in 1 .. Len(s) + 1, NEW n \in 0 .. Len(s),
           Ascending(s)
    PROVE  Ascending(SubSeq(s, m, n))
<1> DEFINE t == SubSeq(s, m, n)
<1>1. /\ t \in Seq(Int)
      /\ \A i \in 1 .. Len(t) : m + i - 1 \in 1 .. Len(s) /\ t[i] = s[m + i - 1]
  BY ONLY s \in Seq(Int), m \in 1 .. Len(s) + 1, n \in 0 .. Len(s), SliceLemma
<1>2. /\ DOMAIN t = 1 .. Len(t) /\ DOMAIN s = 1 .. Len(s) /\ Len(s) \in Nat
      /\ Len(t) \in Nat
  BY <1>1, LenProperties
<1> HIDE DEF t
<1>3. ASSUME NEW i \in 1 .. Len(t), NEW j \in 1 .. Len(t), i < j
      PROVE  t[i] < t[j]
  <2>1. m + i - 1 < m + j - 1
    BY <1>2, <1>3
  <2> QED BY <2>1, <1>1, <1>2 DEF Ascending
<1> QED BY <1>2, <1>3 DEF Ascending, t

\* So does appending an element above all others.
LEMMA AscendingAppend ==
    ASSUME NEW s \in Seq(Int), NEW e \in Int, Ascending(s),
           \A x \in ToSet(s) : x < e
    PROVE  Ascending(Append(s, e))
<1> DEFINE t == Append(s, e)
<1>1. /\ t \in Seq(Int) /\ Len(t) = Len(s) + 1
      /\ \A i \in 1 .. Len(s) : t[i] = s[i]
      /\ t[Len(s) + 1] = e
  BY AppendProperties
<1>2. Len(s) \in Nat /\ DOMAIN s = 1 .. Len(s) /\ DOMAIN t = 1 .. Len(s) + 1
  BY <1>1, LenProperties
<1>3. \A i \in 1 .. Len(s) : s[i] < e
  BY InToSet
<1> HIDE DEF t
<1>4. ASSUME NEW i \in 1 .. Len(s) + 1, NEW j \in 1 .. Len(s) + 1, i < j
      PROVE  t[i] < t[j]
  <2>1. i \in 1 .. Len(s) /\ t[i] = s[i]
    BY <1>1, <1>2, <1>4
  <2>2. CASE j = Len(s) + 1
    BY <2>1, <2>2, <1>1, <1>3
  <2>3. CASE j # Len(s) + 1
    <3>1. j \in 1 .. Len(s) /\ t[j] = s[j]
      BY <2>3, <1>1, <1>2
    <3> QED BY <2>1, <3>1, <1>2, <1>4 DEF Ascending
  <2> QED BY <2>2, <2>3
<1> QED BY <1>2, <1>4 DEF Ascending, t

\* Reversing a sequence keeps its elements.
LEMMA ReverseLemma ==
    ASSUME NEW S, NEW s \in Seq(S)
    PROVE  /\ Reverse(s) \in Seq(S) /\ ToSet(Reverse(s)) = ToSet(s)
           /\ NoRepeat(s) => NoRepeat(Reverse(s))
<1> DEFINE t == Reverse(s)
           n == Len(s)
<1>1. /\ n \in Nat /\ DOMAIN s = 1 .. n /\ \A i \in 1 .. n : s[i] \in S
      /\ \A i \in 1 .. n : (n - i) + 1 \in 1 .. n /\ (n - ((n - i) + 1)) + 1 = i
  BY LenProperties, ElementOfSeq
<1>2. t = [i \in 1 .. n |-> s[(n - i) + 1]]
  BY DEF Reverse
<1> HIDE DEF n
<1>3. t \in Seq(S) /\ DOMAIN t = 1 .. n
  BY <1>1, <1>2, IsASeq
<1> HIDE DEF t
<1>4. \A i \in 1 .. n : t[i] = s[(n - i) + 1] /\ t[(n - i) + 1] = s[i]
  BY <1>1, <1>2
<1>5. ToSet(t) = ToSet(s)
  BY <1>1, <1>3, <1>4 DEF ToSet
<1>6. ASSUME NoRepeat(s) PROVE NoRepeat(t)
  <2>1. ASSUME NEW i \in 1 .. n, NEW j \in 1 .. n, t[i] = t[j] PROVE i = j
    <3>1. (n - i) + 1 = (n - j) + 1
      BY <1>1, <1>4, <1>6, <2>1 DEF NoRepeat
    <3> QED BY <1>1, <3>1
  <2> QED BY <1>3, <2>1 DEF NoRepeat
<1> QED BY <1>3, <1>5, <1>6 DEF t
=============================================================================
