---------------------------- MODULE CacheLemmas ----------------------------
(***************************************************************************)
(* What one add does to the cache, for every size and every set of values: *)
(* the facts that MeshProofs rests on.                                     *)
(***************************************************************************)
EXTENDS Cache, SequenceTheorems, TLAPS

\* How many values come before the last n: none, or all but n.
LEMMA BeforeProperties ==
  ASSUME NEW S, NEW s \in Seq(S), NEW n \in Nat \ {0}
  PROVE  /\ Before(s, n) \in Nat
         /\ Len(s) \in Nat
         /\ Before(s, n) <= Len(s)
         /\ Len(s) <= n => Before(s, n) = 0
         /\ Len(s) >= n => Before(s, n) = Len(s) - n
<1>1. Len(s) \in Nat
  BY LenProperties
<1>2. CASE Len(s) > n
  BY <1>1, <1>2 DEF Before
<1>3. CASE ~ (Len(s) > n)
  BY <1>1, <1>3 DEF Before
<1> QED BY <1>2, <1>3

\* The last n values of a sequence, place by place.
LEMMA LastOfProperties ==
  ASSUME NEW S, NEW s \in Seq(S), NEW n \in Nat \ {0}
  PROVE  /\ LastOf(s, n) \in Seq(S)
         /\ Len(LastOf(s, n)) = Len(s) - Before(s, n)
         /\ \A i \in 1 .. Len(LastOf(s, n)) : LastOf(s, n)[i] = s[Before(s, n) + i]
<1> DEFINE first == Before(s, n) + 1
<1>1. /\ Len(s) \in Nat
      /\ Before(s, n) \in Nat
      /\ Before(s, n) <= Len(s)
      /\ first \in Int
      /\ first >= 1
  BY BeforeProperties
<1>2. \A i \in first .. Len(s) : s[i] \in S
  <2> TAKE i \in first .. Len(s)
  <2>1. i \in 1 .. Len(s)
    BY <1>1
  <2> QED BY <2>1, ElementOfSeq
<1>3. /\ SubSeq(s, first, Len(s)) \in Seq(S)
      /\ Len(SubSeq(s, first, Len(s))) =
           IF first <= Len(s) THEN Len(s) - first + 1 ELSE 0
      /\ \A i \in 1 .. Len(s) - first + 1 :
           SubSeq(s, first, Len(s))[i] = s[first + i - 1]
  <2> HIDE DEF first
  <2> QED BY <1>1, <1>2, SubSeqProperties
<1>4. LastOf(s, n) = SubSeq(s, first, Len(s))
  BY DEF LastOf
<1>5. Len(LastOf(s, n)) = Len(s) - Before(s, n)
  <2>1. CASE first <= Len(s)
    BY <1>1, <1>3, <1>4, <2>1
  <2>2. CASE ~ (first <= Len(s))
    BY <1>1, <1>3, <1>4, <2>2
  <2> QED BY <2>1, <2>2
<1>6. ASSUME NEW i \in 1 .. Len(LastOf(s, n))
      PROVE  LastOf(s, n)[i] = s[Before(s, n) + i]
  <2>1. i \in 1 .. Len(s) - first + 1
    BY <1>1, <1>5
  <2>2. first + i - 1 = Before(s, n) + i
    BY <1>1
  <2> QED BY <1>3, <1>4, <2>1, <2>2
<1> QED BY <1>3, <1>4, <1>5, <1>6

\* A cache that has accepted nothing holds nothing, and repeats nothing.
LEMMA EmptyCache ==
  ASSUME NEW n \in Nat \ {0}
  PROVE  LastOf(<<>>, n) = <<>> /\ Spaced(<<>>, n)
<1>1. <<>> \in Seq({}) /\ DOMAIN <<>> = 1 .. 0 /\ Len(<<>>) = 0
  BY EmptySeq
<1>2. /\ LastOf(<<>>, n) \in Seq({})
      /\ Len(LastOf(<<>>, n)) = Len(<<>>) - Before(<<>>, n)
      /\ Len(<<>>) <= n => Before(<<>>, n) = 0
  BY <1>1, LastOfProperties, BeforeProperties
<1>3. LastOf(<<>>, n) = <<>>
  BY <1>1, <1>2, EmptySeq
<1> QED BY <1>1, <1>3 DEF Spaced

\* Whether a value is in the deque, by its place in the sequence of all adds.
LEMMA HasIsRecent ==
  ASSUME NEW S, NEW s \in Seq(S), NEW n \in Nat \ {0}, NEW v
  PROVE  CacheHas(LastOf(s, n), v)
           <=> \E i \in Before(s, n) + 1 .. Len(s) : s[i] = v
<1> DEFINE q == LastOf(s, n)
<1> DEFINE d == Before(s, n)
<1>1. Len(s) \in Nat /\ d \in Nat /\ d <= Len(s)
  BY BeforeProperties
<1>2. /\ q \in Seq(S)
      /\ Len(q) = Len(s) - d
      /\ \A i \in 1 .. Len(q) : q[i] = s[d + i]
  BY LastOfProperties
<1> HIDE DEF d, q
<1>3. CacheHas(q, v) <=> \E i \in 1 .. Len(q) : q[i] = v
  BY <1>2, LenProperties DEF CacheHas, Contains
<1>4. ASSUME NEW i \in 1 .. Len(q), q[i] = v
      PROVE  \E j \in d + 1 .. Len(s) : s[j] = v
  <2>1. d + i \in d + 1 .. Len(s)
    BY <1>1, <1>2
  <2> QED BY <1>2, <1>4, <2>1
<1>5. ASSUME NEW j \in d + 1 .. Len(s), s[j] = v
      PROVE  \E i \in 1 .. Len(q) : q[i] = v
  <2>1. j - d \in 1 .. Len(q) /\ d + (j - d) = j
    BY <1>1, <1>2
  <2>2. q[j - d] = s[d + (j - d)]
    BY <1>2, <2>1
  <2> QED BY <1>5, <2>1, <2>2
<1> QED BY <1>3, <1>4, <1>5 DEF q, d

(***************************************************************************)
(* One accepted add keeps the deque equal to the last n values added.      *)
(***************************************************************************)
LEMMA AddKeepsLast ==
  ASSUME NEW S, NEW s \in Seq(S), NEW n \in Nat \ {0}, NEW v \in S
  PROVE  CacheAdd(LastOf(s, n), v, n) = LastOf(Append(s, v), n)
<1> DEFINE q == LastOf(s, n)
<1> DEFINE t == Append(s, v)
<1>1. /\ q \in Seq(S)
      /\ Len(q) = Len(s) - Before(s, n)
      /\ \A i \in 1 .. Len(q) : q[i] = s[Before(s, n) + i]
  BY LastOfProperties
<1>2. /\ t \in Seq(S) /\ Len(t) = Len(s) + 1 /\ Len(s) \in Nat
      /\ \A i \in 1 .. Len(s) : t[i] = s[i]
      /\ t[Len(s) + 1] = v
  BY AppendProperties, LenProperties
<1>3. /\ LastOf(t, n) \in Seq(S)
      /\ Len(LastOf(t, n)) = Len(t) - Before(t, n)
      /\ \A i \in 1 .. Len(LastOf(t, n)) : LastOf(t, n)[i] = t[Before(t, n) + i]
  BY <1>2, LastOfProperties
<1>4. /\ Before(s, n) \in Nat
      /\ Before(s, n) <= Len(s)
      /\ Len(s) <= n => Before(s, n) = 0
      /\ Len(s) >= n => Before(s, n) = Len(s) - n
      /\ Len(t) <= n => Before(t, n) = 0
      /\ Len(t) >= n => Before(t, n) = Len(t) - n
  BY <1>2, BeforeProperties
<1> HIDE DEF q, t
<1>5. CASE Len(s) >= n
  <2>1. Len(q) = n /\ Before(s, n) = Len(s) - n /\ Before(t, n) = Len(s) + 1 - n
    BY <1>1, <1>2, <1>4, <1>5
  <2>2. /\ Tail(q) \in Seq(S) /\ Len(Tail(q)) = n - 1
        /\ \A i \in 1 .. n - 1 : Tail(q)[i] = q[i + 1]
    <3>1. q # <<>>
      BY <1>1, <2>1, EmptySeq
    <3> QED BY <1>1, <2>1, <3>1, HeadTailProperties
  <2>3. /\ Append(Tail(q), v) \in Seq(S) /\ Len(Append(Tail(q), v)) = n
        /\ \A i \in 1 .. n - 1 : Append(Tail(q), v)[i] = Tail(q)[i]
        /\ Append(Tail(q), v)[n] = v
    BY <2>2, AppendProperties
  <2>4. Len(LastOf(t, n)) = n
    BY <1>2, <1>3, <2>1
  <2>5. ASSUME NEW i \in 1 .. n - 1
        PROVE  Append(Tail(q), v)[i] = LastOf(t, n)[i]
    <3>1. i + 1 \in 1 .. n /\ i \in 1 .. n
      OBVIOUS
    <3>2. Append(Tail(q), v)[i] = s[Before(s, n) + (i + 1)]
      BY <1>1, <2>1, <2>2, <2>3, <3>1
    <3>3. LastOf(t, n)[i] = t[Before(t, n) + i]
      BY <1>3, <2>4, <3>1
    <3>4. /\ Before(s, n) + (i + 1) = Before(t, n) + i
          /\ Before(t, n) + i \in 1 .. Len(s)
      BY <1>2, <1>5, <2>1
    <3> QED BY <1>2, <3>2, <3>3, <3>4
  <2>6. LastOf(t, n)[n] = v
    <3>1. n \in 1 .. n /\ Before(t, n) + n = Len(s) + 1
      BY <1>2, <2>1
    <3> QED BY <1>2, <1>3, <2>4, <3>1
  <2>7. \A i \in 1 .. n : Append(Tail(q), v)[i] = LastOf(t, n)[i]
    <3> TAKE i \in 1 .. n
    <3>1. i = n \/ i \in 1 .. n - 1
      OBVIOUS
    <3> QED BY <2>3, <2>5, <2>6, <3>1
  <2>8. Append(Tail(q), v) = LastOf(t, n)
    BY <1>3, <2>3, <2>4, <2>7, SeqEqual
  <2> QED BY <2>1, <2>8 DEF CacheAdd, q, t
<1>6. CASE Len(s) < n
  <2>1. /\ Before(s, n) = 0 /\ Before(t, n) = 0
        /\ Len(q) = Len(s) /\ Len(q) # n /\ Len(LastOf(t, n)) = Len(s) + 1
    BY <1>1, <1>2, <1>3, <1>4, <1>6
  <2>2. /\ Append(q, v) \in Seq(S) /\ Len(Append(q, v)) = Len(s) + 1
        /\ \A i \in 1 .. Len(s) : Append(q, v)[i] = q[i]
        /\ Append(q, v)[Len(s) + 1] = v
    BY <1>1, <2>1, AppendProperties
  <2>3. \A i \in 1 .. Len(s) : q[i] = s[i]
    <3> TAKE i \in 1 .. Len(s)
    <3>1. 0 + i = i
      BY <1>2
    <3> QED BY <1>1, <2>1, <3>1
  <2>4. \A i \in 1 .. Len(s) + 1 : LastOf(t, n)[i] = t[i]
    <3> TAKE i \in 1 .. Len(s) + 1
    <3>1. 0 + i = i
      BY <1>2
    <3> QED BY <1>3, <2>1, <3>1
  <2>5. \A i \in 1 .. Len(s) + 1 : Append(q, v)[i] = LastOf(t, n)[i]
    <3> TAKE i \in 1 .. Len(s) + 1
    <3>1. i = Len(s) + 1 \/ i \in 1 .. Len(s)
      BY <1>2
    <3> QED BY <1>2, <2>2, <2>3, <2>4, <3>1
  <2>6. Append(q, v) = LastOf(t, n)
    BY <1>3, <2>1, <2>2, <2>5, SeqEqual
  <2> QED BY <2>1, <2>6 DEF CacheAdd, q, t
<1> QED BY <1>2, <1>5, <1>6

(***************************************************************************)
(* One accepted add keeps the repeats more than n places apart: a repeat   *)
(* any closer would still have been in the deque and been refused.         *)
(***************************************************************************)
LEMMA AddKeepsSpaced ==
  ASSUME NEW S, NEW s \in Seq(S), NEW n \in Nat \ {0}, NEW v \in S,
         Spaced(s, n), ~ CacheHas(LastOf(s, n), v)
  PROVE  Spaced(Append(s, v), n)
<1> DEFINE t == Append(s, v)
<1>1. /\ DOMAIN t = 1 .. Len(s) + 1 /\ Len(s) \in Nat /\ DOMAIN s = 1 .. Len(s)
      /\ \A i \in 1 .. Len(s) : t[i] = s[i]
      /\ t[Len(s) + 1] = v
  BY AppendProperties, LenProperties
<1>2. ASSUME NEW i \in 1 .. Len(s), s[i] = v PROVE Len(s) - i >= n
  <2>1. /\ Before(s, n) \in Nat
        /\ Len(s) <= n => Before(s, n) = 0
        /\ Len(s) >= n => Before(s, n) = Len(s) - n
    BY BeforeProperties
  <2>2. ~ (i \in Before(s, n) + 1 .. Len(s))
    BY <1>2, HasIsRecent
  <2>3. i <= Before(s, n)
    BY <1>1, <2>1, <2>2
  <2> QED BY <1>1, <2>1, <2>3
<1> HIDE DEF t
<1>3. ASSUME NEW i \in 1 .. Len(s) + 1, NEW j \in 1 .. Len(s) + 1,
             i < j, t[i] = t[j]
      PROVE  j - i > n
  <2>1. i \in 1 .. Len(s) /\ t[i] = s[i]
    BY <1>1, <1>3
  <2>2. CASE j = Len(s) + 1
    <3>1. s[i] = v
      BY <1>1, <1>3, <2>1, <2>2
    <3>2. Len(s) - i >= n /\ i \in Nat
      BY <1>2, <2>1, <3>1
    <3> QED BY <1>1, <2>2, <3>2
  <2>3. CASE j \in 1 .. Len(s)
    BY <1>1, <1>3, <2>1, <2>3 DEF Spaced
  <2> QED BY <1>1, <2>2, <2>3
<1> QED BY <1>1, <1>3 DEF Spaced, t
=============================================================================
