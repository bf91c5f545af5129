--------------------------- MODULE SequenceLemmas ---------------------------
(***************************************************************************)
(* Facts about queues: what Append, Tail and concatenation do to the set   *)
(* of their elements, to the distinctness of the elements, to the order of *)
(* queues of numbers, and to the image of a queue under a function.        *)
(***************************************************************************)
EXTENDS Integers, Sequences, SequencesExt, SequenceTheorems, TLAPS

LEMMA EmptyToSet ==
  /\ ToSet(<<>>) = {}
  /\ IsInjective(<<>>)
BY DEF ToSet, IsInjective

LEMMA MemberIndex ==
  ASSUME NEW S, NEW s \in Seq(S), NEW x
  PROVE  x \in ToSet(s) <=> \E i \in 1 .. Len(s) : s[i] = x
BY LenProperties DEF ToSet

LEMMA AppendToSet ==
  ASSUME NEW S, NEW s \in Seq(S), NEW e \in S
  PROVE  /\ Append(s, e) \in Seq(S)
         /\ Append(s, e) # <<>>
         /\ ToSet(Append(s, e)) = ToSet(s) \cup {e}
<1>1. Append(s, e) \in Seq(S) /\ Append(s, e) # <<>>
  BY AppendProperties
<1>2. ASSUME NEW x PROVE x \in ToSet(Append(s, e)) <=> x \in ToSet(s) \cup {e}
  <2>1. /\ Len(Append(s, e)) = Len(s) + 1
        /\ Len(s) \in Nat
        /\ \A i \in 1 .. Len(s) : Append(s, e)[i] = s[i]
        /\ Append(s, e)[Len(s) + 1] = e
    BY AppendProperties, LenProperties
  <2>2. x \in ToSet(Append(s, e)) <=> \E i \in 1 .. Len(s) + 1 : Append(s, e)[i] = x
    <3>1. x \in ToSet(Append(s, e)) <=>
            \E i \in 1 .. Len(Append(s, e)) : Append(s, e)[i] = x
      BY <1>1, MemberIndex
    <3> QED
      BY <3>1, <2>1
  <2>3. x \in ToSet(s) <=> \E i \in 1 .. Len(s) : s[i] = x
    BY MemberIndex
  <2> QED
    BY <2>1, <2>2, <2>3
<1> QED
  BY <1>1, <1>2

LEMMA AppendDistinct ==
  ASSUME NEW S, NEW s \in Seq(S), NEW e \in S, e \notin ToSet(s),
         IsInjective(s)
  PROVE  IsInjective(Append(s, e))
<1>1. /\ Append(s, e) \in Seq(S)
      /\ Len(Append(s, e)) = Len(s) + 1
      /\ Len(s) \in Nat
      /\ \A i \in 1 .. Len(s) : Append(s, e)[i] = s[i]
      /\ Append(s, e)[Len(s) + 1] = e
  BY AppendProperties, LenProperties
<1>2. DOMAIN Append(s, e) = 1 .. Len(s) + 1 /\ DOMAIN s = 1 .. Len(s)
  BY <1>1, LenProperties
<1>3. \A i \in 1 .. Len(s) : s[i] # e
  BY MemberIndex
<1> QED
  BY <1>1, <1>2, <1>3 DEF IsInjective

LEMMA TailToSet ==
  ASSUME NEW S, NEW s \in Seq(S), s # <<>>, IsInjective(s)
  PROVE  /\ Head(s) \in S
         /\ Head(s) \in ToSet(s)
         /\ Tail(s) \in Seq(S)
         /\ ToSet(Tail(s)) = ToSet(s) \ {Head(s)}
         /\ IsInjective(Tail(s))
<1>1. /\ Head(s) \in S
      /\ Tail(s) \in Seq(S)
      /\ Len(Tail(s)) = Len(s) - 1
      /\ \A i \in 1 .. Len(Tail(s)) : Tail(s)[i] = s[i + 1]
  BY HeadTailProperties
<1>2. /\ Len(s) \in Nat \ {0}
      /\ Head(s) = s[1]
      /\ DOMAIN s = 1 .. Len(s)
      /\ DOMAIN Tail(s) = 1 .. Len(s) - 1
  BY <1>1, LenProperties, EmptySeq
<1>3. Head(s) \in ToSet(s)
  BY <1>2, MemberIndex
<1>4. IsInjective(Tail(s))
  <2>1. \A i, j \in 1 .. Len(s) : s[i] = s[j] => i = j
    BY <1>2 DEF IsInjective
  <2> QED
    BY <1>1, <1>2, <2>1 DEF IsInjective
<1>5. ASSUME NEW x PROVE x \in ToSet(Tail(s)) <=> x \in ToSet(s) \ {Head(s)}
  <2>1. \A i, j \in 1 .. Len(s) : s[i] = s[j] => i = j
    BY <1>2 DEF IsInjective
  <2>2. x \in ToSet(Tail(s)) <=> \E i \in 1 .. Len(s) - 1 : s[i + 1] = x
    <3>1. x \in ToSet(Tail(s)) <=>
            \E i \in 1 .. Len(Tail(s)) : Tail(s)[i] = x
      BY <1>1, MemberIndex
    <3> QED
      BY <3>1, <1>1
  <2>3. x \in ToSet(s) <=> \E i \in 1 .. Len(s) : s[i] = x
    BY MemberIndex
  <2>4. ASSUME NEW i \in 1 .. Len(s), s[i] = x, x # Head(s)
        PROVE  i - 1 \in 1 .. Len(s) - 1 /\ s[(i - 1) + 1] = x
    BY <1>2, <2>4
  <2>5. x \in ToSet(s) \ {Head(s)} => x \in ToSet(Tail(s))
    BY <2>2, <2>3, <2>4
  <2>6. ASSUME NEW i \in 1 .. Len(s) - 1, s[i + 1] = x
        PROVE  i + 1 \in 1 .. Len(s) /\ x # Head(s)
    BY <1>2, <2>1, <2>6
  <2> QED
    BY <2>2, <2>3, <2>5, <2>6
<1> QED
  BY <1>1, <1>3, <1>4, <1>5

LEMMA ConcatToSet ==
  ASSUME NEW S, NEW s \in Seq(S), NEW t \in Seq(S)
  PROVE  /\ s \o t \in Seq(S)
         /\ ToSet(s \o t) = ToSet(s) \cup ToSet(t)
<1>1. /\ s \o t \in Seq(S)
      /\ Len(s \o t) = Len(s) + Len(t)
      /\ \A i \in 1 .. Len(s) + Len(t) :
           (s \o t)[i] = IF i <= Len(s) THEN s[i] ELSE t[i - Len(s)]
      /\ Len(s) \in Nat /\ Len(t) \in Nat
  BY ConcatProperties, LenProperties
<1>2. ASSUME NEW x PROVE x \in ToSet(s \o t) <=> x \in ToSet(s) \cup ToSet(t)
  <2>1. x \in ToSet(s \o t) <=> \E i \in 1 .. Len(s) + Len(t) : (s \o t)[i] = x
    <3>1. x \in ToSet(s \o t) <=> \E i \in 1 .. Len(s \o t) : (s \o t)[i] = x
      BY <1>1, MemberIndex
    <3> QED
      BY <1>1, <3>1
  <2>2. /\ x \in ToSet(s) <=> \E i \in 1 .. Len(s) : s[i] = x
        /\ x \in ToSet(t) <=> \E i \in 1 .. Len(t) : t[i] = x
    BY MemberIndex
  <2>3. ASSUME NEW i \in 1 .. Len(s), s[i] = x PROVE x \in ToSet(s \o t)
    BY <1>1, <2>1, <2>3
  <2>4. ASSUME NEW i \in 1 .. Len(t), t[i] = x PROVE x \in ToSet(s \o t)
    <3>1. i + Len(s) \in 1 .. Len(s) + Len(t) /\ (s \o t)[i + Len(s)] = x
      BY <1>1, <2>4
    <3> QED
      BY <2>1, <3>1
  <2>5. ASSUME NEW i \in 1 .. Len(s) + Len(t), (s \o t)[i] = x
        PROVE  x \in ToSet(s) \cup ToSet(t)
    BY <1>1, <2>2, <2>5
  <2> QED
    BY <2>1, <2>2, <2>3, <2>4, <2>5
<1> QED
  BY <1>1, <1>2

LEMMA ConcatDistinct ==
  ASSUME NEW S, NEW s \in Seq(S), NEW t \in Seq(S), IsInjective(s),
         IsInjective(t), ToSet(s) \cap ToSet(t) = {}
  PROVE  IsInjective(s \o t)
<1>1. /\ s \o t \in Seq(S)
      /\ Len(s \o t) = Len(s) + Len(t)
      /\ \A i \in 1 .. Len(s) + Len(t) :
           (s \o t)[i] = IF i <= Len(s) THEN s[i] ELSE t[i - Len(s)]
      /\ Len(s) \in Nat /\ Len(t) \in Nat
  BY ConcatProperties, LenProperties
<1>2. /\ DOMAIN (s \o t) = 1 .. Len(s) + Len(t)
      /\ DOMAIN s = 1 .. Len(s) /\ DOMAIN t = 1 .. Len(t)
  BY <1>1, LenProperties
<1>3. \A i \in 1 .. Len(s), j \in 1 .. Len(t) : s[i] # t[j]
  <2>1. \A i \in 1 .. Len(s) : s[i] \in ToSet(s)
    BY MemberIndex
  <2>2. \A j \in 1 .. Len(t) : t[j] \in ToSet(t)
    BY MemberIndex
  <2> QED
    BY <2>1, <2>2
<1>4. /\ \A i, j \in 1 .. Len(s) : s[i] = s[j] => i = j
      /\ \A i, j \in 1 .. Len(t) : t[i] = t[j] => i = j
  BY <1>2 DEF IsInjective
<1> SUFFICES ASSUME NEW i \in 1 .. Len(s) + Len(t),
                    NEW j \in 1 .. Len(s) + Len(t), (s \o t)[i] = (s \o t)[j]
             PROVE  i = j
  BY <1>2 DEF IsInjective
<1>5. CASE i <= Len(s) /\ j <= Len(s) BY <1>1, <1>4, <1>5
<1>6. CASE i <= Len(s) /\ ~(j <= Len(s)) BY <1>1, <1>3, <1>6
<1>7. CASE ~(i <= Len(s)) /\ j <= Len(s) BY <1>1, <1>3, <1>7
<1>8. CASE ~(i <= Len(s)) /\ ~(j <= Len(s)) BY <1>1, <1>4, <1>8
<1> QED
  BY <1>5, <1>6, <1>7, <1>8

LEMMA SingletonToSet ==
  ASSUME NEW S, NEW e \in S
  PROVE  /\ <<e>> \in Seq(S)
         /\ ToSet(<<e>>) = {e}
         /\ IsInjective(<<e>>)
BY DEF ToSet, IsInjective
-----------------------------------------------------------------------------
(* How often the elements of a set X are in a queue.                       *)
Occurs(s, X) == \E i \in DOMAIN s : s[i] \in X
AtMostOnce(s, X) ==
  \A i, j \in DOMAIN s : s[i] \in X /\ s[j] \in X => i = j

LEMMA EmptyOccurs ==
  ASSUME NEW X
  PROVE  ~Occurs(<<>>, X) /\ AtMostOnce(<<>>, X)
BY DEF Occurs, AtMostOnce

LEMMA AppendOccurs ==
  ASSUME NEW S, NEW s \in Seq(S), NEW e \in S, NEW X
  PROVE  /\ Occurs(Append(s, e), X) <=> Occurs(s, X) \/ e \in X
         /\ AtMostOnce(Append(s, e), X)
              <=> AtMostOnce(s, X) /\ ~(Occurs(s, X) /\ e \in X)
<1>1. /\ DOMAIN Append(s, e) = 1 .. Len(s) + 1
      /\ DOMAIN s = 1 .. Len(s)
      /\ Len(s) \in Nat
      /\ \A i \in 1 .. Len(s) : Append(s, e)[i] = s[i]
      /\ Append(s, e)[Len(s) + 1] = e
  BY AppendProperties, LenProperties
<1>2. Occurs(Append(s, e), X) <=> Occurs(s, X) \/ e \in X
  BY <1>1 DEF Occurs
<1>3. AtMostOnce(Append(s, e), X)
        <=> AtMostOnce(s, X) /\ ~(Occurs(s, X) /\ e \in X)
  <2>1. ASSUME AtMostOnce(Append(s, e), X)
        PROVE  AtMostOnce(s, X) /\ ~(Occurs(s, X) /\ e \in X)
    BY <1>1, <2>1 DEF Occurs, AtMostOnce
  <2>2. ASSUME AtMostOnce(s, X), ~(Occurs(s, X) /\ e \in X)
        PROVE  AtMostOnce(Append(s, e), X)
    BY <1>1, <2>2 DEF Occurs, AtMostOnce
  <2> QED
    BY <2>1, <2>2
<1> QED
  BY <1>2, <1>3

LEMMA TailOccurs ==
  ASSUME NEW S, NEW s \in Seq(S), s # <<>>, NEW X
  PROVE  /\ Occurs(s, X) <=> Occurs(Tail(s), X) \/ Head(s) \in X
         /\ AtMostOnce(s, X)
              <=> AtMostOnce(Tail(s), X) /\ ~(Occurs(Tail(s), X) /\ Head(s) \in X)
<1>1. /\ DOMAIN Tail(s) = 1 .. Len(s) - 1
      /\ DOMAIN s = 1 .. Len(s)
      /\ Len(s) \in Nat \ {0}
      /\ Head(s) = s[1]
      /\ \A i \in 1 .. Len(s) - 1 : Tail(s)[i] = s[i + 1]
  BY HeadTailProperties, LenProperties, EmptySeq
<1>2. ASSUME NEW i \in DOMAIN s, i # 1
      PROVE  i - 1 \in DOMAIN Tail(s) /\ Tail(s)[i - 1] = s[i]
  <2>1. i - 1 \in 1 .. Len(s) - 1 /\ (i - 1) + 1 = i
    BY <1>1, <1>2
  <2> QED
    BY <1>1, <2>1
<1>3. Occurs(s, X) <=> Occurs(Tail(s), X) \/ Head(s) \in X
  <2>1. ASSUME Occurs(s, X), Head(s) \notin X PROVE Occurs(Tail(s), X)
    <3>1. PICK i \in DOMAIN s : s[i] \in X
      BY <2>1 DEF Occurs
    <3>2. i - 1 \in DOMAIN Tail(s) /\ Tail(s)[i - 1] \in X
      BY <1>1, <1>2, <2>1, <3>1
    <3> QED
      BY <3>2 DEF Occurs
  <2>2. ASSUME Occurs(Tail(s), X) \/ Head(s) \in X PROVE Occurs(s, X)
    BY <1>1, <2>2 DEF Occurs
  <2> QED
    BY <2>1, <2>2
<1>4. AtMostOnce(s, X)
        <=> AtMostOnce(Tail(s), X) /\ ~(Occurs(Tail(s), X) /\ Head(s) \in X)
  <2>1. ASSUME AtMostOnce(s, X)
        PROVE  AtMostOnce(Tail(s), X)
    <3> SUFFICES ASSUME NEW i \in 1 .. Len(s) - 1, NEW j \in 1 .. Len(s) - 1,
                        Tail(s)[i] \in X, Tail(s)[j] \in X
                 PROVE  i = j
      BY <1>1 DEF AtMostOnce
    <3>1. i + 1 \in DOMAIN s /\ j + 1 \in DOMAIN s
      BY <1>1
    <3> QED
      BY <1>1, <2>1, <3>1 DEF AtMostOnce
  <2>2. ASSUME AtMostOnce(s, X), Occurs(Tail(s), X)
        PROVE  Head(s) \notin X
    <3>1. PICK i \in 1 .. Len(s) - 1 : s[i + 1] \in X
      BY <1>1, <2>2 DEF Occurs
    <3> QED
      BY <1>1, <2>2, <3>1 DEF AtMostOnce
  <2>3. ASSUME AtMostOnce(Tail(s), X), ~(Occurs(Tail(s), X) /\ Head(s) \in X)
        PROVE  AtMostOnce(s, X)
    <3> SUFFICES ASSUME NEW i \in 1 .. Len(s), NEW j \in 1 .. Len(s),
                        s[i] \in X, s[j] \in X
                 PROVE  i = j
      BY <1>1 DEF AtMostOnce
    <3>1. ASSUME NEW k \in DOMAIN s, k # 1, s[k] \in X PROVE s[1] \notin X
      <4>1. Tail(s)[k - 1] \in X /\ k - 1 \in DOMAIN Tail(s)
        BY <1>2, <3>1
      <4> QED
        BY <1>1, <2>3, <4>1 DEF Occurs
    <3>2. CASE i = 1 \/ j = 1
      BY <1>1, <3>1, <3>2
    <3>3. CASE i # 1 /\ j # 1
      <4>1. /\ i - 1 \in DOMAIN Tail(s) /\ Tail(s)[i - 1] \in X
            /\ j - 1 \in DOMAIN Tail(s) /\ Tail(s)[j - 1] \in X
        BY <1>1, <1>2, <3>3
      <4>2. i - 1 = j - 1
        BY <2>3, <4>1 DEF AtMostOnce
      <4> QED
        BY <4>2
    <3> QED
      BY <3>2, <3>3
  <2> QED
    BY <2>1, <2>2, <2>3
<1> QED
  BY <1>3, <1>4
-----------------------------------------------------------------------------
(* Sequences of numbers in increasing order.                               *)
Rising(s) == \A i, j \in DOMAIN s : i < j => s[i] < s[j]
AllBelow(s, e) == \A i \in DOMAIN s : s[i] < e
AllBefore(s, t) == \A i \in DOMAIN s, j \in DOMAIN t : s[i] < t[j]

LEMMA RisingEmpty ==
  ASSUME NEW s
  PROVE  Rising(<<>>) /\ AllBefore(<<>>, s) /\ AllBefore(s, <<>>)
BY DEF Rising, AllBefore

LEMMA RisingAppend ==
  ASSUME NEW s \in Seq(Nat), NEW e \in Nat
  PROVE  /\ Rising(s) /\ AllBelow(s, e) => Rising(Append(s, e))
         /\ \A x \in Nat : AllBelow(s, x) /\ e < x => AllBelow(Append(s, e), x)
         /\ \A t \in Seq(Nat) :
              /\ AllBefore(s, t) /\ (\A j \in DOMAIN t : e < t[j])
                   => AllBefore(Append(s, e), t)
              /\ AllBefore(t, s) /\ AllBelow(t, e) => AllBefore(t, Append(s, e))
<1>1. /\ DOMAIN Append(s, e) = 1 .. Len(s) + 1
      /\ DOMAIN s = 1 .. Len(s)
      /\ Len(s) \in Nat
      /\ \A i \in 1 .. Len(s) : Append(s, e)[i] = s[i]
      /\ Append(s, e)[Len(s) + 1] = e
  BY AppendProperties, LenProperties
<1>2. \A i \in DOMAIN Append(s, e) : i \in DOMAIN s \/ i = Len(s) + 1
  BY <1>1
<1>3. Rising(s) /\ AllBelow(s, e) => Rising(Append(s, e))
  BY <1>1 DEF Rising, AllBelow
<1>4. \A x \in Nat : AllBelow(s, x) /\ e < x => AllBelow(Append(s, e), x)
  BY <1>1 DEF AllBelow
<1>5. ASSUME NEW t \in Seq(Nat)
      PROVE  /\ AllBefore(s, t) /\ (\A j \in DOMAIN t : e < t[j])
                  => AllBefore(Append(s, e), t)
             /\ AllBefore(t, s) /\ AllBelow(t, e) => AllBefore(t, Append(s, e))
  BY <1>1 DEF AllBefore, AllBelow
<1> QED
  BY <1>3, <1>4, <1>5

LEMMA RisingTail ==
  ASSUME NEW s \in Seq(Nat), s # <<>>, Rising(s)
  PROVE  /\ Rising(Tail(s))
         /\ \A j \in DOMAIN Tail(s) : Head(s) < Tail(s)[j]
         /\ \A t \in Seq(Nat) :
              /\ AllBefore(s, t) => /\ AllBefore(Tail(s), t)
                                   /\ \A j \in DOMAIN t : Head(s) < t[j]
              /\ AllBefore(t, s) => AllBefore(t, Tail(s)) /\ AllBelow(t, Head(s))
<1>1. /\ DOMAIN Tail(s) = 1 .. Len(s) - 1
      /\ DOMAIN s = 1 .. Len(s)
      /\ Len(s) \in Nat \ {0}
      /\ Head(s) = s[1]
      /\ \A i \in 1 .. Len(s) - 1 : Tail(s)[i] = s[i + 1]
  BY HeadTailProperties, LenProperties, EmptySeq
<1>2. \A i \in DOMAIN Tail(s) : i + 1 \in DOMAIN s /\ 1 < i + 1
  BY <1>1
<1>3. Rising(Tail(s)) /\ \A j \in DOMAIN Tail(s) : Head(s) < Tail(s)[j]
  BY <1>1, <1>2 DEF Rising
<1>4. ASSUME NEW t \in Seq(Nat)
      PROVE  /\ AllBefore(s, t) => /\ AllBefore(Tail(s), t)
                                  /\ \A j \in DOMAIN t : Head(s) < t[j]
             /\ AllBefore(t, s) => AllBefore(t, Tail(s)) /\ AllBelow(t, Head(s))
  BY <1>1, <1>2 DEF AllBefore, AllBelow
<1> QED
  BY <1>3, <1>4

LEMMA RisingConcat ==
  ASSUME NEW s \in Seq(Nat), NEW t \in Seq(Nat)
  PROVE  /\ Rising(s \o t) <=> Rising(s) /\ Rising(t) /\ AllBefore(s, t)
         /\ \A u \in Seq(Nat) :
              AllBefore(s \o t, u) <=> AllBefore(s, u) /\ AllBefore(t, u)
<1>1. /\ DOMAIN (s \o t) = 1 .. Len(s) + Len(t)
      /\ DOMAIN s = 1 .. Len(s) /\ DOMAIN t = 1 .. Len(t)
      /\ Len(s) \in Nat /\ Len(t) \in Nat
      /\ \A i \in 1 .. Len(s) + Len(t) :
           (s \o t)[i] = IF i <= Len(s) THEN s[i] ELSE t[i - Len(s)]
  BY ConcatProperties, LenProperties
<1>2. \A i \in DOMAIN s : i \in DOMAIN (s \o t) /\ (s \o t)[i] = s[i]
  BY <1>1
<1>3. \A i \in DOMAIN t :
        i + Len(s) \in DOMAIN (s \o t) /\ (s \o t)[i + Len(s)] = t[i]
  BY <1>1
<1>4. \A i \in DOMAIN (s \o t) :
        \/ i \in DOMAIN s
        \/ i - Len(s) \in DOMAIN t /\ i > Len(s) /\ (s \o t)[i] = t[i - Len(s)]
  BY <1>1
<1>5. ASSUME Rising(s \o t) PROVE Rising(s) /\ Rising(t) /\ AllBefore(s, t)
  <2>1. Rising(s)
    BY <1>1, <1>2, <1>5 DEF Rising
  <2>2. Rising(t)
    <3> SUFFICES ASSUME NEW i \in DOMAIN t, NEW j \in DOMAIN t, i < j
                 PROVE  t[i] < t[j]
      BY DEF Rising
    <3>1. i + Len(s) < j + Len(s)
      BY <1>1
    <3> QED
      BY <1>3, <1>5, <3>1 DEF Rising
  <2>3. AllBefore(s, t)
    <3> SUFFICES ASSUME NEW i \in DOMAIN s, NEW j \in DOMAIN t PROVE s[i] < t[j]
      BY DEF AllBefore
    <3>1. i < j + Len(s)
      BY <1>1
    <3> QED
      BY <1>2, <1>3, <1>5, <3>1 DEF Rising
  <2> QED
    BY <2>1, <2>2, <2>3
<1>6. ASSUME Rising(s), Rising(t), AllBefore(s, t) PROVE Rising(s \o t)
  <2> SUFFICES ASSUME NEW i \in DOMAIN (s \o t), NEW j \in DOMAIN (s \o t), i < j
               PROVE  (s \o t)[i] < (s \o t)[j]
    BY DEF Rising
  <2>1. CASE j \in DOMAIN s
    <3>1. i \in DOMAIN s
      BY <1>1, <2>1
    <3> QED
      BY <1>2, <1>6, <2>1, <3>1 DEF Rising
  <2>2. CASE i \in DOMAIN s /\ j \notin DOMAIN s
    BY <1>2, <1>4, <1>6, <2>2 DEF AllBefore
  <2>3. CASE i \notin DOMAIN s /\ j \notin DOMAIN s
    <3>1. i - Len(s) < j - Len(s)
      BY <1>1
    <3> QED
      BY <1>4, <1>6, <2>3, <3>1 DEF Rising
  <2>4. i \in DOMAIN s \/ j \notin DOMAIN s
    BY <1>1
  <2> QED
    BY <2>1, <2>2, <2>3, <2>4
<1>7. ASSUME NEW u \in Seq(Nat)
      PROVE  AllBefore(s \o t, u) <=> AllBefore(s, u) /\ AllBefore(t, u)
  <2>1. AllBefore(s \o t, u) => AllBefore(s, u) /\ AllBefore(t, u)
    BY <1>2, <1>3 DEF AllBefore
  <2>2. AllBefore(s, u) /\ AllBefore(t, u) => AllBefore(s \o t, u)
    BY <1>2, <1>4 DEF AllBefore
  <2> QED
    BY <2>1, <2>2
<1> QED
  BY <1>5, <1>6, <1>7

(* A queue that is cut in two, the first part of which moves on.           *)
LEMMA CutKeepsConcat ==
  ASSUME NEW S, NEW s \in Seq(S), NEW t \in Seq(S), NEW n \in 0 .. Len(t)
  PROVE  /\ SubSeq(t, 1, n) \in Seq(S)
         /\ SubSeq(t, n + 1, Len(t)) \in Seq(S)
         /\ (s \o SubSeq(t, 1, n)) \o SubSeq(t, n + 1, Len(t)) = s \o t
<1>1. Len(t) \in Nat /\ \A i \in 1 .. Len(t) : t[i] \in S
  BY LenProperties, ElementOfSeq
<1>2. SubSeq(t, 1, n) \in Seq(S)
  BY <1>1, SubSeqProperties
<1>3. SubSeq(t, n + 1, Len(t)) \in Seq(S)
  BY <1>1, SubSeqProperties
<1>4. SubSeq(t, 1, n) \o SubSeq(t, n + 1, Len(t)) = t
  <2>1. CASE Len(t) = 0
    <3>1. SubSeq(t, 1, n) = <<>> /\ SubSeq(t, n + 1, Len(t)) = <<>> /\ t = <<>>
      BY <2>1, SubSeqEmpty, EmptySeq
    <3> QED
      BY <1>2, <3>1, ConcatEmptySeq
  <2>2. CASE Len(t) # 0
    <3>1. /\ 1 \in 1 .. Len(t) + 1 /\ n \in 1 - 1 .. Len(t)
          /\ Len(t) \in n .. Len(t)
      BY <1>1
    <3>2. SubSeq(t, 1, n) \o SubSeq(t, n + 1, Len(t)) = SubSeq(t, 1, Len(t))
      BY <3>1, ConcatAdjacentSubSeq
    <3> QED
      BY <3>2, SubSeqFull
  <2> QED
    BY <2>1, <2>2
<1>5. \A a, b \in Seq(S) : (s \o a) \o b = s \o (a \o b)
  BY ConcatAssociative
<1>6. (s \o SubSeq(t, 1, n)) \o SubSeq(t, n + 1, Len(t))
        = s \o (SubSeq(t, 1, n) \o SubSeq(t, n + 1, Len(t)))
  BY <1>2, <1>3, <1>5, Zenon
<1> QED
  BY <1>2, <1>3, <1>4, <1>6, Zenon

LEMMA PrefixOfConcat ==
  ASSUME NEW S, NEW s \in Seq(S), NEW t \in Seq(S)
  PROVE  IsPrefix(s, s \o t) /\ IsPrefix(s, s)
<1>1. Len(s) \in Nat /\ Len(t) \in Nat /\ Len(s \o t) = Len(s) + Len(t)
  BY LenProperties, ConcatProperties
<1>2. SubSeq(s, 1, Len(s)) = SubSeq(s \o t, 1, Len(s))
  <2>1. CASE Len(s) = 0
    BY <2>1, SubSeqEmpty
  <2>2. CASE Len(s) # 0
    BY <1>1, <2>2, SubSeqOfConcat1
  <2> QED
    BY <2>1, <2>2
<1> QED
  BY <1>1, <1>2 DEF IsPrefix
(* What is appended to the second part is appended to the whole.           *)
LEMMA ConcatAppend ==
  ASSUME NEW S, NEW s \in Seq(S), NEW t \in Seq(S), NEW e \in S
  PROVE  /\ s \o Append(t, e) = Append(s \o t, e)
         /\ IsPrefix(s \o t, s \o Append(t, e))
<1>1. <<e>> \in Seq(S) /\ s \o t \in Seq(S)
  BY ConcatProperties
<1>2. \A u \in Seq(S) : Append(u, e) = u \o <<e>>
  BY AppendIsConcat
<1>3. s \o (t \o <<e>>) = (s \o t) \o <<e>>
  BY <1>1, ConcatAssociative
<1>4. s \o Append(t, e) = Append(s \o t, e)
  BY <1>1, <1>2, <1>3, Zenon
<1>5. IsPrefix(s \o t, (s \o t) \o <<e>>)
  BY <1>1, PrefixOfConcat
<1> QED
  BY <1>1, <1>2, <1>4, <1>5, Zenon
-----------------------------------------------------------------------------
(* A bound on every element, and the elements' images under a function.    *)

LEMMA BelowTail ==
  ASSUME NEW s \in Seq(Nat), s # <<>>, NEW n \in Nat, AllBelow(s, n)
  PROVE  AllBelow(Tail(s), n) /\ Head(s) \in Nat /\ Head(s) < n
<1>1. /\ DOMAIN Tail(s) = 1 .. Len(s) - 1
      /\ DOMAIN s = 1 .. Len(s)
      /\ Len(s) \in Nat \ {0}
      /\ Head(s) = s[1] /\ Head(s) \in Nat
      /\ \A i \in 1 .. Len(s) - 1 : Tail(s)[i] = s[i + 1]
  BY HeadTailProperties, LenProperties, EmptySeq
<1>2. \A i \in DOMAIN Tail(s) : i + 1 \in DOMAIN s
  BY <1>1
<1>3. 1 \in DOMAIN s
  BY <1>1
<1> QED
  BY <1>1, <1>2, <1>3 DEF AllBelow

LEMMA BelowConcat ==
  ASSUME NEW s \in Seq(Nat), NEW t \in Seq(Nat), NEW n, AllBelow(s \o t, n)
  PROVE  AllBelow(s, n) /\ AllBelow(t, n)
<1>1. /\ DOMAIN (s \o t) = 1 .. Len(s) + Len(t)
      /\ DOMAIN s = 1 .. Len(s) /\ DOMAIN t = 1 .. Len(t)
      /\ Len(s) \in Nat /\ Len(t) \in Nat
      /\ \A i \in 1 .. Len(s) + Len(t) :
           (s \o t)[i] = IF i <= Len(s) THEN s[i] ELSE t[i - Len(s)]
  BY ConcatProperties, LenProperties
<1>2. \A i \in DOMAIN s : i \in DOMAIN (s \o t) /\ (s \o t)[i] = s[i]
  BY <1>1
<1>3. \A i \in DOMAIN t :
        i + Len(s) \in DOMAIN (s \o t) /\ (s \o t)[i + Len(s)] = t[i]
  BY <1>1
<1> QED
  BY <1>2, <1>3 DEF AllBelow

Mapped(f, s) == [i \in DOMAIN s |-> f[s[i]]]

LEMMA MappedType ==
  ASSUME NEW S, NEW f \in [S -> Nat], NEW s \in Seq(S)
  PROVE  /\ Mapped(f, s) \in Seq(Nat)
         /\ Len(Mapped(f, s)) = Len(s)
         /\ s = <<>> <=> Mapped(f, s) = <<>>
<1>1. /\ DOMAIN s = 1 .. Len(s) /\ Len(s) \in Nat
      /\ \A i \in 1 .. Len(s) : s[i] \in S
  BY LenProperties, ElementOfSeq
<1>2. Mapped(f, s) \in [1 .. Len(s) -> Nat]
  BY <1>1 DEF Mapped
<1>3. Mapped(f, s) \in Seq(Nat)
  BY <1>1, <1>2, SeqDef
<1>4. Len(Mapped(f, s)) = Len(s)
  BY <1>1, <1>2, <1>3, LenProperties
<1> QED
  BY <1>3, <1>4, EmptySeq

LEMMA MappedAppend ==
  ASSUME NEW S, NEW f \in [S -> Nat], NEW s \in Seq(S), NEW e \in S
  PROVE  Mapped(f, Append(s, e)) = Append(Mapped(f, s), f[e])
<1>1. /\ Append(s, e) \in Seq(S) /\ Len(Append(s, e)) = Len(s) + 1
      /\ DOMAIN s = 1 .. Len(s) /\ DOMAIN Append(s, e) = 1 .. Len(s) + 1
      /\ Len(s) \in Nat
      /\ \A i \in 1 .. Len(s) : Append(s, e)[i] = s[i]
      /\ Append(s, e)[Len(s) + 1] = e
  BY AppendProperties, LenProperties
<1>2. ASSUME NEW u \in Seq(S)
      PROVE  Mapped(f, u) \in Seq(Nat) /\ Len(Mapped(f, u)) = Len(u)
  <2>1. Mapped(f, u) \in Seq(Nat)
    BY MappedType
  <2>2. DOMAIN Mapped(f, u) = DOMAIN u
    BY DEF Mapped
  <2> QED
    BY <2>1, <2>2, LenProperties
<1> DEFINE m == Mapped(f, s)  m2 == Mapped(f, Append(s, e))
<1>3. /\ m2 \in Seq(Nat) /\ Len(m2) = Len(s) + 1
      /\ \A i \in 1 .. Len(s) : m2[i] = m[i]
      /\ m2[Len(s) + 1] = f[e]
  <2>1. m2 \in Seq(Nat) /\ Len(m2) = Len(Append(s, e))
    BY <1>1, <1>2, Zenon
  <2>2. \A i \in 1 .. Len(s) : m2[i] = m[i]
    BY <1>1 DEF Mapped
  <2>3. m2[Len(s) + 1] = f[e]
    BY <1>1 DEF Mapped
  <2> HIDE DEF m, m2
  <2> QED
    BY <1>1, <2>1, <2>2, <2>3
<1> HIDE DEF m, m2
<1>4. /\ Append(m, f[e]) \in Seq(Nat) /\ Len(Append(m, f[e])) = Len(m) + 1
      /\ \A i \in 1 .. Len(m) : Append(m, f[e])[i] = m[i]
      /\ Append(m, f[e])[Len(m) + 1] = f[e]
  BY <1>2, AppendProperties DEF m
<1>5. Len(m) = Len(s)
  BY <1>2 DEF m
<1>6. \A i \in 1 .. Len(m2) : m2[i] = Append(m, f[e])[i]
  BY <1>1, <1>3, <1>4, <1>5
<1>7. m2 = Append(m, f[e])
  BY <1>3, <1>4, <1>5, <1>6, SeqEqual
<1> QED
  BY <1>7 DEF m, m2

LEMMA MappedTail ==
  ASSUME NEW S, NEW f \in [S -> Nat], NEW s \in Seq(S), s # <<>>
  PROVE  /\ Mapped(f, Tail(s)) = Tail(Mapped(f, s))
         /\ f[Head(s)] = Head(Mapped(f, s))
<1>1. /\ Tail(s) \in Seq(S) /\ Len(Tail(s)) = Len(s) - 1
      /\ DOMAIN s = 1 .. Len(s) /\ DOMAIN Tail(s) = 1 .. Len(s) - 1
      /\ Len(s) \in Nat \ {0} /\ Head(s) = s[1]
      /\ \A i \in 1 .. Len(s) - 1 : Tail(s)[i] = s[i + 1]
  BY HeadTailProperties, LenProperties, EmptySeq
<1> DEFINE m == Mapped(f, s)  m2 == Mapped(f, Tail(s))
<1>2. m \in Seq(Nat) /\ Len(m) = Len(s) /\ m # <<>>
  BY MappedType
<1>0. ASSUME NEW u \in Seq(S)
      PROVE  Mapped(f, u) \in Seq(Nat) /\ Len(Mapped(f, u)) = Len(u)
  <2>1. Mapped(f, u) \in Seq(Nat)
    BY MappedType
  <2>2. DOMAIN Mapped(f, u) = DOMAIN u
    BY DEF Mapped
  <2> QED
    BY <2>1, <2>2, LenProperties
<1>3. /\ m2 \in Seq(Nat) /\ Len(m2) = Len(s) - 1
      /\ \A i \in 1 .. Len(s) - 1 : m2[i] = m[i + 1]
      /\ m[1] = f[Head(s)]
  <2>1. m2 \in Seq(Nat) /\ Len(m2) = Len(Tail(s))
    BY <1>0, <1>1, Zenon
  <2>2. \A i \in 1 .. Len(s) - 1 : i + 1 \in DOMAIN s
    BY <1>1
  <2>3. \A i \in 1 .. Len(s) - 1 : m2[i] = m[i + 1]
    BY <1>1, <2>2 DEF Mapped
  <2>4. m[1] = f[Head(s)]
    BY <1>1 DEF Mapped
  <2> HIDE DEF m, m2
  <2> QED
    BY <1>1, <2>1, <2>3, <2>4
<1> HIDE DEF m, m2
<1>4. /\ Tail(m) \in Seq(Nat) /\ Len(Tail(m)) = Len(m) - 1
      /\ \A i \in 1 .. Len(m) - 1 : Tail(m)[i] = m[i + 1]
      /\ Head(m) = m[1]
  BY <1>2, HeadTailProperties
<1>5. \A i \in 1 .. Len(m2) : m2[i] = Tail(m)[i]
  BY <1>1, <1>2, <1>3, <1>4
<1>6. m2 = Tail(m)
  BY <1>2, <1>3, <1>4, <1>5, SeqEqual
<1> QED
  BY <1>3, <1>4, <1>6 DEF m, m2

(* Functions that agree on the elements of a sequence map it alike.        *)
LEMMA MappedAlike ==
  ASSUME NEW f, NEW g, NEW s, \A e \in ToSet(s) : f[e] = g[e]
  PROVE  Mapped(f, s) = Mapped(g, s)
BY DEF Mapped, ToSet
=============================================================================
