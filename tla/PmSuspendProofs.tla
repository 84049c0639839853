--------------------------- MODULE PmSuspendProofs ---------------------------
(***************************************************************************)
(* Proofs about power management, for any devices, modes and number of     *)
(* changes: each list node is linked once, all devices are down when the   *)
(* system sleeps and up when pm_enter_mode returns, they come up in the    *)
(* reverse order, and no PM_BUG_ON is reached.  What is said of lists is    *)
(* said up to the first change that falls into a list_move (Torn).         *)
(***************************************************************************)
EXTENDS PmSuspend, SequenceTheorems, TLAPS

(***************************************************************************)
(* Facts about the operators on lists.                                     *)
(***************************************************************************)

\* What a removal leaves of a list.
LEMMA UnlinkShape ==
  ASSUME NEW S, NEW s \in Seq(S), NEW n, InSeq(n, s)
  PROVE  \E at \in 1 .. Len(s) :
           /\ s[at] = n
           /\ Unlink(s, n) \in Seq(S)
           /\ Len(Unlink(s, n)) = Len(s) - 1
           /\ \A i \in 1 .. Len(s) - 1 :
                Unlink(s, n)[i] = IF i < at THEN s[i] ELSE s[i + 1]
<1> DEFINE at == CHOOSE i \in 1 .. Len(s) : s[i] = n
           u == [i \in 1 .. Len(s) - 1 |-> IF i < at THEN s[i] ELSE s[i + 1]]
<1>1. at \in 1 .. Len(s) /\ s[at] = n
  BY DEF InSeq
<1>2. Unlink(s, n) = u
  BY DEF Unlink
<1>3. Len(s) \in Nat /\ \A i \in 1 .. Len(s) : s[i] \in S
  BY LenProperties, ElementOfSeq
<1>4. Len(s) - 1 \in Nat
  BY <1>1, <1>3
<1>5. \A i \in 1 .. Len(s) - 1 : i \in 1 .. Len(s) /\ i + 1 \in 1 .. Len(s)
  BY <1>3
<1>6. u \in [1 .. Len(s) - 1 -> S]
  <2>1. SUFFICES ASSUME NEW i \in 1 .. Len(s) - 1
                 PROVE  (IF i < at THEN s[i] ELSE s[i + 1]) \in S
    OBVIOUS
  <2> QED BY <1>3, <1>5
<1>7. u \in Seq(S)
  BY <1>4, <1>6, SeqDef
<1>8. Len(u) = Len(s) - 1
  BY <1>4, <1>7, LenProperties
<1> QED BY <1>1, <1>2, <1>7, <1>8

\* A removal keeps a list a list, of the same elements or fewer.
LEMMA UnlinkType ==
  ASSUME NEW S, NEW s \in Seq(S), NEW n
  PROVE  Unlink(s, n) \in Seq(S)
<1>1. CASE InSeq(n, s)
  BY <1>1, UnlinkShape
<1>2. CASE ~InSeq(n, s)
  BY <1>2 DEF Unlink
<1> QED BY <1>1, <1>2

\* ... the elements other than the one removed,
LEMMA UnlinkKeeps ==
  ASSUME NEW S, NEW s \in Seq(S), NEW n, NEW m, m # n
  PROVE  InSeq(m, Unlink(s, n)) <=> InSeq(m, s)
<1>1. CASE ~InSeq(n, s)
  BY <1>1 DEF Unlink
<1>2. CASE InSeq(n, s)
  <2>0. Len(s) \in Nat
    BY LenProperties
  <2>1. PICK at \in 1 .. Len(s) :
           /\ s[at] = n
           /\ Len(Unlink(s, n)) = Len(s) - 1
           /\ \A i \in 1 .. Len(s) - 1 :
                Unlink(s, n)[i] = IF i < at THEN s[i] ELSE s[i + 1]
    BY <1>2, UnlinkShape
  <2>2. ASSUME InSeq(m, Unlink(s, n)) PROVE InSeq(m, s)
    <3>1. PICK i \in 1 .. Len(s) - 1 : Unlink(s, n)[i] = m
      BY <2>1, <2>2 DEF InSeq
    <3>2. m = s[i] \/ m = s[i + 1]
      BY <2>1, <3>1
    <3> QED BY <2>0, <3>2 DEF InSeq
  <2>3. ASSUME InSeq(m, s) PROVE InSeq(m, Unlink(s, n))
    <3>1. PICK i \in 1 .. Len(s) : s[i] = m
      BY <2>3 DEF InSeq
    <3>2. i < at \/ i > at
      BY <2>0, <2>1, <3>1
    <3>3. CASE i < at
      <4>1. i \in 1 .. Len(s) - 1
        BY <2>0, <3>3
      <4> QED BY <2>1, <3>1, <3>3, <4>1 DEF InSeq
    <3>4. CASE i > at
      <4>1. i - 1 \in 1 .. Len(s) - 1 /\ ~(i - 1 < at) /\ (i - 1) + 1 = i
        BY <2>0, <3>4
      <4> QED BY <2>1, <3>1, <4>1 DEF InSeq
    <3> QED BY <3>2, <3>3, <3>4
  <2> QED BY <2>2, <2>3
<1> QED BY <1>1, <1>2

\* ... and of a list without duplicates, all the others and only them.
LEMMA UnlinkDistinct ==
  ASSUME NEW S, NEW s \in Seq(S), NEW n, Distinct(s)
  PROVE  Distinct(Unlink(s, n)) /\ ~InSeq(n, Unlink(s, n))
<1>1. CASE ~InSeq(n, s)
  BY <1>1 DEF Unlink
<1>2. CASE InSeq(n, s)
  <2>0. Len(s) \in Nat
    BY LenProperties
  <2>1. PICK at \in 1 .. Len(s) :
           /\ s[at] = n
           /\ Len(Unlink(s, n)) = Len(s) - 1
           /\ \A i \in 1 .. Len(s) - 1 :
                Unlink(s, n)[i] = IF i < at THEN s[i] ELSE s[i + 1]
    BY <1>2, UnlinkShape
  <2> DEFINE from(i) == IF i < at THEN i ELSE i + 1
  <2>2. \A i \in 1 .. Len(s) - 1 : from(i) \in 1 .. Len(s) /\ from(i) # at
    BY <2>0
  <2>3. \A i \in 1 .. Len(s) - 1 : Unlink(s, n)[i] = s[from(i)]
    BY <2>1
  <2>4. \A i, j \in 1 .. Len(s) - 1 : from(i) = from(j) => i = j
    BY <2>0
  <2>5. ~InSeq(n, Unlink(s, n))
    <3>1. SUFFICES ASSUME NEW i \in 1 .. Len(s) - 1, Unlink(s, n)[i] = n
                   PROVE  FALSE
      BY <2>1 DEF InSeq
    <3>2. s[from(i)] = s[at]
      BY <2>1, <2>3, <3>1
    <3> QED BY <2>1, <2>2, <3>2 DEF Distinct
  <2>6. Distinct(Unlink(s, n))
    <3>1. SUFFICES ASSUME NEW i \in 1 .. Len(s) - 1, NEW j \in 1 .. Len(s) - 1,
                          Unlink(s, n)[i] = Unlink(s, n)[j]
                   PROVE  i = j
      BY <2>1 DEF Distinct
    <3>2. s[from(i)] = s[from(j)]
      BY <2>3, <3>1
    <3>3. from(i) = from(j)
      BY <2>2, <3>2 DEF Distinct
    <3> QED BY <2>4, <3>3
  <2> QED BY <2>5, <2>6
<1> QED BY <1>1, <1>2

\* Putting an element at the head.
LEMMA PushFacts ==
  ASSUME NEW S, NEW s \in Seq(S), NEW n \in S
  PROVE  /\ <<n>> \o s \in Seq(S)
         /\ <<n>> \o s # <<>>
         /\ Head(<<n>> \o s) = n
         /\ Tail(<<n>> \o s) = s
         /\ \A m : InSeq(m, <<n>> \o s) <=> m = n \/ InSeq(m, s)
         /\ Distinct(s) /\ ~InSeq(n, s) => Distinct(<<n>> \o s)
<1> DEFINE p == <<n>> \o s
<1>0. Len(s) \in Nat
  BY LenProperties
<1>1. <<n>> \in Seq(S) /\ Len(<<n>>) = 1 /\ <<n>>[1] = n
  OBVIOUS
<1>2. /\ p \in Seq(S)
      /\ Len(p) = 1 + Len(s)
      /\ \A i \in 1 .. 1 + Len(s) : p[i] = IF i <= 1 THEN <<n>>[i] ELSE s[i - 1]
  BY <1>1, ConcatProperties
<1>3. p[1] = n /\ \A i \in 1 .. Len(s) : p[i + 1] = s[i]
  <2>1. p[1] = n
    BY <1>0, <1>1, <1>2
  <2>2. ASSUME NEW i \in 1 .. Len(s) PROVE p[i + 1] = s[i]
    <3>1. i + 1 \in 1 .. 1 + Len(s) /\ ~(i + 1 <= 1) /\ (i + 1) - 1 = i
      BY <1>0
    <3> QED BY <1>2, <3>1
  <2> QED BY <2>1, <2>2
<1>4. p # <<>>
  BY <1>0, <1>2, EmptySeq
<1>5. Head(p) = n
  BY <1>3, <1>2, <1>0
<1>6. Tail(p) = s
  <2>1. Tail(p) \in Seq(S) /\ Len(Tail(p)) = Len(p) - 1
        /\ \A i \in 1 .. Len(Tail(p)) : Tail(p)[i] = p[i + 1]
    BY <1>2, <1>4, HeadTailProperties
  <2>2. Len(Tail(p)) = Len(s)
    BY <1>0, <1>2, <2>1
  <2>3. \A i \in 1 .. Len(Tail(p)) : Tail(p)[i] = s[i]
    BY <1>3, <2>1, <2>2
  <2> QED BY <2>1, <2>2, <2>3, SeqEqual
<1>7. ASSUME NEW m PROVE InSeq(m, p) <=> m = n \/ InSeq(m, s)
  <2>1. ASSUME InSeq(m, p) PROVE m = n \/ InSeq(m, s)
    <3>1. PICK i \in 1 .. 1 + Len(s) : p[i] = m
      BY <1>2, <2>1 DEF InSeq
    <3>2. CASE i = 1
      BY <1>3, <3>1, <3>2
    <3>3. CASE i # 1
      <4>1. i - 1 \in 1 .. Len(s) /\ (i - 1) + 1 = i
        BY <1>0, <3>3
      <4>2. s[i - 1] = m
        BY <1>3, <3>1, <4>1
      <4> QED BY <4>1, <4>2 DEF InSeq
    <3> QED BY <3>2, <3>3
  <2>2. ASSUME m = n PROVE InSeq(m, p)
    BY <1>0, <1>2, <1>3, <2>2 DEF InSeq
  <2>3. ASSUME InSeq(m, s) PROVE InSeq(m, p)
    <3>1. PICK i \in 1 .. Len(s) : s[i] = m
      BY <2>3 DEF InSeq
    <3>2. i + 1 \in 1 .. Len(p)
      BY <1>0, <1>2
    <3> QED BY <1>3, <3>1, <3>2 DEF InSeq
  <2> QED BY <2>1, <2>2, <2>3
<1>8. ASSUME Distinct(s), ~InSeq(n, s) PROVE Distinct(p)
  <2>1. SUFFICES ASSUME NEW i \in 1 .. 1 + Len(s), NEW j \in 1 .. 1 + Len(s), p[i] = p[j]
                 PROVE  i = j
    BY <1>2 DEF Distinct
  <2>2. \A k \in 1 .. 1 + Len(s) :
          k = 1 \/ (k - 1 \in 1 .. Len(s) /\ p[k] = s[k - 1])
    <3>1. SUFFICES ASSUME NEW k \in 1 .. 1 + Len(s), k # 1
                   PROVE  k - 1 \in 1 .. Len(s) /\ p[k] = s[k - 1]
      OBVIOUS
    <3>2. k - 1 \in 1 .. Len(s) /\ (k - 1) + 1 = k
      BY <1>0, <3>1
    <3> QED BY <1>3, <3>2
  <2>3. \A k \in 1 .. Len(s) : s[k] # n
    BY <1>8 DEF InSeq
  <2>4. CASE i = 1 \/ j = 1
    BY <1>3, <2>1, <2>2, <2>3, <2>4
  <2>5. CASE i # 1 /\ j # 1
    <3>1. i - 1 = j - 1
      BY <1>8, <2>1, <2>2, <2>5 DEF Distinct
    <3> QED BY <1>0, <3>1
  <2> QED BY <2>4, <2>5
<1> QED BY <1>2, <1>4, <1>5, <1>6, <1>7, <1>8

\* A list that is not empty is its head and its tail.
LEMMA HeadTail ==
  ASSUME NEW S, NEW s \in Seq(S), s # <<>>
  PROVE  Head(s) \in S /\ Tail(s) \in Seq(S) /\ s = <<Head(s)>> \o Tail(s)
<1>1. /\ Head(s) \in S /\ Tail(s) \in Seq(S)
      /\ Len(Tail(s)) = Len(s) - 1
      /\ \A i \in 1 .. Len(Tail(s)) : Tail(s)[i] = s[i + 1]
  BY HeadTailProperties
<1>2. Len(s) \in Nat \ {0}
  BY EmptySeq
<1>3. <<Head(s)>> \in Seq(S) /\ Len(<<Head(s)>>) = 1 /\ <<Head(s)>>[1] = s[1]
  BY <1>1
<1>4. /\ <<Head(s)>> \o Tail(s) \in Seq(S)
      /\ Len(<<Head(s)>> \o Tail(s)) = Len(s)
      /\ \A i \in 1 .. Len(s) :
           (<<Head(s)>> \o Tail(s))[i] = IF i <= 1 THEN <<Head(s)>>[i] ELSE Tail(s)[i - 1]
  BY <1>1, <1>2, <1>3, ConcatProperties
<1>5. ASSUME NEW i \in 1 .. Len(s) PROVE s[i] = (<<Head(s)>> \o Tail(s))[i]
  <2>1. CASE i = 1
    BY <1>2, <1>3, <1>4, <2>1
  <2>2. CASE i # 1
    <3>1. i - 1 \in 1 .. Len(Tail(s)) /\ (i - 1) + 1 = i /\ ~(i <= 1)
      BY <1>1, <1>2, <2>2
    <3> QED BY <1>1, <1>4, <3>1
  <2> QED BY <2>1, <2>2
<1> QED BY <1>1, <1>4, <1>5, SeqEqual

\* What the tail of a list without duplicates lacks is the head.
LEMMA TailFacts ==
  ASSUME NEW S, NEW s \in Seq(S), s # <<>>
  PROVE  /\ Head(s) \in S /\ Tail(s) \in Seq(S)
         /\ \A m : InSeq(m, s) <=> m = Head(s) \/ InSeq(m, Tail(s))
         /\ Distinct(s) => Distinct(Tail(s)) /\ ~InSeq(Head(s), Tail(s))
<1>1. Head(s) \in S /\ Tail(s) \in Seq(S) /\ s = <<Head(s)>> \o Tail(s)
  BY HeadTail
<1>2. \A m : InSeq(m, <<Head(s)>> \o Tail(s)) <=> m = Head(s) \/ InSeq(m, Tail(s))
  BY <1>1, PushFacts
<1>3. /\ Len(Tail(s)) = Len(s) - 1
      /\ \A i \in 1 .. Len(Tail(s)) : Tail(s)[i] = s[i + 1]
      /\ Len(s) \in Nat \ {0}
  BY HeadTailProperties, EmptySeq
<1>4. ASSUME Distinct(s) PROVE Distinct(Tail(s)) /\ ~InSeq(Head(s), Tail(s))
  <2>1. \A i \in 1 .. Len(Tail(s)) : i + 1 \in 1 .. Len(s) /\ i + 1 # 1
    BY <1>3
  <2>2. Distinct(Tail(s))
    <3>1. SUFFICES ASSUME NEW i \in 1 .. Len(Tail(s)), NEW j \in 1 .. Len(Tail(s)),
                          Tail(s)[i] = Tail(s)[j]
                   PROVE  i = j
      BY DEF Distinct
    <3>2. s[i + 1] = s[j + 1]
      BY <1>3, <3>1
    <3>3. i + 1 = j + 1
      BY <1>4, <2>1, <3>2 DEF Distinct
    <3> QED BY <1>3, <3>3
  <2>3. ~InSeq(Head(s), Tail(s))
    <3>1. SUFFICES ASSUME NEW i \in 1 .. Len(Tail(s)), Tail(s)[i] = Head(s)
                   PROVE  FALSE
      BY DEF InSeq
    <3>2. s[i + 1] = s[1] /\ 1 \in 1 .. Len(s)
      BY <1>3, <3>1
    <3> QED BY <1>4, <2>1, <3>2 DEF Distinct
  <2> QED BY <2>2, <2>3
<1> QED BY <1>1, <1>2, <1>4

\* Removing the head of a list without duplicates leaves its tail.
LEMMA UnlinkHead ==
  ASSUME NEW S, NEW s \in Seq(S), NEW n \in S, ~InSeq(n, s)
  PROVE  Unlink(<<n>> \o s, n) = s
<1> DEFINE p == <<n>> \o s
<1>0. Len(s) \in Nat
  BY LenProperties
<1>1. p \in Seq(S) /\ InSeq(n, p) /\ p # <<>> /\ Tail(p) = s
  BY PushFacts
<1> HIDE DEF p
<1>2. PICK at \in 1 .. Len(p) :
         /\ p[at] = n
         /\ Unlink(p, n) \in Seq(S)
         /\ Len(Unlink(p, n)) = Len(p) - 1
         /\ \A i \in 1 .. Len(p) - 1 : Unlink(p, n)[i] = IF i < at THEN p[i] ELSE p[i + 1]
  BY <1>1, UnlinkShape
<1>3. Len(s) = Len(p) - 1 /\ \A i \in 1 .. Len(s) : s[i] = p[i + 1]
  BY <1>1, HeadTailProperties
<1>4. at = 1
  <2>1. SUFFICES ASSUME at # 1 PROVE FALSE
    OBVIOUS
  <2>2. at - 1 \in 1 .. Len(s) /\ (at - 1) + 1 = at
    BY <1>0, <1>3, <2>1
  <2>3. s[at - 1] = n
    BY <1>2, <1>3, <2>2
  <2> QED BY <2>2, <2>3 DEF InSeq
<1>5. \A i \in 1 .. Len(s) : Unlink(p, n)[i] = s[i]
  BY <1>0, <1>2, <1>3, <1>4
<1> QED BY <1>2, <1>3, <1>5, SeqEqual DEF p

\* A removal from behind the head.
LEMMA UnlinkBehind ==
  ASSUME NEW S, NEW s \in Seq(S), NEW c \in S, NEW n, c # n, Distinct(<<c>> \o s)
  PROVE  Unlink(<<c>> \o s, n) = <<c>> \o Unlink(s, n)
<1> DEFINE p == <<c>> \o s
<1>0. Len(s) \in Nat
  BY LenProperties
<1>1. p \in Seq(S) /\ p # <<>> /\ Head(p) = c /\ Tail(p) = s /\ (InSeq(n, p) <=> InSeq(n, s))
  BY PushFacts
<1>2. CASE ~InSeq(n, s)
  BY <1>1, <1>2 DEF Unlink
<1>3. CASE InSeq(n, s)
  <2>1. PICK at \in 1 .. Len(s) :
           /\ s[at] = n
           /\ Unlink(s, n) \in Seq(S)
           /\ Len(Unlink(s, n)) = Len(s) - 1
           /\ \A i \in 1 .. Len(s) - 1 : Unlink(s, n)[i] = IF i < at THEN s[i] ELSE s[i + 1]
    BY <1>3, UnlinkShape
  <2> DEFINE q == <<c>> \o Unlink(s, n)
  <2>2. q \in Seq(S) /\ q # <<>> /\ Head(q) = c /\ Tail(q) = Unlink(s, n)
    BY <2>1, PushFacts
  <2> HIDE DEF p, q
  <2>3. PICK pt \in 1 .. Len(p) :
           /\ p[pt] = n
           /\ Unlink(p, n) \in Seq(S)
           /\ Len(Unlink(p, n)) = Len(p) - 1
           /\ \A i \in 1 .. Len(p) - 1 : Unlink(p, n)[i] = IF i < pt THEN p[i] ELSE p[i + 1]
    BY <1>1, <1>3, UnlinkShape
  <2>4. Len(s) = Len(p) - 1 /\ \A i \in 1 .. Len(s) : s[i] = p[i + 1]
    BY <1>1, HeadTailProperties
  <2>5. Len(q) = Len(s) /\ \A i \in 1 .. Len(s) - 1 : Unlink(s, n)[i] = q[i + 1]
    <3>1. Len(Unlink(s, n)) = Len(q) - 1 /\ \A i \in 1 .. Len(Unlink(s, n)) : Unlink(s, n)[i] = q[i + 1]
      BY <2>2, HeadTailProperties
    <3>2. Len(q) \in Nat
      BY <2>2, LenProperties
    <3> QED BY <1>0, <2>1, <3>1, <3>2
  <2>6. pt = at + 1
    <3>1. at + 1 \in 1 .. Len(p) /\ p[at + 1] = n
      BY <1>0, <2>1, <2>4
    <3> QED BY <2>3, <3>1 DEF Distinct, p
  <2>7. p[1] = c /\ q[1] = c
    BY <1>1, <2>2
  <2>8. ASSUME NEW i \in 1 .. Len(s) PROVE Unlink(p, n)[i] = q[i]
    <3>1. CASE i = 1
      BY <1>0, <2>1, <2>3, <2>4, <2>6, <2>7, <3>1
    <3>2. CASE i # 1
      <4>1. i - 1 \in 1 .. Len(s) - 1 /\ (i - 1) + 1 = i /\ i - 1 \in 1 .. Len(s)
        BY <1>0, <3>2
      <4>2. q[i] = IF i - 1 < at THEN s[i - 1] ELSE s[i]
        BY <2>1, <2>5, <4>1
      <4>3. q[i] = IF i < pt THEN p[i] ELSE p[i + 1]
        <5>1. s[i - 1] = p[i] /\ s[i] = p[i + 1]
          BY <2>4, <4>1
        <5>2. i - 1 < at <=> i < pt
          BY <1>0, <2>6
        <5> QED BY <4>2, <5>1, <5>2
      <4>4. i \in 1 .. Len(p) - 1
        BY <1>0, <2>4
      <4> QED BY <2>3, <4>3, <4>4
    <3> QED BY <3>1, <3>2
  <2>9. Len(Unlink(p, n)) = Len(q) /\ Len(Unlink(p, n)) = Len(s)
    BY <1>0, <2>3, <2>4, <2>5
  <2>10. Unlink(p, n) \in Seq(S) /\ q \in Seq(S) /\ Len(Unlink(p, n)) = Len(q)
         /\ \A i \in 1 .. Len(Unlink(p, n)) : Unlink(p, n)[i] = q[i]
    BY <2>2, <2>3, <2>8, <2>9
  <2>11. Unlink(p, n) = q
    BY <2>10, SeqEqual
  <2> QED BY <2>11 DEF p, q
<1> QED BY <1>2, <1>3

\* A list has no elements but those of its type.
LEMMA ForeignElement ==
  ASSUME NEW S, NEW s \in Seq(S), NEW n, n \notin S
  PROVE  ~InSeq(n, s) /\ Unlink(s, n) = s
BY ElementOfSeq DEF InSeq, Unlink

\* Where the elements of a concatenation are.
LEMMA ConcatFacts ==
  ASSUME NEW S, NEW s \in Seq(S), NEW t \in Seq(S)
  PROVE  /\ s \o t \in Seq(S)
         /\ \A m : InSeq(m, s \o t) <=> InSeq(m, s) \/ InSeq(m, t)
<1>0. Len(s) \in Nat /\ Len(t) \in Nat
  BY LenProperties
<1>1. /\ s \o t \in Seq(S)
      /\ Len(s \o t) = Len(s) + Len(t)
      /\ \A i \in 1 .. Len(s) + Len(t) :
           (s \o t)[i] = IF i <= Len(s) THEN s[i] ELSE t[i - Len(s)]
  BY ConcatProperties
<1>2. ASSUME NEW m, InSeq(m, s \o t) PROVE InSeq(m, s) \/ InSeq(m, t)
  <2>1. PICK i \in 1 .. Len(s) + Len(t) : (s \o t)[i] = m
    BY <1>1, <1>2 DEF InSeq
  <2>2. CASE i <= Len(s)
    <3>1. i \in 1 .. Len(s) /\ s[i] = m
      BY <1>0, <1>1, <2>1, <2>2
    <3> QED BY <3>1 DEF InSeq
  <2>3. CASE ~(i <= Len(s))
    <3>1. i - Len(s) \in 1 .. Len(t) /\ t[i - Len(s)] = m
      BY <1>0, <1>1, <2>1, <2>3
    <3> QED BY <3>1 DEF InSeq
  <2> QED BY <2>2, <2>3
<1>3. ASSUME NEW m, InSeq(m, s) PROVE InSeq(m, s \o t)
  <2>1. PICK i \in 1 .. Len(s) : s[i] = m
    BY <1>3 DEF InSeq
  <2>2. i \in 1 .. Len(s) + Len(t) /\ i <= Len(s)
    BY <1>0
  <2> QED BY <1>1, <2>1, <2>2 DEF InSeq
<1>4. ASSUME NEW m, InSeq(m, t) PROVE InSeq(m, s \o t)
  <2>1. PICK i \in 1 .. Len(t) : t[i] = m
    BY <1>4 DEF InSeq
  <2>2. i + Len(s) \in 1 .. Len(s) + Len(t) /\ ~(i + Len(s) <= Len(s)) /\ (i + Len(s)) - Len(s) = i
    BY <1>0
  <2>3. (s \o t)[i + Len(s)] = m
    BY <1>1, <2>1, <2>2
  <2> QED BY <1>1, <2>2, <2>3 DEF InSeq
<1> QED BY <1>1, <1>2, <1>3, <1>4

(***************************************************************************)
(* The steps preserve the invariant.                                       *)
(***************************************************************************)

\* The nodes of the two kinds of lists.
N0 == Op0Dev \X {0}
N1 == Op1Dev \X {1}

\* The node lists after pm_unregister_ops.
LEMMA RemovedNodes ==
  ASSUME TypeOK, ListsProper, NEW d \in Dev, RemoveNodes(d)
  PROVE  /\ dpm_list' \in Seq(N0) /\ dpm_suspended_list' \in Seq(N0)
         /\ dpm_late_early_list' \in Seq(N1) /\ dpm_noirq_list' \in Seq(N1)
         /\ ListsProper'
         /\ \A n \in Node : n[1] # d => (InSeq(n, dpm_list') <=> InSeq(n, dpm_list))
         /\ ~InSeq(<<d, 0>>, dpm_list') /\ ~InSeq(<<d, 0>>, dpm_suspended_list')
         /\ ~InSeq(<<d, 1>>, dpm_late_early_list') /\ ~InSeq(<<d, 1>>, dpm_noirq_list')
         /\ \A n : Linked(n)' => Linked(n)
<1>1. /\ dpm_list \in Seq(N0) /\ dpm_suspended_list \in Seq(N0)
      /\ dpm_late_early_list \in Seq(N1) /\ dpm_noirq_list \in Seq(N1)
  BY DEF TypeOK, N0, N1
<1>2. /\ dpm_list' \in Seq(N0) /\ dpm_suspended_list' \in Seq(N0)
      /\ dpm_late_early_list' \in Seq(N1) /\ dpm_noirq_list' \in Seq(N1)
  BY <1>1, UnlinkType DEF RemoveNodes
<1>3. /\ Distinct(dpm_list') /\ Distinct(dpm_suspended_list')
      /\ Distinct(dpm_late_early_list') /\ Distinct(dpm_noirq_list')
      /\ ~InSeq(<<d, 0>>, dpm_list') /\ ~InSeq(<<d, 0>>, dpm_suspended_list')
      /\ ~InSeq(<<d, 1>>, dpm_late_early_list') /\ ~InSeq(<<d, 1>>, dpm_noirq_list')
  BY <1>1, UnlinkDistinct DEF RemoveNodes, ListsProper
<1>4. ASSUME NEW n, n # <<d, 0>>
      PROVE  /\ InSeq(n, dpm_list') <=> InSeq(n, dpm_list)
             /\ InSeq(n, dpm_suspended_list') <=> InSeq(n, dpm_suspended_list)
  BY <1>1, <1>4, UnlinkKeeps DEF RemoveNodes
<1>5. ASSUME NEW n, n # <<d, 1>>
      PROVE  /\ InSeq(n, dpm_late_early_list') <=> InSeq(n, dpm_late_early_list)
             /\ InSeq(n, dpm_noirq_list') <=> InSeq(n, dpm_noirq_list)
  BY <1>1, <1>5, UnlinkKeeps DEF RemoveNodes
<1>6. ListsProper'
  <2>1. SUFFICES ASSUME NEW n \in Node
                 PROVE  /\ ~(InSeq(n, dpm_list') /\ InSeq(n, dpm_suspended_list'))
                        /\ ~(InSeq(n, dpm_late_early_list') /\ InSeq(n, dpm_noirq_list'))
    BY <1>3 DEF ListsProper
  <2> QED BY <1>3, <1>4, <1>5 DEF ListsProper
<1>7. ASSUME NEW n \in Node, n[1] # d PROVE InSeq(n, dpm_list') <=> InSeq(n, dpm_list)
  <2>1. n # <<d, 0>>
    BY <1>7
  <2> QED BY <1>4, <2>1
<1>8. ASSUME NEW n, Linked(n)' PROVE Linked(n)
  BY <1>3, <1>4, <1>5, <1>8 DEF Linked
<1> QED BY <1>2, <1>3, <1>6, <1>7, <1>8

\* The node lists after pm_register_ops.
LEMMA AddedNodes ==
  ASSUME TypeOK, ListsProper, NEW d \in Dev, ~Registered(d), AddNodes(d)
  PROVE  /\ dpm_list' \in Seq(N0) /\ dpm_suspended_list' \in Seq(N0)
         /\ dpm_late_early_list' \in Seq(N1) /\ dpm_noirq_list' \in Seq(N1)
         /\ ListsProper'
         /\ \A n : InSeq(n, dpm_list) => InSeq(n, dpm_list')
         /\ \A n : n # <<d, 0>> /\ n # <<d, 1>> /\ Linked(n)' => Linked(n)
<1>1. /\ dpm_list \in Seq(N0) /\ dpm_suspended_list \in Seq(N0)
      /\ dpm_late_early_list \in Seq(N1) /\ dpm_noirq_list \in Seq(N1)
  BY DEF TypeOK, N0, N1
<1>2. ~Linked(<<d, 0>>) /\ ~Linked(<<d, 1>>)
  BY DEF Registered
<1>3. /\ dpm_list' \in Seq(N0)
      /\ Distinct(dpm_list')
      /\ \A n : InSeq(n, dpm_list') <=> InSeq(n, dpm_list) \/ (d \in Op0Dev /\ n = <<d, 0>>)
  <2>1. CASE d \in Op0Dev
    <3>1. <<d, 0>> \in N0 /\ dpm_list' = <<<<d, 0>>>> \o dpm_list /\ ~InSeq(<<d, 0>>, dpm_list)
      BY <1>2, <2>1 DEF AddNodes, Push, N0, Linked
    <3> QED BY <1>1, <2>1, <3>1, PushFacts DEF ListsProper
  <2>2. CASE d \notin Op0Dev
    BY <1>1, <2>2 DEF AddNodes, ListsProper
  <2> QED BY <2>1, <2>2
<1>4. /\ dpm_late_early_list' \in Seq(N1)
      /\ Distinct(dpm_late_early_list')
      /\ \A n : InSeq(n, dpm_late_early_list') <=>
                  InSeq(n, dpm_late_early_list) \/ (d \in Op1Dev /\ n = <<d, 1>>)
  <2>1. CASE d \in Op1Dev
    <3>1. /\ <<d, 1>> \in N1 /\ ~InSeq(<<d, 1>>, dpm_late_early_list)
          /\ dpm_late_early_list' = <<<<d, 1>>>> \o dpm_late_early_list
      BY <1>2, <2>1 DEF AddNodes, Push, N1, Linked
    <3> QED BY <1>1, <2>1, <3>1, PushFacts DEF ListsProper
  <2>2. CASE d \notin Op1Dev
    BY <1>1, <2>2 DEF AddNodes, ListsProper
  <2> QED BY <2>1, <2>2
<1>5. dpm_suspended_list' = dpm_suspended_list /\ dpm_noirq_list' = dpm_noirq_list
  BY DEF AddNodes
<1>6. ListsProper'
  <2>1. SUFFICES ASSUME NEW n \in Node
                 PROVE  /\ ~(InSeq(n, dpm_list') /\ InSeq(n, dpm_suspended_list'))
                        /\ ~(InSeq(n, dpm_late_early_list') /\ InSeq(n, dpm_noirq_list'))
    BY <1>3, <1>4, <1>5 DEF ListsProper
  <2> QED BY <1>2, <1>3, <1>4, <1>5 DEF ListsProper, Linked
<1>7. ASSUME NEW n, n # <<d, 0>>, n # <<d, 1>>, Linked(n)' PROVE Linked(n)
  BY <1>3, <1>4, <1>5, <1>7 DEF Linked
<1> QED BY <1>1, <1>3, <1>4, <1>5, <1>6, <1>7

\* list_move of a node from one list to the head of the other.
LEMMA MovedNode ==
  ASSUME NEW S, NEW s \in Seq(S), NEW t \in Seq(S), NEW n, InSeq(n, s),
         Distinct(s), Distinct(t), \A m \in S : ~(InSeq(m, s) /\ InSeq(m, t))
  PROVE  /\ n \in S
         /\ Unlink(s, n) \in Seq(S) /\ <<n>> \o t \in Seq(S)
         /\ Distinct(Unlink(s, n)) /\ Distinct(<<n>> \o t)
         /\ InSeq(n, <<n>> \o t)
         /\ \A m : ~(InSeq(m, Unlink(s, n)) /\ InSeq(m, <<n>> \o t))
         /\ \A m : InSeq(m, Unlink(s, n)) \/ InSeq(m, <<n>> \o t) => InSeq(m, s) \/ InSeq(m, t)
<1>1. n \in S /\ ~InSeq(n, t)
  BY ElementOfSeq DEF InSeq
<1>2. /\ Unlink(s, n) \in Seq(S) /\ Distinct(Unlink(s, n)) /\ ~InSeq(n, Unlink(s, n))
      /\ \A m : m # n => (InSeq(m, Unlink(s, n)) <=> InSeq(m, s))
  BY UnlinkType, UnlinkDistinct, UnlinkKeeps
<1>3. /\ <<n>> \o t \in Seq(S) /\ Distinct(<<n>> \o t)
      /\ \A m : InSeq(m, <<n>> \o t) <=> m = n \/ InSeq(m, t)
  BY <1>1, PushFacts
<1>4. ASSUME NEW m, InSeq(m, s), InSeq(m, t) PROVE FALSE
  <2>1. m \in S
    BY <1>4, ElementOfSeq DEF InSeq
  <2> QED BY <1>4, <2>1
<1> QED BY <1>1, <1>2, <1>3, <1>4

\* ... from the head of a list.
LEMMA MovedHead ==
  ASSUME NEW S, NEW s \in Seq(S), s # <<>>
  PROVE  InSeq(Head(s), s) /\ (Distinct(s) => Tail(s) = Unlink(s, Head(s)))
<1>1. Head(s) \in S /\ Tail(s) \in Seq(S) /\ s = <<Head(s)>> \o Tail(s)
  BY HeadTail
<1>2. InSeq(Head(s), s) /\ (Distinct(s) => ~InSeq(Head(s), Tail(s)))
  BY TailFacts
<1>3. Distinct(s) => Unlink(<<Head(s)>> \o Tail(s), Head(s)) = Tail(s)
  BY <1>1, <1>2, UnlinkHead
<1> QED BY <1>1, <1>2, <1>3

\* ... together.
LEMMA MovedFirst ==
  ASSUME NEW S, NEW s \in Seq(S), NEW t \in Seq(S), s # <<>>,
         Distinct(s), Distinct(t), \A m \in S : ~(InSeq(m, s) /\ InSeq(m, t))
  PROVE  /\ Head(s) \in S
         /\ Tail(s) \in Seq(S) /\ <<Head(s)>> \o t \in Seq(S)
         /\ Distinct(Tail(s)) /\ Distinct(<<Head(s)>> \o t)
         /\ InSeq(Head(s), <<Head(s)>> \o t)
         /\ \A m : ~(InSeq(m, Tail(s)) /\ InSeq(m, <<Head(s)>> \o t))
         /\ \A m : InSeq(m, Tail(s)) \/ InSeq(m, <<Head(s)>> \o t) => InSeq(m, s) \/ InSeq(m, t)
<1>1. InSeq(Head(s), s) /\ Tail(s) = Unlink(s, Head(s))
  BY MovedHead
<1>2. /\ Head(s) \in S
      /\ Unlink(s, Head(s)) \in Seq(S) /\ <<Head(s)>> \o t \in Seq(S)
      /\ Distinct(Unlink(s, Head(s))) /\ Distinct(<<Head(s)>> \o t)
      /\ InSeq(Head(s), <<Head(s)>> \o t)
      /\ \A m : ~(InSeq(m, Unlink(s, Head(s))) /\ InSeq(m, <<Head(s)>> \o t))
      /\ \A m : InSeq(m, Unlink(s, Head(s))) \/ InSeq(m, <<Head(s)>> \o t) => InSeq(m, s) \/ InSeq(m, t)
  BY <1>1, MovedNode
<1> QED BY <1>1, <1>2

\* Steps that leave lists and callbacks alone.
Quiet ==
  \/ SuspendFail \/ SuspendAll \/ Mask \/ FirstCheck \/ NoirqFail \/ NoirqUnmasked
  \/ NoirqAll \/ LastCheck \/ Wake \/ ResumeNoirqAll \/ Unmask

\* ... and steps of lists that are whole.
Untorn ==
  /\ pc # "torn" /\ misuse' = misuse
  /\ \/ \E d \in Dev : Register(d) \/ Unregister(d)
     \/ Interrupt \/ EnterMode \/ Suspending \/ Entering \/ Wake \/ Resuming

LEMMA TornOrNot ==
  Next =>
    /\ misuse' = misuse
    /\ Untorn \/ (\E d \in Dev : Torn(d)) \/ (pc = "torn" /\ Interrupt)
<1>1. Next => misuse' = misuse
  BY DEF Next, TaskStep
<1> SUFFICES ASSUME Next, pc = "torn" PROVE (\E d \in Dev : Torn(d)) \/ Interrupt
  BY <1>1 DEF Next, TaskStep, Untorn
<1> QED BY DEF Next, TaskStep, Suspending, Entering, Resuming, Register, Unregister, OthersRun, EnterMode,
        SuspendCall, SuspendDone, SuspendFail, SuspendAll, Mask, FirstCheck, NoirqFail, NoirqDone,
        NoirqUnmasked, NoirqAll, LastCheck, Wake, ResumeNoirq, ResumeNoirqAll, Unmask, ResumeCall,
        ResumeReturn, LeaveMode

LEMMA NextCases ==
  Untorn =>
    \/ \E d \in Dev : Register(d)
    \/ \E d \in Dev : Unregister(d)
    \/ Interrupt \/ EnterMode \/ LeaveMode \/ Quiet
    \/ SuspendCall \/ SuspendDone \/ NoirqDone
    \/ ResumeNoirq \/ ResumeCall \/ ResumeReturn
BY DEF Untorn, Suspending, Entering, Resuming, Quiet

\* The lists, and the node whose callback runs.
LEMMA ListStep ==
  ASSUME TypeOK, ListsProper, InHand, Untorn
  PROVE  /\ dpm_list' \in Seq(N0) /\ dpm_suspended_list' \in Seq(N0)
         /\ dpm_late_early_list' \in Seq(N1) /\ dpm_noirq_list' \in Seq(N1)
         /\ ListsProper' /\ InHand'
<1> DEFINE Types == /\ dpm_list' \in Seq(N0) /\ dpm_suspended_list' \in Seq(N0)
                    /\ dpm_late_early_list' \in Seq(N1) /\ dpm_noirq_list' \in Seq(N1)
<1>0. /\ dpm_list \in Seq(N0) /\ dpm_suspended_list \in Seq(N0)
      /\ dpm_late_early_list \in Seq(N1) /\ dpm_noirq_list \in Seq(N1)
      /\ N0 \subseteq Node /\ N1 \subseteq Node
  BY DEF TypeOK, N0, N1, Node
<1>1. ASSUME NEW d \in Dev, Register(d) PROVE Types /\ ListsProper' /\ InHand'
  <2>1. CASE ~Registered(d) /\ AddNodes(d) /\ UNCHANGED pc
    <3>1. Types /\ ListsProper' /\ \A n : InSeq(n, dpm_list) => InSeq(n, dpm_list')
      BY <2>1, AddedNodes
    <3>2. cur' = cur /\ pc' = pc
      BY <1>1, <2>1 DEF Register
    <3> QED BY <1>0, <3>1, <3>2 DEF InHand, N0
  <2>2. CASE pc' = "bug" /\ UNCHANGED lists
    BY <1>0, <2>2 DEF InHand, ListsProper, lists
  <2> QED BY <1>1, <2>1, <2>2 DEF Register
<1>2. ASSUME NEW d \in Dev, Unregister(d) PROVE Types /\ ListsProper' /\ InHand'
  <2>1. /\ Types /\ ListsProper'
        /\ \A n \in Node : n[1] # d => (InSeq(n, dpm_list') <=> InSeq(n, dpm_list))
    BY <1>2, RemovedNodes DEF Unregister
  <2>2. cur' = cur /\ pc' = pc /\ MayChange(d)
    BY <1>2 DEF Unregister
  <2>3. pc \in {"callback", "resumecb"} => cur \in N0 /\ cur # NoNode /\ cur[1] # d
    <3>1. \A c \in N0 : c # NoNode
      BY DEF N0, NoNode
    <3> QED BY <2>2, <3>1 DEF MayChange, InHand, N0
  <2> QED BY <1>0, <2>1, <2>2, <2>3 DEF InHand
<1>3. CASE Interrupt
  BY <1>0, <1>3 DEF Interrupt, lists, ListsProper, InHand
<1>4. CASE EnterMode
  <2>1. pc' \in {"suspend", "bug"} /\ cur' = cur /\ pc = "idle"
    BY <1>4 DEF EnterMode
  <2>2. RemoveNodes(Wlan) \/ UNCHANGED lists
    BY <1>4 DEF EnterMode
  <2>3. Wlan \in Dev
    BY DeviceAssumption DEF Dev
  <2>4. Types /\ ListsProper'
    <3>1. CASE RemoveNodes(Wlan)
      BY <2>3, <3>1, RemovedNodes
    <3>2. CASE UNCHANGED lists
      BY <1>0, <3>2 DEF lists, ListsProper
    <3> QED BY <2>2, <3>1, <3>2
  <2> QED BY <2>1, <2>4 DEF InHand
<1>5. CASE LeaveMode
  <2>1. pc' \in {"idle", "bug"} /\ cur' = cur /\ pc = "resume"
    BY <1>5 DEF LeaveMode
  <2>2. (AddNodes(Wlan) /\ ~Registered(Wlan)) \/ UNCHANGED lists
    BY <1>5 DEF LeaveMode
  <2>3. Wlan \in Dev
    BY DeviceAssumption DEF Dev
  <2>4. Types /\ ListsProper'
    <3>1. CASE AddNodes(Wlan) /\ ~Registered(Wlan)
      BY <2>3, <3>1, AddedNodes
    <3>2. CASE UNCHANGED lists
      BY <1>0, <3>2 DEF lists, ListsProper
    <3> QED BY <2>2, <3>1, <3>2
  <2> QED BY <2>1, <2>4 DEF InHand
<1>6. CASE Quiet
  <2>1. UNCHANGED lists
    BY <1>6 DEF Quiet, SuspendFail, SuspendAll, Mask, FirstCheck, NoirqFail, NoirqUnmasked,
                NoirqAll, LastCheck, Wake, ResumeNoirqAll, Unmask
  <2>2. InHand'
    BY <1>6 DEF InHand, NoNode, Quiet, SuspendFail, SuspendAll, Mask, FirstCheck, NoirqFail, NoirqUnmasked,
                NoirqAll, LastCheck, Wake, ResumeNoirqAll, Unmask
  <2> QED BY <1>0, <2>1, <2>2 DEF lists, ListsProper
<1>7. CASE SuspendCall
  <2>1. dpm_list # <<>> /\ cur' = Head(dpm_list) /\ pc' = "callback" /\ UNCHANGED lists
    BY <1>7 DEF SuspendCall
  <2>2. cur' \in N0 /\ InSeq(cur', dpm_list)
    BY <1>0, <2>1, HeadTail, MovedHead
  <2> QED BY <1>0, <2>1, <2>2 DEF InHand, ListsProper, lists, N0
<1>8. CASE SuspendDone
  <2>1. /\ dpm_list' = Unlink(dpm_list, cur) /\ dpm_suspended_list' = <<cur>> \o dpm_suspended_list
        /\ dpm_late_early_list' = dpm_late_early_list /\ dpm_noirq_list' = dpm_noirq_list
        /\ pc' = "suspend" /\ cur' = NoNode /\ InSeq(cur, dpm_list)
    BY <1>8 DEF SuspendDone, Push, InHand
  <2>2. \A m \in N0 : ~(InSeq(m, dpm_list) /\ InSeq(m, dpm_suspended_list))
    BY <1>0 DEF ListsProper
  <2>3. /\ dpm_list' \in Seq(N0) /\ dpm_suspended_list' \in Seq(N0)
        /\ Distinct(dpm_list') /\ Distinct(dpm_suspended_list')
        /\ \A m : ~(InSeq(m, dpm_list') /\ InSeq(m, dpm_suspended_list'))
    BY <1>0, <2>1, <2>2, MovedNode DEF ListsProper
  <2>4. ListsProper'
    BY <2>1, <2>3 DEF ListsProper
  <2> QED BY <1>0, <2>1, <2>3, <2>4 DEF InHand
<1>9. CASE NoirqDone
  <2>1. /\ dpm_late_early_list # <<>>
        /\ dpm_late_early_list' = Tail(dpm_late_early_list)
        /\ dpm_noirq_list' = <<Head(dpm_late_early_list)>> \o dpm_noirq_list
        /\ dpm_list' = dpm_list /\ dpm_suspended_list' = dpm_suspended_list
        /\ pc' \in {"noirq", "resume_noirq"} /\ cur' = cur /\ pc = "noirq"
    BY <1>9 DEF NoirqDone, Push
  <2>2. \A m \in N1 : ~(InSeq(m, dpm_late_early_list) /\ InSeq(m, dpm_noirq_list))
    BY <1>0 DEF ListsProper
  <2>4. /\ dpm_late_early_list' \in Seq(N1) /\ dpm_noirq_list' \in Seq(N1)
        /\ Distinct(dpm_late_early_list') /\ Distinct(dpm_noirq_list')
        /\ \A m : ~(InSeq(m, dpm_late_early_list') /\ InSeq(m, dpm_noirq_list'))
    BY <1>0, <2>1, <2>2, MovedFirst DEF ListsProper
  <2>5. ListsProper'
    BY <2>1, <2>4 DEF ListsProper
  <2> QED BY <1>0, <2>1, <2>4, <2>5 DEF InHand
<1>10. CASE ResumeNoirq
  <2>1. /\ dpm_noirq_list # <<>>
        /\ dpm_noirq_list' = Tail(dpm_noirq_list)
        /\ dpm_late_early_list' = <<Head(dpm_noirq_list)>> \o dpm_late_early_list
        /\ dpm_list' = dpm_list /\ dpm_suspended_list' = dpm_suspended_list
        /\ pc' = pc /\ cur' = cur /\ pc = "resume_noirq"
    BY <1>10 DEF ResumeNoirq, Push
  <2>2. \A m \in N1 : ~(InSeq(m, dpm_noirq_list) /\ InSeq(m, dpm_late_early_list))
    BY <1>0 DEF ListsProper
  <2>4. /\ dpm_late_early_list' \in Seq(N1) /\ dpm_noirq_list' \in Seq(N1)
        /\ Distinct(dpm_late_early_list') /\ Distinct(dpm_noirq_list')
        /\ \A m : ~(InSeq(m, dpm_noirq_list') /\ InSeq(m, dpm_late_early_list'))
    BY <1>0, <2>1, <2>2, MovedFirst DEF ListsProper
  <2>5. ListsProper'
    BY <2>1, <2>4 DEF ListsProper
  <2> QED BY <1>0, <2>1, <2>4, <2>5 DEF InHand
<1>11. CASE ResumeCall
  <2>1. /\ dpm_suspended_list # <<>> /\ cur' = Head(dpm_suspended_list)
        /\ dpm_suspended_list' = Tail(dpm_suspended_list)
        /\ dpm_list' = <<Head(dpm_suspended_list)>> \o dpm_list
        /\ dpm_late_early_list' = dpm_late_early_list /\ dpm_noirq_list' = dpm_noirq_list
        /\ pc' = "resumecb"
    BY <1>11 DEF ResumeCall, Push
  <2>2. \A m \in N0 : ~(InSeq(m, dpm_suspended_list) /\ InSeq(m, dpm_list))
    BY <1>0 DEF ListsProper
  <2>4. /\ dpm_list' \in Seq(N0) /\ dpm_suspended_list' \in Seq(N0)
        /\ Distinct(dpm_list') /\ Distinct(dpm_suspended_list')
        /\ \A m : ~(InSeq(m, dpm_suspended_list') /\ InSeq(m, dpm_list'))
        /\ cur' \in N0 /\ InSeq(cur', dpm_list')
    BY <1>0, <2>1, <2>2, MovedFirst DEF ListsProper
  <2>5. ListsProper'
    BY <2>1, <2>4 DEF ListsProper
  <2> QED BY <1>0, <2>1, <2>4, <2>5 DEF InHand, N0
<1>12. CASE ResumeReturn
  BY <1>0, <1>12 DEF ResumeReturn, lists, ListsProper, InHand
<1> QED BY NextCases, <1>1, <1>2, <1>3, <1>4, <1>5, <1>6, <1>7, <1>8, <1>9, <1>10, <1>11, <1>12

\* pm_enter_mode enters a supported mode not above the one asked for, if any.
LEMMA DeepestMode ==
  ASSUME NEW config \in Configs, NEW state \in Requests
  PROVE  \/ /\ \E s \in config : s <= state
            /\ ModeUsed(config, state) \in config
         \/ /\ ~\E s \in config : s <= state
            /\ ModeUsed(config, state) = PM_MODE_ON - 1
<1> DEFINE Fits == {s \in config : s <= state}
<1>1. config \subseteq 0 .. 4 /\ state \in 0 .. 4
  BY ModeAssumption DEF Mode, PM_MODE_MAX
<1>2. CASE \E s \in config : s <= state
  <2>1. \E s \in config : s <= state /\ \A t \in config : t <= state => t <= s
    <3>1. \A k \in 0 .. 4 : (k \in Fits /\ \A t \in Fits : t <= k) => k \in config /\ k <= state
      OBVIOUS
    <3>2. \/ 4 \in Fits
          \/ 4 \notin Fits /\ 3 \in Fits
          \/ 4 \notin Fits /\ 3 \notin Fits /\ 2 \in Fits
          \/ 4 \notin Fits /\ 3 \notin Fits /\ 2 \notin Fits /\ 1 \in Fits
          \/ 4 \notin Fits /\ 3 \notin Fits /\ 2 \notin Fits /\ 1 \notin Fits /\ 0 \in Fits
      <4>1. \E s \in 0 .. 4 : s \in Fits
        BY <1>1, <1>2
      <4> QED BY <4>1
    <3>3. \E k \in 0 .. 4 : k \in Fits /\ \A t \in 0 .. 4 : t \in Fits => t <= k
      <4>1. \A t \in 0 .. 4 : t = 0 \/ t = 1 \/ t = 2 \/ t = 3 \/ t = 4
        OBVIOUS
      <4> QED BY <3>2, <4>1
    <3> QED BY <1>1, <3>3
  <2> QED BY <1>2, <2>1 DEF ModeUsed
<1>3. CASE ~\E s \in config : s <= state
  BY <1>3 DEF ModeUsed
<1> QED BY <1>2, <1>3

\* The type invariant.
LEMMA TypeStep ==
  ASSUME TypeOK, ListsProper, InHand, Untorn
  PROVE  TypeOK'
<1>1. /\ dpm_list' \in Seq(N0) /\ dpm_suspended_list' \in Seq(N0)
      /\ dpm_late_early_list' \in Seq(N1) /\ dpm_noirq_list' \in Seq(N1)
      /\ N0 \subseteq Node /\ N1 \subseteq Node
  BY ListStep DEF N0, N1, Node
<1>2. down' \in Seq(Node)
  <2>1. \A n : Unlink(down, n) \in Seq(Node)
    BY UnlinkType DEF TypeOK
  <2>2. \A n \in Node : Downed(n) \in Seq(Node)
    BY <2>1, PushFacts DEF Downed
  <2>3. dpm_late_early_list # <<>> => Head(dpm_late_early_list) \in Node
    BY <1>1, HeadTail DEF TypeOK, N1
  <2>4. CASE SuspendDone
    BY <2>2, <2>4 DEF SuspendDone, InHand, Node
  <2>5. CASE NoirqDone \/ NoirqUnmasked
    BY <2>2, <2>3, <2>5 DEF NoirqDone, NoirqUnmasked
  <2>6. CASE ResumeNoirq \/ ResumeReturn
    BY <2>1, <2>6 DEF ResumeNoirq, ResumeReturn
  <2>7. ASSUME NEW d \in Dev, Unregister(d) PROVE down' \in Seq(Node)
    BY <2>1, <2>7, UnlinkType DEF Unregister
  <2>8. CASE UNCHANGED down
    BY <2>8 DEF TypeOK
  <2> QED BY <2>4, <2>5, <2>6, <2>7, <2>8
          DEF Untorn, Suspending, Entering, Resuming, Register, Interrupt, EnterMode, SuspendCall,
              SuspendFail, SuspendAll, Mask, FirstCheck, NoirqFail, NoirqAll, LastCheck, Wake,
              ResumeNoirqAll, Unmask, ResumeCall, LeaveMode
<1>3. cur' \in Node \cup {NoNode}
  <2>1. dpm_list # <<>> => Head(dpm_list) \in Node
    BY <1>1, HeadTail DEF TypeOK, N0
  <2>2. dpm_suspended_list # <<>> => Head(dpm_suspended_list) \in Node
    BY <1>1, HeadTail DEF TypeOK, N0
  <2> QED BY <2>1, <2>2 DEF TypeOK,
              Untorn, Suspending, Entering, Resuming, Register, Unregister, Interrupt, EnterMode, SuspendCall,
              SuspendDone, SuspendFail, SuspendAll, Mask, FirstCheck, NoirqFail, NoirqDone, NoirqUnmasked,
              NoirqAll, LastCheck, Wake, ResumeNoirq, ResumeNoirqAll, Unmask, ResumeCall, ResumeReturn, LeaveMode
<1>4. changes' \in 0 .. MaxChanges
  <2>1. OthersRun => changes' \in 0 .. MaxChanges
    BY BoundAssumption DEF TypeOK, OthersRun
  <2>2. EnterMode => changes' \in 0 .. MaxChanges
    BY BoundAssumption DEF EnterMode
  <2>3. UNCHANGED changes => changes' \in 0 .. MaxChanges
    BY DEF TypeOK
  <2> QED BY <2>1, <2>2, <2>3 DEF
              Untorn, Suspending, Entering, Resuming, Register, Unregister, Interrupt, SuspendCall,
              SuspendDone, SuspendFail, SuspendAll, Mask, FirstCheck, NoirqFail, NoirqDone, NoirqUnmasked,
              NoirqAll, LastCheck, Wake, ResumeNoirq, ResumeNoirqAll, Unmask, ResumeCall, ResumeReturn, LeaveMode
<1>5. mode' \in -1 .. PM_MODE_MAX - 1
  <2>1. CASE EnterMode
    <3>1. PICK config \in Configs, state \in Requests : mode' = ModeUsed(config, state)
      BY <2>1 DEF EnterMode
    <3>2. CASE mode' \in Mode
      BY <3>2 DEF Mode, PM_MODE_MAX
    <3>3. CASE mode' \notin Mode
      <4>1. ModeUsed(config, state) \in config \/ ModeUsed(config, state) = PM_MODE_ON - 1
        BY DeepestMode, <3>1
      <4>2. config \subseteq Mode
        BY ModeAssumption
      <4> QED BY <3>1, <3>3, <4>1, <4>2 DEF PM_MODE_ON, PM_MODE_MAX
    <3> QED BY <3>2, <3>3
  <2>2. CASE UNCHANGED mode
    BY <2>2 DEF TypeOK
  <2> QED BY <2>1, <2>2 DEF Untorn, Suspending, Entering, Resuming, Register, Unregister, Interrupt, SuspendCall,
              SuspendDone, SuspendFail, SuspendAll, Mask, FirstCheck, NoirqFail, NoirqDone, NoirqUnmasked,
              NoirqAll, LastCheck, Wake, ResumeNoirq, ResumeNoirqAll, Unmask, ResumeCall, ResumeReturn, LeaveMode
<1>6. alive' \in BOOLEAN /\ masked' \in BOOLEAN /\ pending' \in BOOLEAN
  BY DEF TypeOK, Registered, Linked, InSeq,
              Untorn, Suspending, Entering, Resuming, Register, Unregister, Interrupt, EnterMode, SuspendCall,
              SuspendDone, SuspendFail, SuspendAll, Mask, FirstCheck, NoirqFail, NoirqDone, NoirqUnmasked,
              NoirqAll, LastCheck, Wake, ResumeNoirq, ResumeNoirqAll, Unmask, ResumeCall, ResumeReturn, LeaveMode
<1>7. pc' \in {"idle", "suspend", "callback", "enter", "masked", "noirq", "lastcheck",
               "asleep", "resume_noirq", "unmask", "resume", "resumecb", "bug", "torn"}
  BY DEF TypeOK,
              Untorn, Suspending, Entering, Resuming, Register, Unregister, Interrupt, EnterMode, SuspendCall,
              SuspendDone, SuspendFail, SuspendAll, Mask, FirstCheck, NoirqFail, NoirqDone, NoirqUnmasked,
              NoirqAll, LastCheck, Wake, ResumeNoirq, ResumeNoirqAll, Unmask, ResumeCall, ResumeReturn, LeaveMode
<1>8. misuse' \in Misuses
  BY DEF Untorn, TypeOK
<1> QED BY <1>1, <1>2, <1>3, <1>4, <1>5, <1>6, <1>7, <1>8 DEF TypeOK, N0, N1

\* Only registering, and the end of pm_enter_mode, link a node that was not.
LEMMA NoNewLinks ==
  ASSUME TypeOK, ListsProper, InHand, Untorn
  PROVE  (\E d \in Dev : Register(d)) \/ LeaveMode \/ \A n : Linked(n)' => Linked(n)
<1>0. /\ dpm_list \in Seq(N0) /\ dpm_suspended_list \in Seq(N0)
      /\ dpm_late_early_list \in Seq(N1) /\ dpm_noirq_list \in Seq(N1)
      /\ \A m \in N0 : ~(InSeq(m, dpm_list) /\ InSeq(m, dpm_suspended_list))
      /\ \A m \in N1 : ~(InSeq(m, dpm_late_early_list) /\ InSeq(m, dpm_noirq_list))
  BY DEF TypeOK, ListsProper, N0, N1, Node
<1>1. ASSUME NEW d \in Dev, Unregister(d) PROVE \A n : Linked(n)' => Linked(n)
  BY <1>1, RemovedNodes DEF Unregister
<1>2. CASE Interrupt \/ Quiet \/ SuspendCall \/ ResumeReturn
  BY <1>2 DEF Linked, lists, Interrupt, Quiet, SuspendCall, ResumeReturn, SuspendFail, SuspendAll, Mask,
              FirstCheck, NoirqFail, NoirqUnmasked, NoirqAll, LastCheck, Wake, ResumeNoirqAll, Unmask
<1>3. CASE EnterMode
  <2>1. RemoveNodes(Wlan) \/ UNCHANGED lists
    BY <1>3 DEF EnterMode
  <2>2. CASE RemoveNodes(Wlan)
    BY <2>2, RemovedNodes, DeviceAssumption DEF Dev
  <2>3. CASE UNCHANGED lists
    BY <2>3 DEF lists, Linked
  <2> QED BY <2>1, <2>2, <2>3
<1>4. CASE SuspendDone
  <2>0. /\ dpm_list' = Unlink(dpm_list, cur) /\ dpm_suspended_list' = <<cur>> \o dpm_suspended_list
        /\ InSeq(cur, dpm_list) /\ Distinct(dpm_list) /\ Distinct(dpm_suspended_list)
    BY <1>4 DEF SuspendDone, Push, InHand, ListsProper
  <2>1. \A m : InSeq(m, Unlink(dpm_list, cur)) \/ InSeq(m, <<cur>> \o dpm_suspended_list)
                 => InSeq(m, dpm_list) \/ InSeq(m, dpm_suspended_list)
    <3>1. /\ dpm_list \in Seq(N0) /\ dpm_suspended_list \in Seq(N0)
          /\ \A m \in N0 : ~(InSeq(m, dpm_list) /\ InSeq(m, dpm_suspended_list))
      BY <1>0
    <3> QED BY <2>0, <3>1, MovedNode
  <2> QED BY <1>4, <2>0, <2>1 DEF SuspendDone, Linked
<1>5. CASE NoirqDone
  <2>1. \A m : InSeq(m, dpm_late_early_list') \/ InSeq(m, dpm_noirq_list')
                 => InSeq(m, dpm_late_early_list) \/ InSeq(m, dpm_noirq_list)
    BY <1>0, <1>5, MovedFirst DEF NoirqDone, Push, ListsProper
  <2> QED BY <1>5, <2>1 DEF NoirqDone, Linked
<1>6. CASE ResumeNoirq
  <2>0. /\ dpm_noirq_list # <<>> /\ Distinct(dpm_late_early_list) /\ Distinct(dpm_noirq_list)
        /\ dpm_noirq_list' = Tail(dpm_noirq_list)
        /\ dpm_late_early_list' = <<Head(dpm_noirq_list)>> \o dpm_late_early_list
        /\ \A m \in N1 : ~(InSeq(m, dpm_noirq_list) /\ InSeq(m, dpm_late_early_list))
    BY <1>0, <1>6 DEF ResumeNoirq, Push, ListsProper
  <2>1. \A m : InSeq(m, dpm_noirq_list') \/ InSeq(m, dpm_late_early_list')
                 => InSeq(m, dpm_noirq_list) \/ InSeq(m, dpm_late_early_list)
    BY <1>0, <2>0, MovedFirst
  <2> QED BY <1>6, <2>1 DEF ResumeNoirq, Linked
<1>7. CASE ResumeCall
  <2>1. \A m : InSeq(m, dpm_list') \/ InSeq(m, dpm_suspended_list')
                 => InSeq(m, dpm_list) \/ InSeq(m, dpm_suspended_list)
    BY <1>0, <1>7, MovedFirst DEF ResumeCall, Push, ListsProper
  <2> QED BY <1>7, <2>1 DEF ResumeCall, Linked
<1> QED BY NextCases, <1>1, <1>2, <1>3, <1>4, <1>5, <1>6, <1>7

\* The WLAN that was stopped for the sleep stays unregistered.
LEMMA WlanStep ==
  ASSUME TypeOK, ListsProper, InHand, WlanStaysOff, Untorn
  PROVE  WlanStaysOff'
<1>0. Wlan \in Dev
  BY DeviceAssumption DEF Dev
<1>1. ASSUME NEW d \in Dev, Register(d) PROVE WlanStaysOff'
  <2>1. CASE pc = "idle" \/ pc' = "bug"
    BY <1>1, <2>1 DEF Register, WlanStaysOff
  <2>2. CASE pc # "idle" /\ pc' # "bug"
    <3>1. d # Wlan /\ ~Registered(d) /\ AddNodes(d) /\ pc' = pc /\ alive' = alive /\ mode' = mode
      BY <1>1, <2>2 DEF Register, MayChange
    <3>2. \A n : n # <<d, 0>> /\ n # <<d, 1>> /\ Linked(n)' => Linked(n)
      BY <3>1, AddedNodes
    <3>3. Registered(Wlan)' => Registered(Wlan)
      BY <3>1, <3>2 DEF Registered
    <3> QED BY <2>2, <3>1, <3>3 DEF WlanStaysOff
  <2> QED BY <2>1, <2>2
<1>2. CASE LeaveMode
  BY <1>2 DEF LeaveMode, WlanStaysOff
<1>3. CASE EnterMode
  <2>1. SUFFICES ASSUME pc' = "suspend" PROVE WlanStaysOff'
    BY <1>3 DEF EnterMode, WlanStaysOff
  <2>2. mode' \in Mode /\ (alive' /\ mode' \in WlanOffModes => RemoveNodes(Wlan))
    BY <1>3, <2>1 DEF EnterMode
  <2>3. ASSUME RemoveNodes(Wlan) PROVE ~Registered(Wlan)'
    <3>1. /\ dpm_list' \in Seq(N0) /\ dpm_suspended_list' \in Seq(N0)
          /\ dpm_late_early_list' \in Seq(N1) /\ dpm_noirq_list' \in Seq(N1)
          /\ ~InSeq(<<Wlan, 0>>, dpm_list') /\ ~InSeq(<<Wlan, 0>>, dpm_suspended_list')
          /\ ~InSeq(<<Wlan, 1>>, dpm_late_early_list') /\ ~InSeq(<<Wlan, 1>>, dpm_noirq_list')
      BY <1>0, <2>3, RemovedNodes
    <3>2. <<Wlan, 0>> \notin N1 /\ <<Wlan, 1>> \notin N0
      BY DEF N0, N1
    <3>3. ~InSeq(<<Wlan, 1>>, dpm_list') /\ ~InSeq(<<Wlan, 1>>, dpm_suspended_list')
      BY <3>1, <3>2, ForeignElement
    <3>4. ~InSeq(<<Wlan, 0>>, dpm_late_early_list') /\ ~InSeq(<<Wlan, 0>>, dpm_noirq_list')
      BY <3>1, <3>2, ForeignElement
    <3> QED BY <3>1, <3>3, <3>4 DEF Registered, Linked
  <2> QED BY <2>2, <2>3 DEF WlanStaysOff
<1>4. CASE (\A n : Linked(n)' => Linked(n)) /\ UNCHANGED <<mode, alive>> /\ pc # "idle"
  <2>1. Registered(Wlan)' => Registered(Wlan)
    BY <1>4 DEF Registered
  <2>2. mode' = mode /\ alive' = alive /\ (pc = "bug" => pc' = "bug")
    BY <1>4 DEF Untorn, Suspending, Entering, Resuming, Register, Unregister, OthersRun, Interrupt, EnterMode,
        SuspendCall, SuspendDone, SuspendFail, SuspendAll, Mask, FirstCheck, NoirqFail, NoirqDone,
        NoirqUnmasked, NoirqAll, LastCheck, Wake, ResumeNoirq, ResumeNoirqAll, Unmask, ResumeCall,
        ResumeReturn, LeaveMode
  <2> QED BY <1>4, <2>1, <2>2 DEF WlanStaysOff
<1>5. CASE pc = "idle" /\ pc' = "idle"
  BY <1>5 DEF WlanStaysOff
<1>6. CASE pc = "bug" /\ pc' = "bug"
  BY <1>6 DEF WlanStaysOff
<1>7. ASSUME ~EnterMode, ~LeaveMode, ~\E d \in Dev : Register(d)
      PROVE  UNCHANGED <<mode, alive>> /\ (pc # "idle" \/ pc' = "idle")
  BY <1>7 DEF Untorn, Suspending, Entering, Resuming, Unregister, Interrupt, SuspendCall,
              SuspendDone, SuspendFail, SuspendAll, Mask, FirstCheck, NoirqFail, NoirqDone, NoirqUnmasked,
              NoirqAll, LastCheck, Wake, ResumeNoirq, ResumeNoirqAll, Unmask, ResumeCall, ResumeReturn
<1> QED BY NoNewLinks, <1>1, <1>2, <1>3, <1>4, <1>5, <1>6, <1>7

\* There is nothing to remove from an empty list.
LEMMA UnlinkEmpty == \A n : Unlink(<<>>, n) = <<>>
BY DEF Unlink, InSeq

\* Which lists are empty when.
LEMMA PhaseStep ==
  ASSUME Phases, Untorn
  PROVE  Phases'
<1>0. misuse' = misuse
  BY DEF Untorn
<1>1. ASSUME NEW d \in Dev, Register(d) PROVE Phases'
  BY <1>0, <1>1 DEF Register, OthersRun, AddNodes, lists, Phases
<1>2. ASSUME NEW d \in Dev, Unregister(d) PROVE Phases'
  BY <1>0, <1>2, UnlinkEmpty DEF Unregister, OthersRun, RemoveNodes, Phases
<1>3. CASE Interrupt
  BY <1>0, <1>3 DEF Interrupt, lists, Phases
<1>4. CASE EnterMode
  BY <1>0, <1>4, UnlinkEmpty DEF EnterMode, RemoveNodes, lists, Phases
<1>5. CASE LeaveMode
  BY <1>0, <1>5 DEF LeaveMode, AddNodes, lists, Phases
<1>6. CASE Quiet
  BY <1>0, <1>6 DEF Quiet, SuspendFail, SuspendAll, Mask, FirstCheck, NoirqFail, NoirqUnmasked,
              NoirqAll, LastCheck, Wake, ResumeNoirqAll, Unmask, lists, Phases
<1>7. CASE SuspendCall \/ SuspendDone \/ ResumeCall \/ ResumeReturn
  BY <1>0, <1>7 DEF SuspendCall, SuspendDone, ResumeCall, ResumeReturn, lists, Phases
<1>8. CASE NoirqDone \/ ResumeNoirq
  BY <1>0, <1>8 DEF NoirqDone, ResumeNoirq, Phases
<1> QED BY NextCases, <1>1, <1>2, <1>3, <1>4, <1>5, <1>6, <1>7, <1>8

\* What DownAreListed says of the suspended nodes, by phase.
LEMMA DownForms ==
  ASSUME TypeOK, Phases, DownAreListed, pc # "bug"
  PROVE  /\ pc = "resumecb" => down = <<cur>> \o dpm_suspended_list
         /\ pc \in {"noirq", "lastcheck", "asleep", "resume_noirq"} =>
              down = dpm_noirq_list \o dpm_suspended_list
         /\ pc \notin {"resumecb", "noirq", "lastcheck", "asleep", "resume_noirq"} =>
              down = dpm_suspended_list
<1>1. /\ dpm_suspended_list \in Seq(Node) /\ dpm_noirq_list \in Seq(Node)
      /\ N0 \subseteq Node /\ N1 \subseteq Node
  BY SeqMonotonic DEF TypeOK, N0, N1, Node
<1>2. \A s \in Seq(Node) : <<>> \o s = s
  BY ConcatEmptySeq
<1>3. dpm_noirq_list \o dpm_suspended_list \in Seq(Node)
  BY <1>1, ConcatFacts
<1> QED BY <1>1, <1>2, <1>3 DEF DownAreListed, Phases, SuspendedNodes

\* ... and what suffices for it.
LEMMA DownFormsSuffice ==
  ASSUME NEW r, NEW s \in Seq(Node)
  PROVE  <<>> \o (<<>> \o s) = s /\ r \o (<<>> \o s) = r \o s /\ <<>> \o s = s
BY ConcatEmptySeq

\* The suspended nodes.
LEMMA DownStep ==
  ASSUME TypeOK, ListsProper, InHand, Phases, DownAreListed, "unmask" \notin misuse, Untorn
  PROVE  DownAreListed'
<1>0. /\ dpm_suspended_list \in Seq(N0) /\ dpm_late_early_list \in Seq(N1)
      /\ dpm_noirq_list \in Seq(N1) /\ down \in Seq(Node)
      /\ N0 \subseteq Node /\ N1 \subseteq Node
      /\ dpm_suspended_list \in Seq(Node) /\ dpm_noirq_list \in Seq(Node)
  BY SeqMonotonic DEF TypeOK, N0, N1, Node
<1>1. /\ dpm_suspended_list' \in Seq(N0) /\ dpm_noirq_list' \in Seq(N1)
      /\ dpm_suspended_list' \in Seq(Node) /\ dpm_noirq_list' \in Seq(Node)
  BY <1>0, ListStep, SeqMonotonic
<1>2. Phases'
  BY PhaseStep
<1>3. (masked <=> pc \in {"masked", "noirq", "lastcheck", "asleep", "resume_noirq", "unmask"})'
  <2>1. masked <=> pc \in {"masked", "noirq", "lastcheck", "asleep", "resume_noirq", "unmask"}
    BY DEF DownAreListed
  <2>2. ~NoirqUnmasked
    BY DEF NoirqUnmasked
  <2>3. CASE Mask
    BY <2>3 DEF Mask
  <2>4. CASE Unmask
    BY <2>4 DEF Unmask
  <2>5. CASE ~Mask /\ ~Unmask
    <3>1. masked' = masked
      BY <2>2, <2>5 DEF Untorn, Suspending, Entering, Resuming, Register, Unregister, Interrupt, EnterMode,
         SuspendCall, SuspendDone, SuspendFail, SuspendAll, FirstCheck, NoirqFail, NoirqDone,
         NoirqAll, LastCheck, Wake, ResumeNoirq, ResumeNoirqAll, ResumeCall, ResumeReturn, LeaveMode
    <3>2. pc' \in {"masked", "noirq", "lastcheck", "asleep", "resume_noirq", "unmask"} <=>
            pc \in {"masked", "noirq", "lastcheck", "asleep", "resume_noirq", "unmask"}
      BY <2>1, <2>2, <2>5 DEF OthersRun, Untorn, Suspending, Entering, Resuming, Register, Unregister, Interrupt,
         EnterMode, SuspendCall, SuspendDone, SuspendFail, SuspendAll, FirstCheck, NoirqFail, NoirqDone,
         NoirqAll, LastCheck, Wake, ResumeNoirq, ResumeNoirqAll, ResumeCall, ResumeReturn, LeaveMode
    <3> QED BY <2>1, <3>1, <3>2
  <2> QED BY <2>3, <2>4, <2>5
<1>4. (pc \in {"lastcheck", "asleep"} => dpm_late_early_list = <<>>)'
  BY DEF DownAreListed, OthersRun, lists, Untorn, Suspending, Entering, Resuming, Register, Unregister, Interrupt, EnterMode,
         SuspendCall, SuspendDone, SuspendFail, SuspendAll, Mask, FirstCheck, NoirqFail, NoirqDone, NoirqUnmasked,
         NoirqAll, LastCheck, Wake, ResumeNoirq, ResumeNoirqAll, Unmask, ResumeCall, ResumeReturn, LeaveMode
<1>5. Distinct(down)
  BY DEF DownAreListed
<1>6. ASSUME NEW d \in Dev, Register(d) PROVE Distinct(down') /\ (pc' # "bug" => down' = SuspendedNodes')
  BY <1>5, <1>6 DEF Register, AddNodes, lists, DownAreListed, SuspendedNodes
<1>7. ASSUME NEW d \in Dev, Unregister(d) PROVE Distinct(down') /\ (pc' # "bug" => down' = SuspendedNodes')
  <2>1. /\ pc' = pc /\ cur' = cur /\ pc # "bug" /\ OthersRun /\ MayChange(d)
        /\ dpm_suspended_list' = Unlink(dpm_suspended_list, <<d, 0>>)
        /\ down' = Unlink(Unlink(down, <<d, 0>>), <<d, 1>>)
    BY <1>7 DEF Unregister, OthersRun, RemoveNodes
  <2>2. dpm_noirq_list' = <<>>
    BY <1>2, <2>1 DEF Phases, OthersRun
  <2>3. pc \notin {"noirq", "lastcheck", "asleep", "resume_noirq"}
    BY <2>1 DEF OthersRun
  <2>4. Distinct(down')
    BY <1>0, <1>5, <2>1, UnlinkType, UnlinkDistinct
  <2>5. <<d, 1>> \notin N0
    BY DEF N0
  <2>6. CASE pc = "resumecb"
    <3>1. cur \in N0 /\ cur # <<d, 0>>
      <4>1. cur \in N0 /\ \A c \in N0 : c # NoNode
        BY <2>6 DEF InHand, N0, NoNode
      <4>2. cur[1] # d
        BY <2>1, <2>6, <4>1 DEF MayChange
      <4> QED BY <4>1, <4>2 DEF N0
    <3>2. down = <<cur>> \o dpm_suspended_list
      BY <2>1, <2>6, DownForms
    <3>3. Unlink(down, <<d, 0>>) = <<cur>> \o dpm_suspended_list'
      BY <1>0, <1>5, <2>1, <3>1, <3>2, UnlinkBehind
    <3>4. <<cur>> \o dpm_suspended_list' \in Seq(N0)
      BY <1>1, <3>1, PushFacts
    <3>5. down' = <<cur>> \o dpm_suspended_list'
      BY <2>1, <2>5, <3>3, <3>4, ForeignElement
    <3>6. <<cur>> \o (<<>> \o dpm_suspended_list') = <<cur>> \o dpm_suspended_list'
      BY <1>1, DownFormsSuffice
    <3> QED BY <2>1, <2>2, <2>4, <2>6, <3>5, <3>6 DEF SuspendedNodes
  <2>7. CASE pc # "resumecb"
    <3>1. down = dpm_suspended_list
      BY <2>1, <2>3, <2>7, DownForms
    <3>2. down' = dpm_suspended_list'
      BY <1>1, <2>1, <2>5, <3>1, ForeignElement
    <3>3. <<>> \o (<<>> \o dpm_suspended_list') = dpm_suspended_list'
      BY <1>1, DownFormsSuffice
    <3> QED BY <2>1, <2>2, <2>4, <2>7, <3>2, <3>3 DEF SuspendedNodes
  <2> QED BY <2>6, <2>7
<1>8. ASSUME EnterMode PROVE Distinct(down') /\ (pc' # "bug" => down' = SuspendedNodes')
  <2>1. /\ pc = "idle" /\ pc' \in {"suspend", "bug"} /\ down' = down
        /\ (RemoveNodes(Wlan) \/ UNCHANGED lists)
    BY <1>8 DEF EnterMode
  <2>2. down = <<>> /\ dpm_suspended_list = <<>> /\ dpm_noirq_list = <<>>
    BY <2>1, DownForms DEF Phases
  <2>3. dpm_suspended_list' = <<>> /\ dpm_noirq_list' = <<>>
    BY <2>1, <2>2, UnlinkEmpty DEF RemoveNodes, lists
  <2>4. <<>> \o (<<>> \o <<>>) = <<>>
    BY <1>1, <2>3, DownFormsSuffice
  <2> QED BY <1>5, <2>1, <2>2, <2>3, <2>4 DEF SuspendedNodes
<1>9. ASSUME LeaveMode PROVE Distinct(down') /\ (pc' # "bug" => down' = SuspendedNodes')
  <2>1. /\ pc = "resume" /\ pc' \in {"idle", "bug"} /\ down' = down
        /\ dpm_suspended_list' = dpm_suspended_list /\ dpm_noirq_list' = dpm_noirq_list
    BY <1>9 DEF LeaveMode, AddNodes, lists
  <2> QED BY <1>5, <2>1 DEF DownAreListed, SuspendedNodes
<1>10. ASSUME Interrupt \/ SuspendCall \/ Quiet PROVE Distinct(down') /\ (pc' # "bug" => down' = SuspendedNodes')
  <2>1. /\ UNCHANGED <<down, dpm_suspended_list, dpm_noirq_list>>
        /\ (pc' = pc /\ cur' = cur) \/ (pc # "resumecb" /\ pc' # "resumecb")
        /\ pc # "bug" \/ pc' = "bug"
    BY <1>10 DEF Interrupt, SuspendCall, lists, Quiet, SuspendFail, SuspendAll, Mask, FirstCheck, NoirqFail,
                 NoirqUnmasked, NoirqAll, LastCheck, Wake, ResumeNoirqAll, Unmask
  <2> QED BY <1>5, <2>1 DEF DownAreListed, SuspendedNodes
<1>11. ASSUME SuspendDone PROVE Distinct(down') /\ (pc' # "bug" => down' = SuspendedNodes')
  <2>1. /\ pc = "callback" /\ pc' = "suspend" /\ InSeq(cur, dpm_list) /\ cur \in N0
        /\ dpm_suspended_list' = <<cur>> \o dpm_suspended_list
        /\ down' = <<cur>> \o Unlink(down, cur)
    BY <1>11 DEF SuspendDone, Downed, Push, InHand, N0
  <2>2. down = dpm_suspended_list
    BY <2>1, DownForms
  <2>3. ~InSeq(cur, dpm_suspended_list)
    BY <1>0, <2>1 DEF ListsProper
  <2>4. down' = dpm_suspended_list'
    BY <2>1, <2>2, <2>3 DEF Unlink
  <2>5. Distinct(down')
    <3>1. dpm_suspended_list \in Seq(N0) /\ Distinct(dpm_suspended_list)
      BY <1>0 DEF ListsProper
    <3>2. Distinct(<<cur>> \o dpm_suspended_list)
      BY <2>1, <2>3, <3>1, PushFacts
    <3> QED BY <2>1, <2>4, <3>2
  <2>6. dpm_noirq_list' = <<>>
    BY <1>2, <2>1 DEF Phases
  <2>7. <<>> \o (<<>> \o dpm_suspended_list') = dpm_suspended_list'
    BY <1>1, DownFormsSuffice
  <2> QED BY <2>1, <2>4, <2>5, <2>6, <2>7 DEF SuspendedNodes
<1>12. ASSUME NoirqDone PROVE Distinct(down') /\ (pc' # "bug" => down' = SuspendedNodes')
  <2> DEFINE h == Head(dpm_late_early_list)
             d0 == dpm_noirq_list \o dpm_suspended_list
  <2>1. /\ pc = "noirq" /\ pc' \in {"noirq", "resume_noirq"} /\ dpm_late_early_list # <<>>
        /\ dpm_noirq_list' = <<h>> \o dpm_noirq_list
        /\ dpm_suspended_list' = dpm_suspended_list
        /\ down' = <<h>> \o Unlink(down, h)
    BY <1>12 DEF NoirqDone, Downed, Push
  <2>2. h \in N1 /\ InSeq(h, dpm_late_early_list)
    BY <1>0, <2>1, HeadTail, MovedHead
  <2>3. down = d0
    BY <2>1, DownForms
  <2>4. ~InSeq(h, d0)
    <3>1. ~InSeq(h, dpm_noirq_list)
      BY <1>0, <2>2 DEF ListsProper
    <3>2. h \notin N0
      BY <2>2 DEF N0, N1
    <3>3. ~InSeq(h, dpm_suspended_list)
      BY <1>0, <3>2, ForeignElement
    <3> QED BY <1>0, <3>1, <3>3, ConcatFacts
  <2>5. down' = <<h>> \o d0
    BY <2>1, <2>3, <2>4 DEF Unlink
  <2>6. d0 \in Seq(Node) /\ h \in Node /\ <<h>> \in Seq(Node)
    <3>1. h \in Node
      BY <1>0, <2>2
    <3> QED BY <1>0, <3>1, ConcatFacts
  <2>7. Distinct(down')
    BY <1>5, <2>3, <2>4, <2>5, <2>6, PushFacts
  <2>8. dpm_noirq_list' \o dpm_suspended_list' = <<h>> \o d0
    BY <1>0, <2>1, <2>6, ConcatAssociative
  <2>9. <<>> \o (dpm_noirq_list' \o dpm_suspended_list') = dpm_noirq_list' \o dpm_suspended_list'
    <3>1. dpm_noirq_list' \o dpm_suspended_list' \in Seq(Node)
      BY <1>1, ConcatFacts
    <3> QED BY <3>1, ConcatEmptySeq
  <2> QED BY <2>1, <2>5, <2>7, <2>8, <2>9 DEF SuspendedNodes
<1>13. ASSUME ResumeNoirq PROVE Distinct(down') /\ (pc' # "bug" => down' = SuspendedNodes')
  <2> DEFINE h == Head(dpm_noirq_list)
             t == Tail(dpm_noirq_list) \o dpm_suspended_list
  <2>1. /\ pc = "resume_noirq" /\ pc' = pc /\ dpm_noirq_list # <<>>
        /\ dpm_noirq_list' = Tail(dpm_noirq_list)
        /\ dpm_suspended_list' = dpm_suspended_list
        /\ down' = Unlink(down, h)
    BY <1>13 DEF ResumeNoirq
  <2>2. /\ h \in Node /\ Tail(dpm_noirq_list) \in Seq(Node) /\ <<h>> \in Seq(Node)
        /\ dpm_noirq_list = <<h>> \o Tail(dpm_noirq_list)
    <3>1. h \in Node /\ Tail(dpm_noirq_list) \in Seq(Node) /\ dpm_noirq_list = <<h>> \o Tail(dpm_noirq_list)
      BY <1>0, <2>1, HeadTail
    <3> QED BY <3>1
  <2>3. t \in Seq(Node)
    BY <1>0, <2>2, ConcatFacts
  <2>4. down = <<h>> \o t
    <3>1. down = dpm_noirq_list \o dpm_suspended_list
      BY <2>1, DownForms
    <3> QED BY <1>0, <2>2, <3>1, ConcatAssociative
  <2>5. ~InSeq(h, t) /\ Distinct(t)
    <3>1. down # <<>> /\ Head(down) = h /\ Tail(down) = t
      BY <2>2, <2>3, <2>4, PushFacts
    <3> QED BY <1>0, <1>5, <3>1, TailFacts
  <2>6. down' = t
    BY <2>1, <2>2, <2>3, <2>4, <2>5, UnlinkHead
  <2>7. <<>> \o t = t
    BY <2>3, ConcatEmptySeq
  <2> QED BY <2>1, <2>5, <2>6, <2>7 DEF SuspendedNodes
<1>14. ASSUME ResumeCall PROVE Distinct(down') /\ (pc' # "bug" => down' = SuspendedNodes')
  <2> DEFINE h == Head(dpm_suspended_list)
  <2>1. /\ pc = "resume" /\ pc' = "resumecb" /\ dpm_suspended_list # <<>> /\ cur' = h
        /\ dpm_suspended_list' = Tail(dpm_suspended_list) /\ down' = down
    BY <1>14 DEF ResumeCall
  <2>2. down' = <<cur'>> \o dpm_suspended_list'
    <3>1. down = dpm_suspended_list
      BY <2>1, DownForms
    <3> QED BY <1>0, <2>1, <3>1, HeadTail
  <2>3. dpm_noirq_list' = <<>>
    BY <1>2, <2>1 DEF Phases
  <2>4. <<cur'>> \o (<<>> \o dpm_suspended_list') = <<cur'>> \o dpm_suspended_list'
    BY <1>1, DownFormsSuffice
  <2> QED BY <1>5, <2>1, <2>2, <2>3, <2>4 DEF SuspendedNodes
<1>15. ASSUME ResumeReturn PROVE Distinct(down') /\ (pc' # "bug" => down' = SuspendedNodes')
  <2>1. /\ pc = "resumecb" /\ pc' = "resume" /\ cur \in Node /\ down' = Unlink(down, cur)
        /\ dpm_suspended_list' = dpm_suspended_list
    BY <1>0, <1>15 DEF ResumeReturn, InHand, N0, lists
  <2>2. down = <<cur>> \o dpm_suspended_list
    BY <2>1, DownForms
  <2>3. ~InSeq(cur, dpm_suspended_list) /\ Distinct(dpm_suspended_list)
    <3>1. down # <<>> /\ Head(down) = cur /\ Tail(down) = dpm_suspended_list
      BY <1>0, <2>1, <2>2, PushFacts
    <3> QED BY <1>0, <1>5, <3>1, TailFacts
  <2>4. down' = dpm_suspended_list'
    BY <1>0, <2>1, <2>2, <2>3, UnlinkHead
  <2>5. dpm_noirq_list' = <<>>
    BY <1>2, <2>1 DEF Phases
  <2>6. <<>> \o (<<>> \o dpm_suspended_list') = dpm_suspended_list'
    BY <1>1, DownFormsSuffice
  <2> QED BY <2>1, <2>3, <2>4, <2>5, <2>6 DEF SuspendedNodes
<1>16. Distinct(down') /\ (pc' # "bug" => down' = SuspendedNodes')
  BY NextCases, <1>6, <1>7, <1>8, <1>9, <1>10, <1>11, <1>12, <1>13, <1>14, <1>15
<1> QED BY <1>3, <1>4, <1>16 DEF DownAreListed

(***************************************************************************)
(* The theorems.                                                           *)
(***************************************************************************)

\* Nothing is linked before the first device is registered.
LEMMA InitInv == Init => PmInv
<1> SUFFICES ASSUME Init PROVE PmInv
  OBVIOUS
<1>1. TypeOK
  <2>1. \A S : <<>> \in Seq(S)
    OBVIOUS
  <2>2. /\ dpm_list \in Seq(Op0Dev \X {0}) /\ dpm_suspended_list \in Seq(Op0Dev \X {0})
        /\ dpm_late_early_list \in Seq(Op1Dev \X {1}) /\ dpm_noirq_list \in Seq(Op1Dev \X {1})
        /\ down \in Seq(Node)
    BY <2>1 DEF Init
  <2>3. mode \in -1 .. PM_MODE_MAX - 1 /\ changes \in 0 .. MaxChanges
    BY BoundAssumption DEF Init, PM_MODE_ON, PM_MODE_MAX
  <2> QED BY <2>2, <2>3 DEF Init, TypeOK
<1>2. \A n : ~InSeq(n, <<>>)
  BY DEF InSeq
<1>3. Distinct(<<>>)
  BY DEF Distinct
<1>4. ListsProper
  BY <1>2, <1>3 DEF Init, ListsProper
<1>5. InHand /\ Phases /\ WlanStaysOff
  BY DEF Init, InHand, Phases, WlanStaysOff
<1>6. DownAreListed
  <2>1. <<>> \o (<<>> \o <<>>) = <<>>
    OBVIOUS
  <2> QED BY <1>3, <2>1 DEF Init, DownAreListed, SuspendedNodes
<1> QED BY <1>1, <1>4, <1>5, <1>6 DEF PmInv, ListInv

LEMMA StepInv == PmInv /\ [Next]_vars => PmInv'
<1> SUFFICES ASSUME PmInv, [Next]_vars PROVE PmInv'
  OBVIOUS
<1>0. misuse' = misuse
  BY TornOrNot DEF vars
<1>1. CASE Untorn
  <2>0. TypeOK /\ ListInv
    BY <1>1 DEF PmInv, Untorn
  <2>1. TypeOK' /\ ListsProper' /\ InHand' /\ Phases' /\ WlanStaysOff'
    BY <1>1, <2>0, TypeStep, ListStep, PhaseStep, WlanStep DEF ListInv
  <2>2. "unmask" \notin misuse => DownAreListed'
    BY <1>1, <2>0, DownStep DEF ListInv
  <2>3. misuse' = misuse
    BY <1>1 DEF Untorn
  <2> QED BY <2>1, <2>2, <2>3 DEF PmInv, ListInv
<1>2. CASE UNCHANGED vars
  <2>1. TypeOK'
    BY <1>2 DEF vars, lists, PmInv, TypeOK
  <2>2. pc # "torn" /\ ListInv => ListsProper' /\ InHand' /\ Phases'
    BY <1>2 DEF vars, lists, ListInv, ListsProper, InHand, Phases
  <2>3. pc # "torn" /\ ListInv => WlanStaysOff'
    BY <1>2 DEF vars, lists, ListInv, WlanStaysOff, Registered, Linked
  <2>4. pc # "torn" /\ ListInv => ("unmask" \notin misuse => DownAreListed')
    BY <1>2 DEF vars, lists, ListInv, DownAreListed, SuspendedNodes
  <2>5. pc' = pc /\ misuse' = misuse
    BY <1>2 DEF vars
  <2> QED BY <2>1, <2>2, <2>3, <2>4, <2>5 DEF PmInv, ListInv
<1>3. ASSUME NEW d \in Dev, Torn(d) PROVE PmInv'
  <2>1. TypeOK'
    BY <1>3, <1>0, BoundAssumption DEF Torn, lists, PmInv, TypeOK
  <2> QED BY <1>3, <2>1 DEF Torn, PmInv
<1>4. CASE pc = "torn" /\ Interrupt
  <2>1. TypeOK'
    BY <1>4, <1>0 DEF Interrupt, lists, PmInv, TypeOK
  <2> QED BY <1>4, <2>1 DEF Interrupt, PmInv
<1> QED BY TornOrNot, <1>1, <1>2, <1>3, <1>4

\* The invariant of the runs holds for all devices, modes and schedules, up to the
\* first change that falls into a list_move: lists that were torn are not described.
THEOREM Invariance == Spec => []PmInv
<1>1. Init => PmInv
  BY InitInv
<1>2. PmInv /\ [Next]_vars => PmInv'
  BY StepInv
<1> QED BY <1>1, <1>2, PTL DEF Spec

\* However devices are registered, unregistered, suspended and resumed, also
\* by callbacks that open the interrupts, no list is corrupted by a node that
\* is linked twice, as long as no change falls into a list_move.
THEOREM LinkedOnce == Spec => []NodesOnce
<1>1. PmInv => NodesOnce
  BY DEF PmInv, ListInv, NodesOnce
<1> QED BY <1>1, Invariance, PTL

\* If no noirq callback opens the interrupts, every device is up again when
\* pm_enter_mode returns, whatever failed in between.
THEOREM AllUp == Spec => []AllUpWhenBack
<1>1. PmInv => AllUpWhenBack
  BY DownForms DEF PmInv, ListInv, Phases, AllUpWhenBack
<1> QED BY <1>1, Invariance, PTL

\* If moreover no task preempts the suspending one between two callbacks, the
\* system never sleeps with a device up.
THEOREM AllDown == Spec => []AllDownWhenAsleep
<1>1. PmInv => AllDownWhenAsleep
  BY DEF PmInv, ListInv, Phases, DownAreListed, AllDownWhenAsleep
<1> QED BY <1>1, Invariance, PTL

\* If no noirq callback opens the interrupts, a device that is not given up is
\* resumed only when all those suspended after it have been.
THEOREM LatestFirst == Spec => ResumesLatestFirst
<1> DEFINE Latest ==
      \A n \in Node :
        InSeq(n, down) /\ ~InSeq(n, down') /\ Linked(n)' /\ "unmask" \notin misuse => n = Head(down)
<1>1. PmInv /\ [Next]_vars => [Latest]_vars
  <2> SUFFICES ASSUME PmInv, Untorn, NEW n \in Node,
                      InSeq(n, down), ~InSeq(n, down'), Linked(n)', "unmask" \notin misuse
               PROVE  n = Head(down)
    BY TornOrNot DEF Torn, Interrupt
  <2>0. /\ TypeOK /\ ListsProper /\ InHand /\ Phases /\ DownAreListed
        /\ dpm_suspended_list \in Seq(N0) /\ dpm_noirq_list \in Seq(N1) /\ dpm_list \in Seq(N0)
        /\ dpm_late_early_list \in Seq(N1) /\ down \in Seq(Node)
        /\ N0 \subseteq Node /\ N1 \subseteq Node
    BY DEF PmInv, ListInv, Untorn, TypeOK, N0, N1, Node
  <2>1. \A m : m # n => InSeq(n, Unlink(down, m))
    BY <2>0, UnlinkKeeps
  <2>2. \A m \in Node : InSeq(n, Downed(m))
    <3>1. ASSUME NEW m \in Node PROVE InSeq(n, Downed(m))
      <4>1. Unlink(down, m) \in Seq(Node)
        BY <2>0, UnlinkType
      <4>2. InSeq(n, <<m>> \o Unlink(down, m)) <=> n = m \/ InSeq(n, Unlink(down, m))
        BY <4>1, PushFacts
      <4> QED BY <2>1, <4>2 DEF Downed
    <3> QED BY <3>1
  <2>3. ASSUME NEW d \in Dev, Unregister(d) PROVE FALSE
    <3>1. RemoveNodes(d) /\ down' = Unlink(Unlink(down, <<d, 0>>), <<d, 1>>)
      BY <2>3 DEF Unregister
    <3>2. n = <<d, 0>> \/ n = <<d, 1>>
      <4>1. SUFFICES ASSUME n # <<d, 0>>, n # <<d, 1>> PROVE FALSE
        OBVIOUS
      <4>2. InSeq(n, Unlink(down, <<d, 0>>)) /\ Unlink(down, <<d, 0>>) \in Seq(Node)
        BY <2>0, <2>1, <4>1, UnlinkType
      <4>3. InSeq(n, Unlink(Unlink(down, <<d, 0>>), <<d, 1>>))
        BY <4>1, <4>2, UnlinkKeeps
      <4> QED BY <3>1, <4>3
    <3>3. /\ dpm_list' \in Seq(N0) /\ dpm_suspended_list' \in Seq(N0)
          /\ dpm_late_early_list' \in Seq(N1) /\ dpm_noirq_list' \in Seq(N1)
          /\ ~InSeq(<<d, 0>>, dpm_list') /\ ~InSeq(<<d, 0>>, dpm_suspended_list')
          /\ ~InSeq(<<d, 1>>, dpm_late_early_list') /\ ~InSeq(<<d, 1>>, dpm_noirq_list')
      BY <2>0, <3>1, RemovedNodes
    <3>4. <<d, 0>> \notin N1 /\ <<d, 1>> \notin N0
      BY DEF N0, N1
    <3>5. ~InSeq(<<d, 1>>, dpm_list') /\ ~InSeq(<<d, 1>>, dpm_suspended_list')
      BY <3>3, <3>4, ForeignElement
    <3>6. ~InSeq(<<d, 0>>, dpm_late_early_list') /\ ~InSeq(<<d, 0>>, dpm_noirq_list')
      BY <3>3, <3>4, ForeignElement
    <3> QED BY <3>2, <3>3, <3>5, <3>6 DEF Linked
  <2>4. CASE SuspendDone
    <3>1. cur \in Node /\ down' = Downed(cur)
      BY <2>0, <2>4 DEF SuspendDone, InHand, N0
    <3> QED BY <2>2, <3>1
  <2>5. CASE NoirqDone
    <3>1. dpm_late_early_list # <<>> /\ down' = Downed(Head(dpm_late_early_list))
      BY <2>5 DEF NoirqDone
    <3>2. Head(dpm_late_early_list) \in Node
      BY <2>0, <3>1, HeadTail
    <3> QED BY <2>2, <3>1, <3>2
  <2>6. CASE ResumeNoirq
    <3>1. /\ pc = "resume_noirq" /\ dpm_noirq_list # <<>>
          /\ down' = Unlink(down, Head(dpm_noirq_list))
      BY <2>6 DEF ResumeNoirq
    <3>2. n = Head(dpm_noirq_list)
      BY <2>1, <3>1
    <3>3. down = dpm_noirq_list \o dpm_suspended_list
      BY <2>0, <3>1, DownForms
    <3>4. /\ dpm_noirq_list \in Seq(Node) /\ dpm_suspended_list \in Seq(Node)
          /\ dpm_noirq_list = <<n>> \o Tail(dpm_noirq_list) /\ Tail(dpm_noirq_list) \in Seq(Node)
          /\ <<n>> \in Seq(Node)
      BY <2>0, <3>1, <3>2, HeadTail, SeqMonotonic
    <3>5. /\ down = <<n>> \o (Tail(dpm_noirq_list) \o dpm_suspended_list)
          /\ Tail(dpm_noirq_list) \o dpm_suspended_list \in Seq(Node)
      BY <3>3, <3>4, ConcatAssociative, ConcatFacts
    <3> QED BY <3>5, PushFacts
  <2>7. CASE ResumeReturn
    <3>1. pc = "resumecb" /\ down' = Unlink(down, cur)
      BY <2>7 DEF ResumeReturn
    <3>2. n = cur
      BY <2>1, <3>1
    <3>3. down = <<n>> \o dpm_suspended_list /\ dpm_suspended_list \in Seq(Node)
      BY <2>0, <3>1, <3>2, DownForms, SeqMonotonic
    <3> QED BY <3>3, PushFacts
  <2>8. down' = down \/ (\E d \in Dev : Unregister(d))
          \/ SuspendDone \/ NoirqDone \/ ResumeNoirq \/ ResumeReturn
    <3>1. ~NoirqUnmasked
      BY DEF NoirqUnmasked
    <3> QED BY <3>1 DEF Untorn, Suspending, Entering, Resuming, Register, Interrupt, EnterMode, SuspendCall,
              SuspendFail, SuspendAll, Mask, FirstCheck, NoirqFail, NoirqAll, LastCheck, Wake,
              ResumeNoirqAll, Unmask, ResumeCall, LeaveMode
  <2> QED BY <2>3, <2>4, <2>5, <2>6, <2>7, <2>8
<1>2. Spec => [][Latest]_vars
  BY <1>1, Invariance, PTL DEF Spec
<1> QED BY <1>2 DEF ResumesLatestFirst

\* No PM_BUG_ON loop is reached, whoever preempts the suspending task, if nobody
\* registers a device twice, no noirq callback opens the interrupts, and every mode
\* asked for has a supported mode at or below it.
THEOREM NeverHangs == Spec => []NoBug
<1>1. Init => NoBug
  BY DEF Init, NoBug
<1>2. PmInv /\ NoBug /\ [Next]_vars => NoBug'
  <2> SUFFICES ASSUME PmInv, pc # "bug", [Next]_vars,
                      misuse \cap {"unmask", "twice", "nomode"} = {}
               PROVE  pc' # "bug"
    BY TornOrNot DEF NoBug, vars
  <2>0. "unmask" \notin misuse /\ "twice" \notin misuse /\ "nomode" \notin misuse
    OBVIOUS
  <2>1. ASSUME NEW d \in Dev, Register(d) PROVE pc' # "bug"
    BY <2>0, <2>1 DEF Register
  <2>2. CASE EnterMode
    <3>1. PICK config \in Configs, state \in Requests :
            (\E s \in config : s <= state) /\ mode' = ModeUsed(config, state)
      BY <2>0, <2>2 DEF EnterMode
    <3>2. mode' \in config /\ config \subseteq Mode
      BY <3>1, DeepestMode, ModeAssumption
    <3> QED BY <2>2, <3>2 DEF EnterMode
  <2>3. CASE LeaveMode
    BY <2>3 DEF LeaveMode, PmInv, ListInv, WlanStaysOff
  <2>4. CASE Wake
    BY <2>0, <2>4 DEF Wake, PmInv, ListInv, DownAreListed
  <2>5. CASE UNCHANGED vars
    BY <2>5 DEF vars
  <2>6. CASE Next /\ ~EnterMode /\ ~LeaveMode /\ ~Wake /\ ~\E d \in Dev : Register(d)
    BY <2>6 DEF Next, TaskStep, Suspending, Entering, Resuming, Unregister, Torn, Interrupt, SuspendCall,
              SuspendDone, SuspendFail, SuspendAll, Mask, FirstCheck, NoirqFail, NoirqDone, NoirqUnmasked,
              NoirqAll, LastCheck, ResumeNoirq, ResumeNoirqAll, Unmask, ResumeCall, ResumeReturn
  <2> QED BY <2>1, <2>2, <2>3, <2>4, <2>5, <2>6
<1> QED BY <1>1, <1>2, Invariance, PTL DEF Spec

\* Each of the four lists holds nodes of its own kind only, also under misuse.
THEOREM TypeCorrect == Spec => []TypeOK
<1>1. PmInv => TypeOK
  BY DEF PmInv
<1>2. QED
  BY <1>1, Invariance, PTL

(***************************************************************************)
(* No device is dropped, and the suspending task advances.                 *)
(***************************************************************************)

\* A node that is moved is linked afterwards, and so are all the others.
LEMMA MoveKeeps ==
  ASSUME NEW S, NEW s \in Seq(S), NEW t \in Seq(S), NEW n \in S
  PROVE  \A m : InSeq(m, s) \/ InSeq(m, t) => InSeq(m, Unlink(s, n)) \/ InSeq(m, <<n>> \o t)
<1>1. \A m : InSeq(m, <<n>> \o t) <=> m = n \/ InSeq(m, t)
  BY PushFacts
<1>2. \A m : m # n => (InSeq(m, Unlink(s, n)) <=> InSeq(m, s))
  BY UnlinkKeeps
<1> QED BY <1>1, <1>2

\* Only pm_unregister_ops and the stop of the WLAN unlink a node for good.
LEMMA NothingDropped ==
  ASSUME TypeOK, ListsProper, InHand, Untorn
  PROVE  (\E d \in Dev : Unregister(d)) \/ EnterMode \/ \A n : Linked(n) => Linked(n)'
<1>0. /\ dpm_list \in Seq(N0) /\ dpm_suspended_list \in Seq(N0)
      /\ dpm_late_early_list \in Seq(N1) /\ dpm_noirq_list \in Seq(N1)
      /\ Distinct(dpm_suspended_list) /\ Distinct(dpm_late_early_list) /\ Distinct(dpm_noirq_list)
  BY DEF TypeOK, ListsProper, N0, N1
<1>1. ASSUME NEW d \in Dev, AddNodes(d) PROVE \A n : Linked(n) => Linked(n)'
  <2>1. \A n : InSeq(n, dpm_list) => InSeq(n, dpm_list')
    <3>1. CASE d \in Op0Dev
      <4>1. <<d, 0>> \in N0 /\ dpm_list' = <<<<d, 0>>>> \o dpm_list
        BY <1>1, <3>1 DEF AddNodes, Push, N0
      <4> QED BY <1>0, <4>1, PushFacts
    <3>2. CASE d \notin Op0Dev
      BY <1>1, <3>2 DEF AddNodes
    <3> QED BY <3>1, <3>2
  <2>2. \A n : InSeq(n, dpm_late_early_list) => InSeq(n, dpm_late_early_list')
    <3>1. CASE d \in Op1Dev
      <4>1. <<d, 1>> \in N1 /\ dpm_late_early_list' = <<<<d, 1>>>> \o dpm_late_early_list
        BY <1>1, <3>1 DEF AddNodes, Push, N1
      <4> QED BY <1>0, <4>1, PushFacts
    <3>2. CASE d \notin Op1Dev
      BY <1>1, <3>2 DEF AddNodes
    <3> QED BY <3>1, <3>2
  <2> QED BY <1>1, <2>1, <2>2 DEF AddNodes, Linked
<1>2. CASE \E d \in Dev : Register(d)
  <2>1. PICK d \in Dev : Register(d)
    BY <1>2
  <2> QED BY <1>1, <2>1 DEF Register, Linked, lists
<1>3. CASE LeaveMode
  <2>1. Wlan \in Dev
    BY DeviceAssumption DEF Dev
  <2> QED BY <1>1, <1>3, <2>1 DEF LeaveMode, Linked, lists
<1>4. CASE Interrupt \/ Quiet \/ SuspendCall \/ ResumeReturn
  BY <1>4 DEF Linked, lists, Interrupt, Quiet, SuspendCall, ResumeReturn, SuspendFail, SuspendAll, Mask,
              FirstCheck, NoirqFail, NoirqUnmasked, NoirqAll, LastCheck, Wake, ResumeNoirqAll, Unmask
<1>5. CASE SuspendDone
  <2>1. /\ cur \in N0 /\ dpm_list' = Unlink(dpm_list, cur)
        /\ dpm_suspended_list' = <<cur>> \o dpm_suspended_list
    BY <1>5 DEF SuspendDone, Push, InHand, N0
  <2>2. \A m : InSeq(m, dpm_list) \/ InSeq(m, dpm_suspended_list)
                 => InSeq(m, dpm_list') \/ InSeq(m, dpm_suspended_list')
    BY <1>0, <2>1, MoveKeeps
  <2> QED BY <1>5, <2>2 DEF SuspendDone, Linked
<1>6. CASE NoirqDone
  <2>1. /\ dpm_late_early_list # <<>> /\ dpm_late_early_list' = Tail(dpm_late_early_list)
        /\ dpm_noirq_list' = <<Head(dpm_late_early_list)>> \o dpm_noirq_list
    BY <1>6 DEF NoirqDone, Push
  <2>2. Head(dpm_late_early_list) \in N1
        /\ Tail(dpm_late_early_list) = Unlink(dpm_late_early_list, Head(dpm_late_early_list))
    BY <1>0, <2>1, HeadTail, MovedHead
  <2>3. \A m : InSeq(m, dpm_late_early_list) \/ InSeq(m, dpm_noirq_list)
                 => InSeq(m, dpm_late_early_list') \/ InSeq(m, dpm_noirq_list')
    BY <1>0, <2>1, <2>2, MoveKeeps
  <2> QED BY <1>6, <2>3 DEF NoirqDone, Linked
<1>7. CASE ResumeNoirq
  <2>1. /\ dpm_noirq_list # <<>> /\ dpm_noirq_list' = Tail(dpm_noirq_list)
        /\ dpm_late_early_list' = <<Head(dpm_noirq_list)>> \o dpm_late_early_list
    BY <1>7 DEF ResumeNoirq, Push
  <2>2. Head(dpm_noirq_list) \in N1
        /\ Tail(dpm_noirq_list) = Unlink(dpm_noirq_list, Head(dpm_noirq_list))
    BY <1>0, <2>1, HeadTail, MovedHead
  <2>3. \A m : InSeq(m, dpm_noirq_list) \/ InSeq(m, dpm_late_early_list)
                 => InSeq(m, dpm_noirq_list') \/ InSeq(m, dpm_late_early_list')
    BY <1>0, <2>1, <2>2, MoveKeeps
  <2> QED BY <1>7, <2>3 DEF ResumeNoirq, Linked
<1>8. CASE ResumeCall
  <2>1. /\ dpm_suspended_list # <<>> /\ dpm_suspended_list' = Tail(dpm_suspended_list)
        /\ dpm_list' = <<Head(dpm_suspended_list)>> \o dpm_list
    BY <1>8 DEF ResumeCall, Push
  <2>2. Head(dpm_suspended_list) \in N0
        /\ Tail(dpm_suspended_list) = Unlink(dpm_suspended_list, Head(dpm_suspended_list))
    BY <1>0, <2>1, HeadTail, MovedHead
  <2>3. \A m : InSeq(m, dpm_suspended_list) \/ InSeq(m, dpm_list)
                 => InSeq(m, dpm_suspended_list') \/ InSeq(m, dpm_list')
    BY <1>0, <2>1, <2>2, MoveKeeps
  <2> QED BY <1>8, <2>3 DEF ResumeCall, Linked
<1> QED BY NextCases, <1>2, <1>3, <1>4, <1>5, <1>6, <1>7, <1>8

\* Whatever fails, and whatever mode is asked for or callback misbehaves, every
\* registered device stays in one of the lists, where the next suspend or
\* resume finds it: only a change that falls into a list_move can drop one.
THEOREM DevicesKept == Spec => KeepsDevices
<1> DEFINE Kept ==
      \A n \in Node : Linked(n)' # Linked(n) =>
        \/ pc' = pc /\ (pc # "idle" => changes' = changes + 1)
        \/ n[1] = Wlan /\ alive' /\ mode' \in WlanOffModes /\ "idle" \in {pc, pc'}
<1>1. ASSUME PmInv, Untorn PROVE Kept
  <2> SUFFICES ASSUME NEW n \in Node, Linked(n)' # Linked(n)
               PROVE  \/ pc' = pc /\ (pc # "idle" => changes' = changes + 1)
                      \/ n[1] = Wlan /\ alive' /\ mode' \in WlanOffModes /\ "idle" \in {pc, pc'}
    OBVIOUS
  <2>0. TypeOK /\ ListsProper /\ InHand /\ Linked(n) \in BOOLEAN /\ Linked(n)' \in BOOLEAN
    BY <1>1 DEF PmInv, ListInv, Untorn, Linked, InSeq
  <2>1. ASSUME NEW d \in Dev, Register(d)
        PROVE  pc' = pc /\ (pc # "idle" => changes' = changes + 1)
    <3>1. ~UNCHANGED lists
      BY DEF lists, Linked
    <3> QED BY <2>1, <3>1 DEF Register, OthersRun
  <2>2. ASSUME NEW d \in Dev, Unregister(d)
        PROVE  pc' = pc /\ (pc # "idle" => changes' = changes + 1)
    BY <2>2 DEF Unregister, OthersRun
  <2>3. CASE EnterMode
    <3>1. ~UNCHANGED lists
      BY DEF lists, Linked
    <3>2. pc = "idle" /\ alive' /\ mode' \in WlanOffModes /\ RemoveNodes(Wlan)
      BY <2>3, <3>1 DEF EnterMode
    <3>3. n[1] = Wlan
      <4>1. SUFFICES ASSUME n[1] # Wlan PROVE FALSE
        OBVIOUS
      <4>2. n # <<Wlan, 0>> /\ n # <<Wlan, 1>>
        BY <4>1
      <4>3. Linked(n)' <=> Linked(n)
        <5>1. /\ dpm_list \in Seq(N0) /\ dpm_suspended_list \in Seq(N0)
              /\ dpm_late_early_list \in Seq(N1) /\ dpm_noirq_list \in Seq(N1)
          BY <2>0 DEF TypeOK, N0, N1
        <5>2. /\ InSeq(n, dpm_list') <=> InSeq(n, dpm_list)
              /\ InSeq(n, dpm_suspended_list') <=> InSeq(n, dpm_suspended_list)
          BY <3>2, <4>2, <5>1, UnlinkKeeps DEF RemoveNodes
        <5>3. /\ InSeq(n, dpm_late_early_list') <=> InSeq(n, dpm_late_early_list)
              /\ InSeq(n, dpm_noirq_list') <=> InSeq(n, dpm_noirq_list)
          BY <3>2, <4>2, <5>1, UnlinkKeeps DEF RemoveNodes
        <5> QED BY <5>2, <5>3 DEF Linked
      <4> QED BY <2>0, <4>3
    <3> QED BY <3>2, <3>3
  <2>4. CASE LeaveMode
    <3>1. ~UNCHANGED lists
      BY DEF lists, Linked
    <3>2. /\ pc' = "idle" /\ alive' /\ mode' \in WlanOffModes
          /\ ~Registered(Wlan) /\ AddNodes(Wlan)
      BY <2>4, <3>1 DEF LeaveMode
    <3>3. n[1] = Wlan
      <4>1. SUFFICES ASSUME n[1] # Wlan PROVE FALSE
        OBVIOUS
      <4>2. Wlan \in Dev /\ n # <<Wlan, 0>> /\ n # <<Wlan, 1>>
        BY <4>1, DeviceAssumption DEF Dev
      <4>3. Linked(n)' => Linked(n)
        BY <2>0, <3>2, <4>2, AddedNodes
      <4>4. ~(\E d \in Dev : Unregister(d)) /\ ~EnterMode
        BY <3>1, <3>2, <2>4 DEF Unregister, EnterMode, LeaveMode
      <4>5. Linked(n) => Linked(n)'
        BY <1>1, <2>0, <4>4, NothingDropped
      <4> QED BY <2>0, <4>3, <4>5
    <3> QED BY <3>2, <3>3
  <2>5. \/ \E d \in Dev : Register(d)
        \/ \E d \in Dev : Unregister(d)
        \/ EnterMode \/ LeaveMode
    <3>1. \/ \E d \in Dev : Register(d)
          \/ LeaveMode
          \/ Linked(n)' => Linked(n)
      BY <1>1, <2>0, NoNewLinks
    <3>2. \/ \E d \in Dev : Unregister(d)
          \/ EnterMode
          \/ Linked(n) => Linked(n)'
      BY <1>1, <2>0, NothingDropped
    <3> QED BY <2>0, <3>1, <3>2
  <2> QED BY <2>1, <2>2, <2>3, <2>4, <2>5
<1>2. ASSUME UNCHANGED vars PROVE Kept
  BY <1>2 DEF vars, lists, Linked
<1>3. PmInv /\ [Next]_vars => [pc' # "torn" => Kept]_vars
  <2> SUFFICES ASSUME PmInv, Next, pc' # "torn" PROVE Kept
    OBVIOUS
  <2>1. ASSUME NEW d \in Dev, Torn(d) PROVE FALSE
    BY <2>1 DEF Torn
  <2>2. ~(pc = "torn" /\ Interrupt)
    BY DEF Interrupt
  <2> QED BY <1>1, <2>1, <2>2, TornOrNot
<1>4. Spec => [][pc' # "torn" => Kept]_vars
  BY <1>3, Invariance, PTL DEF Spec
<1> QED BY <1>4 DEF KeepsDevices

\* Whatever fails and whenever the interrupts come, the suspending task runs
\* through its stages once, with two steps at most for each node in the list it works on.
THEOREM SuspendingEnds == Spec => SuspendAdvances
<1> DEFINE Nearer == Stage' > Stage \/ (Stage' = Stage /\ CallsLeft' < CallsLeft)
           Moves == pc \notin {"idle", "bug", "torn"} /\ changes' = changes /\ <<pc, lists>>' # <<pc, lists>>
<1>1. ASSUME PmInv, Untorn, Moves PROVE Nearer
  <2>0. /\ dpm_list \in Seq(N0) /\ dpm_suspended_list \in Seq(N0)
        /\ dpm_late_early_list \in Seq(N1) /\ dpm_noirq_list \in Seq(N1)
        /\ changes \in Nat /\ InHand
    BY <1>1, BoundAssumption DEF PmInv, ListInv, Untorn, TypeOK, N0, N1
  <2>1. \A S : \A s \in Seq(S) : Len(s) \in Nat
    BY LenProperties
  <2>2. /\ Len(dpm_list) \in Nat /\ Len(dpm_suspended_list) \in Nat
        /\ Len(dpm_late_early_list) \in Nat /\ Len(dpm_noirq_list) \in Nat
    BY <2>0, <2>1
  <2>3. \A S : \A s \in Seq(S) : s # <<>> => Len(Tail(s)) = Len(s) - 1
    BY HeadTailProperties
  <2>4. CASE SuspendCall
    BY <2>2, <2>4 DEF SuspendCall, Stage, CallsLeft, lists
  <2>5. CASE SuspendDone
    <3>1. Len(dpm_list') = Len(dpm_list) - 1
      BY <2>0, <2>5, UnlinkShape DEF SuspendDone, InHand
    <3> QED BY <2>2, <2>5, <3>1 DEF SuspendDone, Stage, CallsLeft
  <2>6. CASE NoirqDone
    <3>1. Len(dpm_late_early_list') = Len(dpm_late_early_list) - 1
      BY <2>0, <2>3, <2>6 DEF NoirqDone
    <3> QED BY <2>2, <2>6, <3>1 DEF NoirqDone, Stage, CallsLeft
  <2>7. CASE ResumeNoirq
    <3>1. Len(dpm_noirq_list') = Len(dpm_noirq_list) - 1
      BY <2>0, <2>3, <2>7 DEF ResumeNoirq
    <3> QED BY <2>2, <2>7, <3>1 DEF ResumeNoirq, Stage, CallsLeft
  <2>8. CASE ResumeCall
    <3>1. Len(dpm_suspended_list') = Len(dpm_suspended_list) - 1
      BY <2>0, <2>3, <2>8 DEF ResumeCall
    <3> QED BY <2>2, <2>8, <3>1 DEF ResumeCall, Stage, CallsLeft
  <2>9. CASE ResumeReturn
    BY <2>2, <2>9 DEF ResumeReturn, Stage, CallsLeft, lists
  <2>10. CASE Quiet
    BY <2>10 DEF Quiet, Stage, SuspendFail, SuspendAll, Mask,
              FirstCheck, NoirqFail, NoirqUnmasked, NoirqAll, LastCheck, Wake, ResumeNoirqAll, Unmask
  <2>11. CASE LeaveMode
    BY <2>11 DEF LeaveMode, Stage
  <2>12. ~(\E d \in Dev : Register(d)) /\ ~(\E d \in Dev : Unregister(d)) /\ ~Interrupt /\ ~EnterMode
    <3>1. ~OthersRun
      BY <1>1, <2>0 DEF OthersRun
    <3>2. ~Interrupt /\ ~EnterMode
      BY <1>1 DEF Interrupt, EnterMode
    <3> QED BY <3>1, <3>2 DEF Register, Unregister
  <2> QED BY <1>1, NextCases, <2>4, <2>5, <2>6, <2>7, <2>8, <2>9, <2>10, <2>11, <2>12
<1>2. PmInv /\ [Next]_vars => [Moves => Nearer]_vars
  <2> SUFFICES ASSUME PmInv, Next, Moves PROVE Nearer
    OBVIOUS
  <2>1. ASSUME NEW d \in Dev, Torn(d) PROVE FALSE
    <3>1. changes \in Nat
      BY BoundAssumption DEF PmInv, TypeOK
    <3> QED BY <2>1, <3>1 DEF Torn
  <2> QED BY <1>1, <2>1, TornOrNot
<1>3. Spec => [][Moves => Nearer]_vars
  BY <1>2, Invariance, PTL DEF Spec
<1> QED BY <1>3 DEF SuspendAdvances
=============================================================================
