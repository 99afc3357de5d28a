----------------------------- MODULE ListLemmas ------------------------------
(***************************************************************************)
(* What the list operations do to the members of a list without repeated   *)
(* elements.  The proofs about the scheduler, the locks, the I/O queue and *)
(* the processes rest on these.                                            *)
(***************************************************************************)
EXTENDS TaskList, SequenceTheorems, TLAPS

\* A list with no element has no member (list.c:57-60).
LEMMA EmptyRange ==
    \A s : s = <<>> => Range(s) = {}
BY DEF Range

\* A list with one element has one member.
LEMMA SingletonRange ==
    ASSUME NEW e
    PROVE  Range(<<e>>) = {e}
<1>1. DOMAIN <<e>> = {1} /\ <<e>>[1] = e
  OBVIOUS
<1> QED BY <1>1 DEF Range

\* list_append of an element that is not linked yet (list.c:30-33).
LEMMA AppendFresh ==
    ASSUME NEW S, NEW s \in Seq(S), NEW e \in S,
           ListDistinct(s), e \notin Range(s)
    PROVE  /\ ListAppend(s, e) \in Seq(S)
           /\ ListAppend(s, e) # <<>>
           /\ ListDistinct(ListAppend(s, e))
           /\ Range(ListAppend(s, e)) = Range(s) \cup {e}
<1> DEFINE t == ListAppend(s, e)
<1>1. /\ t \in Seq(S) /\ t # <<>>
      /\ Len(t) = Len(s) + 1
      /\ \A i \in 1..Len(s) : t[i] = s[i]
      /\ t[Len(s) + 1] = e
  BY AppendProperties DEF ListAppend
<1>2. DOMAIN s = 1..Len(s) /\ DOMAIN t = 1..(Len(s) + 1) /\ Len(s) \in Nat
  BY <1>1, LenProperties
<1>3. \A i \in 1..Len(s) : s[i] # e
  BY <1>2 DEF Range
<1>4. ListDistinct(t)
  BY <1>1, <1>2, <1>3 DEF ListDistinct, IsInjective
<1>5. Range(t) = Range(s) \cup {e}
  <2>1. ASSUME NEW x \in Range(t) PROVE x \in Range(s) \cup {e}
    BY <1>1, <1>2 DEF Range
  <2>2. ASSUME NEW x \in Range(s) \cup {e} PROVE x \in Range(t)
    BY <1>1, <1>2 DEF Range
  <2> QED BY <2>1, <2>2
<1> QED BY <1>1, <1>4, <1>5

\* list_push of an element that is not linked yet (list.c:36-39).
LEMMA PushFresh ==
    ASSUME NEW S, NEW s \in Seq(S), NEW e \in S,
           ListDistinct(s), e \notin Range(s)
    PROVE  /\ ListPush(s, e) \in Seq(S)
           /\ ListPush(s, e) # <<>>
           /\ ListDistinct(ListPush(s, e))
           /\ Range(ListPush(s, e)) = Range(s) \cup {e}
<1> DEFINE t == ListPush(s, e)
<1>1. /\ t \in Seq(S) /\ t # <<>>
      /\ Len(t) = Len(s) + 1
      /\ t[1] = e
      /\ \A i \in 1..Len(s) : t[i + 1] = s[i]
  BY DEF ListPush
<1>2. DOMAIN s = 1..Len(s) /\ DOMAIN t = 1..(Len(s) + 1) /\ Len(s) \in Nat
  BY <1>1, LenProperties
<1>3. \A i \in 1..Len(s) : s[i] # e
  BY <1>2 DEF Range
<1>4. \A i \in DOMAIN t : i = 1 \/ (i - 1 \in 1..Len(s) /\ t[i] = s[i - 1])
  BY <1>1, <1>2
<1>5. ListDistinct(t)
  BY <1>1, <1>2, <1>3, <1>4 DEF ListDistinct, IsInjective
<1>6. Range(t) = Range(s) \cup {e}
  <2>1. ASSUME NEW x \in Range(t) PROVE x \in Range(s) \cup {e}
    BY <1>1, <1>2, <1>4 DEF Range
  <2>2. ASSUME NEW x \in Range(s) PROVE x \in Range(t)
    <3>1. PICK i \in 1..Len(s) : x = s[i]
      BY <1>2 DEF Range
    <3>2. i + 1 \in DOMAIN t /\ t[i + 1] = x
      BY <1>1, <1>2, <3>1
    <3> QED BY <3>2 DEF Range
  <2>3. e \in Range(t)
    BY <1>1, <1>2 DEF Range
  <2> QED BY <2>1, <2>2, <2>3
<1> QED BY <1>1, <1>5, <1>6

\* list_pop of a list that is not empty (list.c:42-54).
LEMMA PopDistinct ==
    ASSUME NEW S, NEW s \in Seq(S), s # <<>>, ListDistinct(s)
    PROVE  /\ Head(s) \in S
           /\ Head(s) \in Range(s)
           /\ Tail(s) \in Seq(S)
           /\ ListDistinct(Tail(s))
           /\ Range(Tail(s)) = Range(s) \ {Head(s)}
<1> DEFINE t == Tail(s)
<1>1. /\ Head(s) \in S /\ t \in Seq(S)
      /\ Len(t) = Len(s) - 1
      /\ \A i \in 1..Len(t) : t[i] = s[i + 1]
  BY HeadTailProperties
<1>2. /\ DOMAIN s = 1..Len(s) /\ DOMAIN t = 1..(Len(s) - 1)
      /\ Len(s) \in Nat /\ Len(s) > 0 /\ Head(s) = s[1]
  BY <1>1, LenProperties, EmptySeq
<1>3. Head(s) \in Range(s)
  BY <1>2 DEF Range
<1>4. ListDistinct(t)
  BY <1>1, <1>2 DEF ListDistinct, IsInjective
<1>5. Range(t) = Range(s) \ {Head(s)}
  <2>1. ASSUME NEW x \in Range(t) PROVE x \in Range(s) \ {Head(s)}
    BY <1>1, <1>2 DEF Range, ListDistinct, IsInjective
  <2>2. ASSUME NEW x \in Range(s) \ {Head(s)} PROVE x \in Range(t)
    <3>1. PICK i \in 1..Len(s) : x = s[i]
      BY <1>2 DEF Range
    <3>2. i - 1 \in DOMAIN t /\ t[i - 1] = x
      BY <1>1, <1>2, <3>1
    <3> QED BY <3>2 DEF Range
  <2> QED BY <2>1, <2>2
<1> QED BY <1>1, <1>3, <1>4, <1>5

\* list_find fails for an element that is not linked, so nothing is removed.
LEMMA DropAbsent ==
    ASSUME NEW s, NEW e, e \notin Range(s)
    PROVE  ListDrop(s, e) = s
BY DEF ListDrop

\* Where an element is linked.
Position(s, e) == CHOOSE i \in DOMAIN s : s[i] = e

\* A member of a list without repeated elements has one place in it.
LEMMA PositionOf ==
    ASSUME NEW S, NEW s \in Seq(S), ListDistinct(s), NEW e \in Range(s)
    PROVE  /\ Position(s, e) \in 1..Len(s)
           /\ s[Position(s, e)] = e
           /\ \A i \in 1..Len(s) : s[i] = e => i = Position(s, e)
<1>1. DOMAIN s = 1..Len(s)
  BY LenProperties
<1>2. PICK i \in 1..Len(s) : s[i] = e
  BY <1>1 DEF Range
<1>3. Position(s, e) \in 1..Len(s) /\ s[Position(s, e)] = e
  BY <1>1, <1>2 DEF Position
<1>4. \A j \in 1..Len(s) : s[j] = e => j = Position(s, e)
  BY <1>1, <1>3 DEF ListDistinct, IsInjective
<1> QED BY <1>3, <1>4

\* list_append leaves everybody where it is.
LEMMA AppendPosition ==
    ASSUME NEW S, NEW s \in Seq(S), NEW e \in S, ListDistinct(s), e \notin Range(s)
    PROVE  /\ \A x \in Range(s) : Position(ListAppend(s, e), x) = Position(s, x)
           /\ \A x \in Range(s) : Position(s, x) < Position(ListAppend(s, e), e)
<1> DEFINE t == ListAppend(s, e)
<1>1. t \in Seq(S) /\ ListDistinct(t) /\ Range(t) = Range(s) \cup {e}
  BY AppendFresh
<1>2. /\ Len(t) = Len(s) + 1 /\ Len(s) \in Nat
      /\ \A i \in 1..Len(s) : t[i] = s[i]
      /\ t[Len(s) + 1] = e
  BY AppendProperties, LenProperties DEF ListAppend
<1> HIDE DEF t
<1>3. Position(t, e) = Len(s) + 1
  <2>1. Len(s) + 1 \in 1..Len(t)
    BY <1>2
  <2> QED BY <1>1, <1>2, <2>1, PositionOf
<1>4. ASSUME NEW x \in Range(s)
      PROVE  Position(t, x) = Position(s, x) /\ Position(s, x) \in 1..Len(s)
  <2>1. Position(s, x) \in 1..Len(s) /\ s[Position(s, x)] = x
    BY PositionOf
  <2>2. Position(s, x) \in 1..Len(t) /\ t[Position(s, x)] = x
    BY <1>2, <2>1
  <2>3. x \in Range(t)
    BY <1>1
  <2> QED BY <1>1, <2>1, <2>2, <2>3, PositionOf
<1> QED BY <1>2, <1>3, <1>4 DEF t

\* list_find and list_remove take one element out and keep the order of the others.
LEMMA DropPresent ==
    ASSUME NEW S, NEW s \in Seq(S), NEW e \in Range(s), ListDistinct(s)
    PROVE  /\ ListDrop(s, e) \in Seq(S)
           /\ ListDistinct(ListDrop(s, e))
           /\ Range(ListDrop(s, e)) = Range(s) \ {e}
           /\ \A x, y \in Range(s) \ {e} :
                 Position(ListDrop(s, e), x) < Position(ListDrop(s, e), y)
                    <=> Position(s, x) < Position(s, y)
<1> DEFINE p == Position(s, e)
           t == ListDrop(s, e)
           n == Len(s)
           Old(j) == IF j < p THEN j ELSE j + 1
<1>1. n \in Nat /\ DOMAIN s = 1..n
  BY LenProperties
<1>2. p \in 1..n /\ s[p] = e /\ \A i \in 1..n : s[i] = e => i = p
  BY PositionOf
<1>3. t = SubSeq(s, 1, p - 1) \o SubSeq(s, p + 1, n)
  BY DEF ListDrop, Position
<1> HIDE DEF p, t, n
<1>4. /\ t \in Seq(S) /\ Len(t) = n - 1
      /\ \A j \in 1..(n - 1) : t[j] = s[Old(j)]
  <2>1. /\ SubSeq(s, 1, p - 1) \in Seq(S) /\ Len(SubSeq(s, 1, p - 1)) = p - 1
        /\ \A j \in 1..(p - 1) : SubSeq(s, 1, p - 1)[j] = s[j]
    BY <1>1, <1>2 DEF n
  <2>2. /\ SubSeq(s, p + 1, n) \in Seq(S) /\ Len(SubSeq(s, p + 1, n)) = n - p
        /\ \A j \in 1..(n - p) : SubSeq(s, p + 1, n)[j] = s[p + j]
    <3>1. \A i \in (p + 1)..n : i \in 1..n
      BY <1>1, <1>2
    <3>2. \A i \in (p + 1)..n : s[i] \in S
      BY <3>1, ElementOfSeq DEF n
    <3>3. SubSeq(s, p + 1, n) = [j \in 1..(n - p) |-> s[p + j]]
      BY <1>1, <1>2
    <3>4. \A j \in 1..(n - p) : s[p + j] \in S
      BY <1>1, <1>2, <3>2
    <3> QED BY <1>1, <1>2, <3>3, <3>4
  <2> DEFINE u == SubSeq(s, 1, p - 1)
             v == SubSeq(s, p + 1, n)
  <2> HIDE DEF u, v
  <2>3. /\ u \o v \in Seq(S) /\ Len(u \o v) = (p - 1) + (n - p)
        /\ \A j \in 1..(p - 1) : (u \o v)[j] = u[j]
        /\ \A j \in p..(n - 1) : (u \o v)[j] = v[j - (p - 1)]
    <3>1. /\ u \o v \in Seq(S) /\ Len(u \o v) = Len(u) + Len(v)
          /\ \A i \in 1..(Len(u) + Len(v)) :
                (u \o v)[i] = IF i <= Len(u) THEN u[i] ELSE v[i - Len(u)]
      BY <2>1, <2>2, ConcatProperties DEF u, v
    <3>2. Len(u) = p - 1 /\ Len(v) = n - p
      BY <2>1, <2>2 DEF u, v
    <3> QED BY <1>1, <1>2, <3>1, <3>2
  <2>4. t = u \o v
    BY <1>3 DEF u, v
  <2>5. /\ \A j \in 1..(p - 1) : u[j] = s[j]
        /\ \A j \in 1..(n - p) : v[j] = s[p + j]
    BY <2>1, <2>2 DEF u, v
  <2>6. \A j \in 1..(n - 1) : t[j] = s[Old(j)]
    <3> SUFFICES ASSUME NEW j \in 1..(n - 1) PROVE t[j] = s[Old(j)]
      OBVIOUS
    <3>1. CASE j < p
      BY <1>1, <1>2, <2>3, <2>4, <2>5, <3>1
    <3>2. CASE ~(j < p)
      <4>1. j \in p..(n - 1) /\ j - (p - 1) \in 1..(n - p) /\ p + (j - (p - 1)) = j + 1
        BY <1>1, <1>2, <3>2
      <4>2. t[j] = s[p + (j - (p - 1))]
        BY <2>3, <2>4, <2>5, <4>1
      <4> QED BY <3>2, <4>1, <4>2
    <3> QED BY <3>1, <3>2
  <2>7. (p - 1) + (n - p) = n - 1
    BY <1>1, <1>2
  <2> QED BY <2>3, <2>4, <2>6, <2>7
<1>5. DOMAIN t = 1..(n - 1)
  BY <1>4, LenProperties
<1>6. \A j \in 1..(n - 1) : Old(j) \in 1..n /\ Old(j) # p
  BY <1>1, <1>2
<1>7. \A i, j \in 1..(n - 1) : /\ Old(i) = Old(j) => i = j
                               /\ Old(i) < Old(j) <=> i < j
  BY <1>1, <1>2
<1>8. \A i \in 1..n : i # p => \E j \in 1..(n - 1) : Old(j) = i
  <2> SUFFICES ASSUME NEW i \in 1..n, i # p PROVE \E j \in 1..(n - 1) : Old(j) = i
    OBVIOUS
  <2>1. CASE i < p
    BY <1>1, <1>2, <2>1
  <2>2. CASE i > p
    <3>1. i - 1 \in 1..(n - 1) /\ Old(i - 1) = i
      BY <1>1, <1>2, <2>2
    <3> QED BY <3>1
  <2> QED BY <1>1, <1>2, <2>1, <2>2
<1> HIDE DEF Old
<1>9. ListDistinct(t)
  <2>1. \A i, j \in 1..n : s[i] = s[j] => i = j
    BY <1>1 DEF ListDistinct, IsInjective
  <2> QED BY <1>4, <1>5, <1>6, <1>7, <2>1 DEF ListDistinct, IsInjective
<1>10. Range(t) = Range(s) \ {e}
  <2>1. ASSUME NEW x \in Range(t) PROVE x \in Range(s) \ {e}
    BY <1>1, <1>2, <1>4, <1>5, <1>6, <2>1 DEF Range
  <2>2. ASSUME NEW x \in Range(s) \ {e} PROVE x \in Range(t)
    <3>1. PICK i \in 1..n : s[i] = x /\ i # p
      BY <1>1, <1>2, <2>2 DEF Range
    <3>2. PICK j \in 1..(n - 1) : Old(j) = i
      BY <1>8, <3>1
    <3> QED BY <1>4, <1>5, <3>1, <3>2 DEF Range
  <2> QED BY <2>1, <2>2
<1>11. ASSUME NEW x \in Range(s) \ {e}
       PROVE  /\ Position(t, x) \in 1..(n - 1)
              /\ Position(s, x) = Old(Position(t, x))
  <2>1. x \in Range(t)
    BY <1>10
  <2>2. Position(t, x) \in 1..(n - 1) /\ t[Position(t, x)] = x
    BY <1>4, <1>9, <2>1, PositionOf
  <2>3. Old(Position(t, x)) \in 1..n /\ s[Old(Position(t, x))] = x
    BY <1>4, <1>6, <2>2
  <2> QED BY <2>2, <2>3, PositionOf DEF n
<1>12. \A x, y \in Range(s) \ {e} : Position(t, x) < Position(t, y)
                                       <=> Position(s, x) < Position(s, y)
  BY <1>7, <1>11
<1> QED BY <1>4, <1>9, <1>10, <1>12 DEF t
=============================================================================
