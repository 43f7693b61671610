----------------------------- MODULE StackFacts ------------------------------
(***************************************************************************)
(* What the operators of Stacks do, for the proofs about the modules that  *)
(* use them.  Keep is recursive: that it picks out elements in order is    *)
(* shown by induction on the length, which rests on every nonempty set of  *)
(* naturals having a least element (the library's WFMin).                  *)
(***************************************************************************)
EXTENDS Stacks, WellFoundedInduction, TLAPS

(* A nonempty set of naturals has a least element.                         *)
LEMMA LeastNat ==
    ASSUME NEW T \in SUBSET Nat, T # {}
    PROVE  \E n \in T : \A m \in T : n <= m
<1>1. PICK R : /\ R = {ss \in Nat \X Nat : ss[1] < ss[2]}
               /\ IsWellFoundedOn(R, Nat)
  BY NatLessThanWellFounded, Zenon DEF OpToRel
<1>2. PICK n \in T : \A m \in T : ~(<<m, n>> \in R)
  BY <1>1, WFMin
<1>3. \A m \in T : <<m, n>> \in Nat \X Nat /\ (m < n => <<m, n>> \in R)
  BY <1>1
<1>4. \A m \in T : ~(m < n)
  BY <1>2, <1>3
<1> QED
  BY <1>4

(* Induction: a set that has 0, and n + 1 with n, has every natural.       *)
LEMMA SetInduction ==
    ASSUME NEW T, 0 \in T, \A n \in Nat : n \in T => n + 1 \in T
    PROVE  Nat \subseteq T
<1> SUFFICES ASSUME NEW x \in Nat, x \notin T
             PROVE  FALSE
  OBVIOUS
<1> DEFINE Bad == {n \in Nat : n \notin T}
<1>1. PICK n \in Bad : \A m \in Bad : n <= m
  BY LeastNat
<1>2. n # 0 /\ n - 1 \in Nat
  BY <1>1
<1>3. n - 1 \in T
  BY <1>1, <1>2
<1> QED
  BY <1>1, <1>2, <1>3

(* Keep's recursive function exists, so that it is what its definition     *)
(* says.                                                                   *)
KeepEqn(s, S, n, F) ==
    F = [i \in 0..n |-> IF i = 0 THEN <<>>
                        ELSE IF s[i] \in S THEN Append(F[i - 1], s[i])
                        ELSE F[i - 1]]

LEMMA KeepExists ==
    ASSUME NEW s, NEW S, NEW n \in Nat
    PROVE  \E F : KeepEqn(s, S, n, F)
<1> DEFINE Good == {m \in Nat : \E F : KeepEqn(s, S, m, F)}
<1>1. 0 \in Good
  <2> DEFINE F == [i \in 0..0 |-> <<>>]
  <2>1. KeepEqn(s, S, 0, F)
    BY DEF KeepEqn
  <2> QED
    BY <2>1
<1>2. ASSUME NEW m \in Nat, m \in Good
      PROVE  m + 1 \in Good
  <2>1. PICK F : KeepEqn(s, S, m, F)
    BY <1>2
  <2> DEFINE top == IF s[m + 1] \in S THEN Append(F[m], s[m + 1]) ELSE F[m]
             G == [i \in 0..(m + 1) |-> IF i = m + 1 THEN top ELSE F[i]]
             H == [i \in 0..(m + 1) |->
                     IF i = 0 THEN <<>>
                     ELSE IF s[i] \in S THEN Append(G[i - 1], s[i])
                     ELSE G[i - 1]]
  <2>2. \A i \in 0..m : F[i] = IF i = 0 THEN <<>>
                               ELSE IF s[i] \in S THEN Append(F[i - 1], s[i])
                               ELSE F[i - 1]
    BY <2>1 DEF KeepEqn
  <2>3. \A i \in 0..(m + 1) : G[i] = H[i]
    <3> SUFFICES ASSUME NEW i \in 0..(m + 1)
                 PROVE  G[i] = H[i]
      OBVIOUS
    <3>1. CASE i = 0
      BY <3>1, <2>2
    <3>2. CASE i = m + 1
      BY <3>2
    <3>3. CASE i \in 1..m
      <4>1. i - 1 \in 0..m /\ i - 1 # m + 1 /\ i # m + 1 /\ i # 0 /\ i \in 0..m
        BY <3>3
      <4>2. G[i] = F[i] /\ G[i - 1] = F[i - 1]
        BY <4>1
      <4> QED
        BY <2>2, <4>1, <4>2
    <3> QED
      BY <3>1, <3>2, <3>3
  <2>4. G = H
    BY <2>3
  <2>5. KeepEqn(s, S, m + 1, G)
    BY <2>4 DEF KeepEqn
  <2> QED
    BY <2>5
<1>3. Nat \subseteq Good
  BY <1>1, <1>2, SetInduction
<1> QED
  BY <1>3

(* Keep picks elements: at[k] is where the k-th of them is.                *)
Picks(at, n, s, S, t) ==
    /\ Len(t) <= n
    /\ at \in [1..Len(t) -> 1..n]
    /\ \A k \in 1..Len(t) : t[k] = s[at[k]] /\ s[at[k]] \in S
    /\ \A j, k \in 1..Len(t) : j < k => at[j] < at[k]
    /\ \A i \in 1..n : s[i] \in S => \E k \in 1..Len(t) : at[k] = i

(* Keep(s, S) holds the elements of s that are in S, in their order and    *)
(* nothing else.                                                           *)
LEMMA KeepPicks ==
    ASSUME NEW T, NEW s \in Seq(T), NEW S
    PROVE  /\ Keep(s, S) \in Seq(T)
           /\ \E at : Picks(at, Len(s), s, S, Keep(s, S))
<1> DEFINE F == CHOOSE F : KeepEqn(s, S, Len(s), F)
<1>1. KeepEqn(s, S, Len(s), F)
  BY KeepExists
<1>2. Keep(s, S) = F[Len(s)]
  BY DEF Keep, KeepEqn
<1> HIDE DEF F
<1>3. \A i \in 0..Len(s) : F[i] = IF i = 0 THEN <<>>
                                  ELSE IF s[i] \in S THEN Append(F[i - 1], s[i])
                                  ELSE F[i - 1]
  BY <1>1 DEF KeepEqn
<1> DEFINE Good == {n \in Nat : n <= Len(s) =>
                      /\ F[n] \in Seq(T)
                      /\ \E at : Picks(at, n, s, S, F[n])}
<1>4. 0 \in Good
  <2>1. F[0] = <<>>
    BY <1>3
  <2>2. Picks([k \in 1..0 |-> 0], 0, s, S, <<>>)
    BY DEF Picks
  <2>3. <<>> \in Seq(T) /\ 0 \in Nat
    OBVIOUS
  <2> QED
    BY <2>1, <2>2, <2>3
<1>5. ASSUME NEW n \in Nat, n \in Good
      PROVE  n + 1 \in Good
  <2> SUFFICES ASSUME n + 1 <= Len(s)
               PROVE  /\ F[n + 1] \in Seq(T)
                      /\ \E at : Picks(at, n + 1, s, S, F[n + 1])
    OBVIOUS
  <2>1. F[n] \in Seq(T)
    BY <1>5
  <2>2. PICK at : Picks(at, n, s, S, F[n])
    BY <1>5
  <2>3. n + 1 \in 1..Len(s) /\ s[n + 1] \in T /\ Len(F[n]) \in Nat
    BY <2>1
  <2>4. CASE s[n + 1] \in S
    <3> DEFINE t == Append(F[n], s[n + 1])
               to == [k \in 1..(Len(F[n]) + 1) |->
                        IF k = Len(F[n]) + 1 THEN n + 1 ELSE at[k]]
    <3>1. F[n + 1] = t
      <4>1. n + 1 \in 0..Len(s) /\ n + 1 # 0 /\ (n + 1) - 1 = n
        BY <2>3
      <4> QED
        BY <1>3, <4>1, <2>4
    <3>2. /\ t \in Seq(T) /\ Len(t) = Len(F[n]) + 1
          /\ t[Len(F[n]) + 1] = s[n + 1]
          /\ \A k \in 1..Len(F[n]) : t[k] = F[n][k]
      BY <2>1, <2>3
    <3> HIDE DEF t
    <3>3. to \in [1..Len(t) -> 1..(n + 1)]
      BY <2>2, <2>3, <3>2 DEF Picks
    <3>4. \A k \in 1..Len(t) : t[k] = s[to[k]] /\ s[to[k]] \in S
      BY <2>2, <2>3, <2>4, <3>2 DEF Picks
    <3>5. \A j, k \in 1..Len(t) : j < k => to[j] < to[k]
      <4> SUFFICES ASSUME NEW j \in 1..Len(t), NEW k \in 1..Len(t), j < k
                   PROVE  to[j] < to[k]
        OBVIOUS
      <4>0. j \in 1..Len(F[n]) /\ j # Len(F[n]) + 1 /\ j \in 1..(Len(F[n]) + 1)
        BY <2>3, <3>2
      <4>1. j \in 1..Len(F[n]) /\ to[j] = at[j] /\ at[j] \in 1..n
        BY <2>2, <4>0 DEF Picks
      <4>2. CASE k = Len(F[n]) + 1
        BY <4>1, <4>2, <3>2
      <4>3. CASE k # Len(F[n]) + 1
        <5>1. k \in 1..Len(F[n]) /\ to[k] = at[k]
          BY <2>3, <3>2, <4>3
        <5> QED
          BY <2>2, <4>1, <5>1 DEF Picks
      <4> QED
        BY <4>2, <4>3
    <3>6. \A i \in 1..(n + 1) : s[i] \in S => \E k \in 1..Len(t) : to[k] = i
      <4> SUFFICES ASSUME NEW i \in 1..(n + 1), s[i] \in S
                   PROVE  \E k \in 1..Len(t) : to[k] = i
        OBVIOUS
      <4>1. CASE i = n + 1
        BY <2>3, <3>2, <4>1
      <4>2. CASE i # n + 1
        <5>1. PICK k \in 1..Len(F[n]) : at[k] = i
          BY <2>2, <4>2 DEF Picks
        <5>2. k \in 1..Len(t) /\ to[k] = i
          BY <2>3, <3>2, <5>1
        <5> QED
          BY <5>2
      <4> QED
        BY <4>1, <4>2
    <3>7. Picks(to, n + 1, s, S, t)
      <4>1. Len(t) <= n + 1
        BY <2>2, <2>3, <3>2 DEF Picks
      <4> QED
        BY <4>1, <3>3, <3>4, <3>5, <3>6 DEF Picks
    <3> QED
      BY <3>1, <3>2, <3>7
  <2>5. CASE s[n + 1] \notin S
    <3>1. F[n + 1] = F[n]
      BY <1>3, <2>3, <2>5
    <3>2. Picks(at, n + 1, s, S, F[n])
      BY <2>2, <2>3, <2>5 DEF Picks
    <3> QED
      BY <2>1, <3>1, <3>2
  <2> QED
    BY <2>4, <2>5
<1>6. Nat \subseteq Good
  BY <1>4, <1>5, SetInduction
<1>7. Len(s) \in Nat /\ Len(s) \in Good
  BY <1>6
<1> QED
  BY <1>2, <1>7

(* So it has an element of s exactly if S has it.                          *)
LEMMA KeepItems ==
    ASSUME NEW T, NEW s \in Seq(T), NEW S
    PROVE  /\ Keep(s, S) \in Seq(T) /\ Len(Keep(s, S)) <= Len(s)
           /\ Items(Keep(s, S)) = Items(s) \intersect S
<1>1. Keep(s, S) \in Seq(T)
  BY KeepPicks
<1>2. PICK at : Picks(at, Len(s), s, S, Keep(s, S))
  BY KeepPicks
<1>3. ASSUME NEW x \in Items(Keep(s, S))
      PROVE  x \in Items(s) /\ x \in S
  <2>1. PICK k \in 1..Len(Keep(s, S)) : x = Keep(s, S)[k]
    BY <1>3 DEF Items
  <2>2. at[k] \in 1..Len(s) /\ x = s[at[k]] /\ x \in S
    BY <1>2, <2>1 DEF Picks
  <2> QED
    BY <2>2 DEF Items
<1>4. ASSUME NEW x \in Items(s), x \in S
      PROVE  x \in Items(Keep(s, S))
  <2>1. PICK i \in 1..Len(s) : x = s[i]
    BY <1>4 DEF Items
  <2>2. PICK k \in 1..Len(Keep(s, S)) : at[k] = i
    BY <1>2, <1>4, <2>1 DEF Picks
  <2>3. x = Keep(s, S)[k]
    BY <1>2, <2>1, <2>2 DEF Picks
  <2> QED
    BY <2>3 DEF Items
<1>5. Len(Keep(s, S)) <= Len(s)
  BY <1>2 DEF Picks
<1> QED
  BY <1>1, <1>3, <1>4, <1>5

(* x comes before y in s.                                                  *)
InOrder(s, x, y) == \E a, b \in 1..Len(s) : a < b /\ s[a] = x /\ s[b] = y

(* Two elements that are kept keep their order, and two that come out in   *)
(* some order were in that order before.                                   *)
LEMMA KeepOrder ==
    ASSUME NEW T, NEW s \in Seq(T), NEW S, NEW x, NEW y
    PROVE  InOrder(Keep(s, S), x, y)
           <=> x \in S /\ y \in S /\ InOrder(s, x, y)
<1> DEFINE t == Keep(s, S)
<1>1. PICK at : Picks(at, Len(s), s, S, t)
  BY KeepPicks
<1>2. t \in Seq(T)
  BY KeepPicks
<1> HIDE DEF t
<1>3. ASSUME NEW j \in 1..Len(t), NEW k \in 1..Len(t), j < k,
             t[j] = x, t[k] = y
      PROVE  /\ x \in S /\ y \in S
             /\ \E a, b \in 1..Len(s) : a < b /\ s[a] = x /\ s[b] = y
  <2>1. /\ at[j] \in 1..Len(s) /\ at[k] \in 1..Len(s) /\ at[j] < at[k]
        /\ s[at[j]] = x /\ s[at[k]] = y /\ x \in S /\ y \in S
    BY <1>1, <1>3 DEF Picks
  <2> QED
    BY <2>1
<1>4. ASSUME x \in S, y \in S,
             NEW a \in 1..Len(s), NEW b \in 1..Len(s), a < b,
             s[a] = x, s[b] = y
      PROVE  \E j, k \in 1..Len(t) : j < k /\ t[j] = x /\ t[k] = y
  <2>1. PICK j \in 1..Len(t) : at[j] = a
    BY <1>1, <1>4 DEF Picks
  <2>2. PICK k \in 1..Len(t) : at[k] = b
    BY <1>1, <1>4 DEF Picks
  <2>3. ~(k < j) /\ j # k
    BY <1>1, <1>4, <2>1, <2>2 DEF Picks
  <2>4. j < k
    BY <2>3, <1>2
  <2>5. t[j] = x /\ t[k] = y
    BY <1>1, <1>4, <2>1, <2>2 DEF Picks
  <2> QED
    BY <2>4, <2>5
<1> QED
  BY <1>3, <1>4 DEF t, InOrder

(***************************************************************************)
(* Pushing and popping.                                                    *)
(***************************************************************************)

LEMMA PushFacts ==
    ASSUME NEW T, NEW s \in Seq(T), NEW x \in T
    PROVE  /\ Append(s, x) \in Seq(T)
           /\ Len(Append(s, x)) = Len(s) + 1 /\ Len(s) \in Nat
           /\ \A k \in 1..Len(s) : Append(s, x)[k] = s[k]
           /\ Append(s, x)[Len(s) + 1] = x
           /\ Items(Append(s, x)) = Items(s) \union {x}
           /\ Append(s, x) # <<>>
           /\ Last(Append(s, x)) = x
<1>1. /\ Append(s, x) \in Seq(T)
      /\ Len(Append(s, x)) = Len(s) + 1 /\ Len(s) \in Nat
      /\ \A k \in 1..Len(s) : Append(s, x)[k] = s[k]
      /\ Append(s, x)[Len(s) + 1] = x
  OBVIOUS
<1>2. Items(Append(s, x)) = Items(s) \union {x}
  BY <1>1 DEF Items
<1>3. Append(s, x) # <<>> /\ Last(Append(s, x)) = x
  BY <1>1 DEF Last
<1> QED
  BY <1>1, <1>2, <1>3

LEMMA PopFacts ==
    ASSUME NEW T, NEW s \in Seq(T), s # <<>>
    PROVE  /\ Front(s) \in Seq(T)
           /\ Len(Front(s)) = Len(s) - 1 /\ Len(s) \in Nat \ {0}
           /\ \A k \in 1..(Len(s) - 1) : Front(s)[k] = s[k]
           /\ Items(s) = Items(Front(s)) \union {Last(s)}
           /\ Last(s) \in T
<1>1. Len(s) \in Nat /\ Len(s) # 0 /\ Last(s) \in T
  BY DEF Last
<1>2. /\ Front(s) \in [1..(Len(s) - 1) -> T]
      /\ \A k \in 1..(Len(s) - 1) : Front(s)[k] = s[k]
  BY <1>1 DEF Front
<1>4. Front(s) \in Seq(T) /\ Len(Front(s)) = Len(s) - 1
  BY <1>1, <1>2
<1>3. Items(s) = Items(Front(s)) \union {Last(s)}
  BY <1>1, <1>2, <1>4 DEF Items, Last
<1> QED
  BY <1>1, <1>2, <1>3, <1>4

LEMMA RemoveFacts ==
    ASSUME NEW T, NEW s \in Seq(T), NEW k \in 1..Len(s)
    PROVE  /\ Remove(s, k) \in Seq(T)
           /\ Len(Remove(s, k)) = Len(s) - 1
           /\ Items(Remove(s, k)) \subseteq Items(s)
<1>1. Len(s) \in Nat /\ Len(s) - 1 \in Nat
  OBVIOUS
<1>2. \A i \in 1..(Len(s) - 1) :
          /\ Remove(s, k)[i] \in T
          /\ \E j \in 1..Len(s) : Remove(s, k)[i] = s[j]
  <2> SUFFICES ASSUME NEW i \in 1..(Len(s) - 1)
               PROVE  \E j \in 1..Len(s) : Remove(s, k)[i] = s[j]
    OBVIOUS
  <2>1. i \in 1..Len(s) /\ i + 1 \in 1..Len(s)
    BY <1>1
  <2> QED
    BY <2>1 DEF Remove
<1>3. Remove(s, k) \in [1..(Len(s) - 1) -> T]
  BY <1>2 DEF Remove
<1>4. Remove(s, k) \in Seq(T) /\ Len(Remove(s, k)) = Len(s) - 1
  BY <1>1, <1>3
<1> QED
  BY <1>2, <1>4 DEF Items

(* Keeping everything changes nothing.                                     *)
LEMMA KeepAll ==
    ASSUME NEW T, NEW s \in Seq(T), NEW S, Items(s) \subseteq S
    PROVE  Keep(s, S) = s
<1> DEFINE F == CHOOSE F : KeepEqn(s, S, Len(s), F)
<1>1. KeepEqn(s, S, Len(s), F)
  BY KeepExists
<1>2. Keep(s, S) = F[Len(s)]
  BY DEF Keep, KeepEqn
<1> HIDE DEF F
<1>3. \A i \in 0..Len(s) : F[i] = IF i = 0 THEN <<>>
                                  ELSE IF s[i] \in S THEN Append(F[i - 1], s[i])
                                  ELSE F[i - 1]
  BY <1>1 DEF KeepEqn
<1> DEFINE Good == {n \in Nat : n <= Len(s) =>
                      /\ F[n] \in Seq(T) /\ Len(F[n]) = n
                      /\ \A i \in 1..n : F[n][i] = s[i]}
<1>4. 0 \in Good
  <2>1. F[0] = <<>>
    BY <1>3
  <2>2. <<>> \in Seq(T) /\ Len(<<>>) = 0 /\ 1..0 = {}
    OBVIOUS
  <2> QED
    BY <2>1, <2>2
<1>5. ASSUME NEW n \in Nat, n \in Good
      PROVE  n + 1 \in Good
  <2> SUFFICES ASSUME n + 1 <= Len(s)
               PROVE  /\ F[n + 1] \in Seq(T) /\ Len(F[n + 1]) = n + 1
                      /\ \A i \in 1..(n + 1) : F[n + 1][i] = s[i]
    OBVIOUS
  <2>1. n + 1 \in 1..Len(s) /\ s[n + 1] \in T /\ s[n + 1] \in S
    BY DEF Items
  <2>2. /\ F[n] \in Seq(T) /\ Len(F[n]) = n
        /\ \A i \in 1..n : F[n][i] = s[i]
    BY <1>5, <2>1
  <2>3. F[n + 1] = Append(F[n], s[n + 1])
    <3>1. n + 1 \in 0..Len(s) /\ n + 1 # 0 /\ (n + 1) - 1 = n
      BY <2>1
    <3> QED
      BY <1>3, <2>1, <3>1
  <2> QED
    BY <2>1, <2>2, <2>3
<1>6. Nat \subseteq Good
  BY <1>4, <1>5, SetInduction
<1>7. Len(s) \in Nat /\ Len(s) \in Good
  BY <1>6
<1> QED
  BY <1>2, <1>7

LEMMA ItemFacts ==
    ASSUME NEW T, NEW s \in Seq(T)
    PROVE  /\ Items(s) \subseteq T
           /\ \A k \in 1..Len(s) : s[k] \in T /\ s[k] \in Items(s)
           /\ Items(<<>>) = {}
           /\ s # <<>> <=> Items(s) # {}
  BY DEF Items

(* The first n elements.                                                   *)
LEMMA PrefixFacts ==
    ASSUME NEW T, NEW s \in Seq(T), NEW n \in 0..Len(s)
    PROVE  /\ Prefix(s, n) \in Seq(T)
           /\ Len(Prefix(s, n)) = n
           /\ \A k \in 1..n : Prefix(s, n)[k] = s[k]
           /\ Items(Prefix(s, n)) \subseteq Items(s)
<1>1. Len(s) \in Nat /\ n \in Nat
  OBVIOUS
<1>2. /\ Prefix(s, n) \in [1..n -> T]
      /\ \A k \in 1..n : Prefix(s, n)[k] = s[k]
  BY <1>1 DEF Prefix
<1>3. Prefix(s, n) \in Seq(T) /\ Len(Prefix(s, n)) = n
  BY <1>1, <1>2
<1> QED
  BY <1>1, <1>2, <1>3 DEF Items
=============================================================================
