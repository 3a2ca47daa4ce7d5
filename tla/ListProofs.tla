----------------------------- MODULE ListProofs -----------------------------
(* Facts about numbers and lists the other proofs need.                    *)
EXTENDS Lists, Functions, SequenceTheorems, WellFoundedInduction, TLAPS

(* The least number with a property that some number has. *)
LEMMA LeastNumber ==
  ASSUME NEW T \in SUBSET Nat, T # {}
  PROVE  \E n \in T : \A m \in T : ~(m < n)
<1>. DEFINE Less == OpToRel(<, Nat)
<1>1. \E n \in T : \A m \in T : <<m, n>> \notin Less
  <2>. HIDE DEF Less
  <2>1. IsWellFoundedOn(Less, Nat)
    BY NatLessThanWellFounded DEF Less
  <2>. QED  BY <2>1, WFMin
<1>2. \A m, n \in Nat : m < n => <<m, n>> \in Less
  BY DEF OpToRel
<1>. QED  BY <1>1, <1>2

(* Induction over an initial part of the numbers, the property given as    *)
(* the set of the numbers that have it.                                    *)
LEMMA UpTo ==
  ASSUME NEW N \in Nat, NEW P, 0 \in P,
         \A i \in 0 .. N : i \in P /\ i < N => i + 1 \in P
  PROVE  \A i \in 0 .. N : i \in P
<1>. DEFINE T == {i \in 0 .. N : i \notin P}
<1>. SUFFICES ASSUME T # {}  PROVE FALSE
  OBVIOUS
<1>1. PICK n \in T : \A m \in T : ~(m < n)
  <2>1. T \in SUBSET Nat
    OBVIOUS
  <2>. HIDE DEF T
  <2>. QED  BY <2>1, LeastNumber
<1>2. n # 0 /\ n - 1 \in 0 .. N /\ n - 1 \in P
  BY <1>1
<1>. QED  BY <1>1, <1>2

(* What is in a list after one more element is pushed. *)
LEMMA RangeAppend ==
  ASSUME NEW S, NEW s \in Seq(S), NEW x \in S
  PROVE  Range(Append(s, x)) = Range(s) \cup {x}
<1>1. Range(s) \cup {x} \subseteq Range(Append(s, x))
  <2>1. \A i \in DOMAIN s :
          i \in DOMAIN Append(s, x) /\ Append(s, x)[i] = s[i]
    OBVIOUS
  <2>2. Len(s) + 1 \in DOMAIN Append(s, x) /\ Append(s, x)[Len(s) + 1] = x
    OBVIOUS
  <2>. QED  BY <2>1, <2>2 DEF Range
<1>. QED  BY <1>1 DEF Range

-----------------------------------------------------------------------------
(* The recursive definition of Selected has a solution. *)
LEMMA SelectedExists ==
  ASSUME NEW D, NEW s \in Seq(D), NEW S
  PROVE  \E f : f = [i \in 0 .. Len(s) |->
                       IF i = 0 THEN <<>>
                       ELSE IF s[i] \in S THEN Append(f[i - 1], s[i])
                            ELSE f[i - 1]]
<1>. DEFINE N == Len(s)
            Solves(f, k) ==
              /\ f[0] = <<>>
              /\ \A i \in 1 .. k :
                   f[i] = IF s[i] \in S THEN Append(f[i - 1], s[i])
                          ELSE f[i - 1]
            P == {k \in 0 .. N :
                    \E f : f = [i \in 0 .. N |-> f[i]] /\ Solves(f, k)}
<1>0. N \in Nat
  OBVIOUS
<1>1. 0 \in P
  <2>. DEFINE f == [i \in 0 .. N |-> <<>>]
  <2>1. f = [i \in 0 .. N |-> f[i]] /\ Solves(f, 0)
    OBVIOUS
  <2>. QED  BY <2>1
<1>2. ASSUME NEW k \in 0 .. N, k \in P, k < N  PROVE k + 1 \in P
  <2>. PICK f : f = [i \in 0 .. N |-> f[i]] /\ Solves(f, k)
    BY <1>2
  <2>. DEFINE v == IF s[k + 1] \in S THEN Append(f[k], s[k + 1]) ELSE f[k]
              g == [i \in 0 .. N |-> IF i = k + 1 THEN v ELSE f[i]]
  <2>1. g[k + 1] = v /\ \A i \in 0 .. k : g[i] = f[i]
    BY <1>2
  <2>2. g = [i \in 0 .. N |-> g[i]]
    OBVIOUS
  <2>. HIDE DEF g
  <2>3. Solves(g, k + 1)
    <3>1. g[0] = <<>>
      BY <2>1
    <3>2. ASSUME NEW i \in 1 .. k + 1
          PROVE  g[i] = IF s[i] \in S THEN Append(g[i - 1], s[i])
                   ELSE g[i - 1]
      <4>1. CASE i = k + 1
        <5>1. g[k] = f[k] /\ i - 1 = k
          BY <2>1, <4>1
        <5>. QED  BY <2>1, <4>1, <5>1
      <4>2. CASE i \in 1 .. k
        <5>1. g[i] = f[i] /\ g[i - 1] = f[i - 1]
          BY <2>1, <4>2
        <5>2. f[i] = IF s[i] \in S THEN Append(f[i - 1], s[i]) ELSE f[i - 1]
          BY <4>2
        <5>. QED  BY <5>1, <5>2
      <4>. QED  BY <4>1, <4>2
    <3>. QED  BY <3>1, <3>2
  <2>4. k + 1 \in 0 .. N
    BY <1>2
  <2>. QED  BY <2>2, <2>3, <2>4
<1>3. N \in P
  <2>1. \A i \in 0 .. N : i \in P
    <3>. HIDE DEF P, N
    <3>. QED  BY <1>0, <1>1, <1>2, UpTo
  <2>. QED  BY <1>0, <2>1
<1>. PICK f : f = [i \in 0 .. N |-> f[i]] /\ Solves(f, N)
  BY <1>3
<1>4. f = [i \in 0 .. N |->
             IF i = 0 THEN <<>>
             ELSE IF s[i] \in S THEN Append(f[i - 1], s[i]) ELSE f[i - 1]]
  <2>1. \A i \in 0 .. N :
          f[i] = IF i = 0 THEN <<>>
                 ELSE IF s[i] \in S THEN Append(f[i - 1], s[i]) ELSE f[i - 1]
    <3>1. /\ f[0] = <<>>
          /\ \A i \in 1 .. N :
               f[i] = IF s[i] \in S THEN Append(f[i - 1], s[i]) ELSE f[i - 1]
      OBVIOUS
    <3>2. \A i \in 0 .. N : i = 0 \/ i \in 1 .. N
      BY <1>0
    <3>. QED  BY <3>1, <3>2
  <2>. QED  BY <2>1
<1>. QED  BY <1>4

(* How Selected is computed. *)
LEMMA SelectedSteps ==
  ASSUME NEW D, NEW s \in Seq(D), NEW S
  PROVE  /\ Selected(s, S)[0] = <<>>
         /\ \A i \in 1 .. Len(s) :
              Selected(s, S)[i] =
                IF s[i] \in S THEN Append(Selected(s, S)[i - 1], s[i])
                ELSE Selected(s, S)[i - 1]
<1>. DEFINE f == Selected(s, S)
<1>1. f = [i \in 0 .. Len(s) |->
             IF i = 0 THEN <<>>
             ELSE IF s[i] \in S THEN Append(f[i - 1], s[i]) ELSE f[i - 1]]
  <2>. DEFINE Body(u) ==
                [i \in 0 .. Len(s) |->
                   IF i = 0 THEN <<>>
                   ELSE IF s[i] \in S THEN Append(u[i - 1], s[i])
                     ELSE u[i - 1]]
  <2>1. f = CHOOSE u : u = Body(u)
    BY Zenon DEF Selected
  <2>2. \E u : u = Body(u)
    BY SelectedExists
  <2>. HIDE DEF Body
  <2>3. f = Body(f)
    BY <2>1, <2>2, Zenon
  <2>. QED  BY <2>3 DEF Body
<1>. HIDE DEF f
<1>2. Len(s) \in Nat
  OBVIOUS
<1>3. \A i \in 0 .. Len(s) :
        f[i] = IF i = 0 THEN <<>>
               ELSE IF s[i] \in S THEN Append(f[i - 1], s[i]) ELSE f[i - 1]
  BY <1>1, Zenon
<1>4. 0 \in 0 .. Len(s) /\ \A i \in 1 .. Len(s) : i \in 0 .. Len(s) /\ i # 0
  BY <1>2
<1>. QED  BY <1>3, <1>4 DEF f

LEMMA SelectedType ==
  ASSUME NEW D, NEW s \in Seq(D), NEW S
  PROVE  \A i \in 0 .. Len(s) : Selected(s, S)[i] \in Seq(D \cap S)
<1>. DEFINE E == D \cap S
            f == Selected(s, S)
            P == {i \in 0 .. Len(s) : f[i] \in Seq(E)}
<1>1. /\ f[0] = <<>>
      /\ \A i \in 1 .. Len(s) :
           f[i] = IF s[i] \in S THEN Append(f[i - 1], s[i]) ELSE f[i - 1]
  BY SelectedSteps
<1>0. Len(s) \in Nat /\ \A x \in D : x \in S => x \in E
  OBVIOUS
<1>. HIDE DEF f, E
<1>2. 0 \in P
  <2>1. <<>> \in Seq(E) /\ 0 \in 0 .. Len(s)
    BY <1>0, EmptySeq
  <2>. QED  BY <1>1, <2>1
<1>3. ASSUME NEW i \in 0 .. Len(s), i \in P, i < Len(s)  PROVE i + 1 \in P
  <2>1. /\ i + 1 \in 1 .. Len(s) /\ i + 1 - 1 = i /\ s[i + 1] \in D
        /\ f[i] \in Seq(E)
    BY <1>0, <1>3
  <2>2. f[i + 1] = IF s[i + 1] \in S THEN Append(f[i], s[i + 1]) ELSE f[i]
    BY <1>1, <2>1
  <2>3. s[i + 1] \in S => Append(f[i], s[i + 1]) \in Seq(E)
    BY <1>0, <2>1, AppendProperties
  <2>4. f[i + 1] \in Seq(E) /\ i + 1 \in 0 .. Len(s)
    BY <1>0, <2>1, <2>2, <2>3
  <2>. QED  BY <2>4
<1>4. Len(s) \in Nat
  OBVIOUS
<1>5. \A i \in 0 .. Len(s) : i \in P
  <2>. HIDE DEF P
  <2>. QED  BY <1>2, <1>3, <1>4, UpTo
<1>. QED  BY <1>5 DEF f, E

LEMMA SelectType ==
  ASSUME NEW D, NEW s \in Seq(D), NEW S
  PROVE  Select(s, S) \in Seq(D \cap S) /\ Select(s, S) \in Seq(D)
<1>1. Select(s, S) \in Seq(D \cap S)
  BY SelectedType DEF Select
<1>. QED  BY <1>1

(* One more element does not change what was selected of the others. *)
LEMMA SelectAppend ==
  ASSUME NEW D, NEW s \in Seq(D), NEW x \in D, NEW S
  PROVE  Select(Append(s, x), S) =
           IF x \in S THEN Append(Select(s, S), x) ELSE Select(s, S)
<1>. DEFINE r == Append(s, x)
            f == Selected(s, S)
            g == Selected(r, S)
            P == {i \in 0 .. Len(s) : g[i] = f[i]}
<1>1. /\ r \in Seq(D) /\ Len(r) = Len(s) + 1 /\ r[Len(s) + 1] = x
      /\ \A i \in 1 .. Len(s) : r[i] = s[i]
      /\ Len(s) \in Nat
  OBVIOUS
<1>. HIDE DEF r
<1>2. /\ f[0] = <<>>
      /\ \A i \in 1 .. Len(s) :
           f[i] = IF s[i] \in S THEN Append(f[i - 1], s[i]) ELSE f[i - 1]
  BY SelectedSteps
<1>3. /\ g[0] = <<>>
      /\ \A i \in 1 .. Len(r) :
           g[i] = IF r[i] \in S THEN Append(g[i - 1], r[i]) ELSE g[i - 1]
  BY <1>1, SelectedSteps
<1>4. Select(s, S) = f[Len(s)] /\ Select(r, S) = g[Len(s) + 1]
  BY <1>1 DEF Select
<1>. HIDE DEF f, g
<1>5. 0 \in P
  BY <1>1, <1>2, <1>3
<1>6. ASSUME NEW i \in 0 .. Len(s), i \in P, i < Len(s)  PROVE i + 1 \in P
  <2>1. /\ i + 1 \in 1 .. Len(s) /\ i + 1 \in 1 .. Len(r) /\ i + 1 - 1 = i
        /\ r[i + 1] = s[i + 1] /\ g[i] = f[i]
    BY <1>1, <1>6
  <2>. QED  BY <1>2, <1>3, <2>1
<1>7. Len(s) \in P
  <2>1. \A i \in 0 .. Len(s) : i \in P
    <3>. HIDE DEF P
    <3>. QED  BY <1>1, <1>5, <1>6, UpTo
  <2>. QED  BY <1>1, <2>1
<1>8. g[Len(s) + 1] = IF x \in S THEN Append(g[Len(s)], x) ELSE g[Len(s)]
  <2>1. Len(s) + 1 \in 1 .. Len(r) /\ Len(s) + 1 - 1 = Len(s)
    BY <1>1
  <2>. QED  BY <1>1, <1>3, <2>1
<1>. QED  BY <1>4, <1>7, <1>8 DEF r

LEMMA SelectEmpty ==
  ASSUME NEW S
  PROVE  Select(<<>>, S) = <<>>
<1>1. <<>> \in Seq({}) /\ Len(<<>>) = 0
  OBVIOUS
<1>. QED  BY <1>1, SelectedSteps DEF Select

(* What is left in a channel when its first command is received. *)
LEMMA RangeTail ==
  ASSUME NEW S, NEW s \in Seq(S), s # <<>>, IsInjective(s)
  PROVE  /\ Head(s) \in Range(s) /\ IsInjective(Tail(s))
         /\ Range(Tail(s)) = Range(s) \ {Head(s)}
<1>1. /\ Tail(s) \in Seq(S) /\ Len(s) \in Nat \ {0}
      /\ Len(Tail(s)) = Len(s) - 1
      /\ Head(s) = s[1]
      /\ \A i \in 1 .. Len(s) - 1 : Tail(s)[i] = s[i + 1]
  BY HeadTailProperties, EmptySeq
<1>2. DOMAIN s = 1 .. Len(s) /\ DOMAIN Tail(s) = 1 .. Len(s) - 1
  BY <1>1
<1>. DEFINE u == Tail(s)
<1>. HIDE DEF u
<1>3. \A i, j \in DOMAIN s : s[i] = s[j] => i = j
  BY DEF IsInjective
<1>4. IsInjective(u)
  BY <1>1, <1>2, <1>3 DEF IsInjective, u
<1>5. Head(s) \in Range(s)
  BY <1>1, <1>2 DEF Range
<1>6. ASSUME NEW x \in Range(u)  PROVE x \in Range(s) \ {Head(s)}
  <2>. PICK i \in 1 .. Len(s) - 1 : x = s[i + 1]
    BY <1>1, <1>2 DEF Range, u
  <2>. QED  BY <1>1, <1>2, <1>3 DEF Range
<1>7. ASSUME NEW x \in Range(s) \ {Head(s)}  PROVE x \in Range(u)
  <2>. PICK i \in 1 .. Len(s) : x = s[i] /\ i # 1
    BY <1>1, <1>2 DEF Range
  <2>1. i - 1 \in 1 .. Len(s) - 1 /\ u[i - 1] = s[i]
    BY <1>1 DEF u
  <2>. QED  BY <1>2, <2>1 DEF Range, u
<1>. QED  BY <1>4, <1>5, <1>6, <1>7 DEF u

(* One more command in a channel, of a thread that has none in it. *)
LEMMA InjectiveAppend ==
  ASSUME NEW S, NEW s \in Seq(S), NEW x \in S, IsInjective(s),
         x \notin Range(s)
  PROVE  IsInjective(Append(s, x))
<1>1. /\ DOMAIN s = 1 .. Len(s) /\ Len(s) \in Nat
      /\ DOMAIN Append(s, x) = 1 .. Len(s) + 1
      /\ Append(s, x)[Len(s) + 1] = x
      /\ \A i \in 1 .. Len(s) : Append(s, x)[i] = s[i]
  OBVIOUS
<1>. DEFINE u == Append(s, x)
<1>. HIDE DEF u
<1>2. \A i \in 1 .. Len(s) : s[i] # x
  BY <1>1 DEF Range
<1>. QED  BY <1>1, <1>2 DEF IsInjective, u
=============================================================================
