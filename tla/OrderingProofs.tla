--------------------------- MODULE OrderingProofs ---------------------------
(***************************************************************************)
(* topo_sort returns an order whenever there is one, and a right one, for  *)
(* lists of configs of any length and shape.                               *)
(***************************************************************************)
EXTENDS Ordering, ListProofs, FiniteSetTheorems, SequenceTheorems, TLAPS

-----------------------------------------------------------------------------
(* There are finitely many edges.                                          *)

EdgesUpTo(n) == {e \in Edges : e[1] <= n}

(* A list of configs has finitely many dependencies, so counting them makes *)
(* sense.                                                                  *)
LEMMA EdgesFinite ==
  ASSUME configs \in Seq(SidecarConfig)
  PROVE  IsFiniteSet(Edges)
<1>. DEFINE T == {n \in Nat : ~IsFiniteSet(EdgesUpTo(n))}
<1>1. ASSUME NEW i \in DOMAIN configs
      PROVE  IsFiniteSet({i} \X DOMAIN configs[i].depends_on)
  <2>. DEFINE D == DOMAIN configs[i].depends_on
  <2>. configs[i] \in SidecarConfig
    OBVIOUS
  <2>1. configs[i].depends_on \in Seq(Name)
    BY DEF SidecarConfig
  <2>2. IsFiniteSet(D)
    BY <2>1, FS_Interval
  <2>. DEFINE f == [j \in D |-> <<i, j>>]
  <2>3. f \in Surjection(D, {i} \X D)
    <3>1. f \in [D -> {i} \X D]
      OBVIOUS
    <3>2. ASSUME NEW e \in {i} \X D  PROVE \E j \in D : f[j] = e
      <4>1. e[2] \in D /\ f[e[2]] = e
        OBVIOUS
      <4>. QED  BY <4>1
    <3>. QED  BY <3>1, <3>2 DEF Surjection
  <2>. QED  BY <2>2, <2>3, FS_Surjection
<1>2. EdgesUpTo(0) = {}
  BY DEF EdgesUpTo, Edges
<1>3. ASSUME NEW n \in Nat, IsFiniteSet(EdgesUpTo(n))
      PROVE  IsFiniteSet(EdgesUpTo(n + 1))
  <2>1. CASE n + 1 \in DOMAIN configs
    <3>1. EdgesUpTo(n + 1) =
            EdgesUpTo(n) \cup ({n + 1} \X DOMAIN configs[n + 1].depends_on)
      BY <2>1 DEF EdgesUpTo, Edges
    <3>2. IsFiniteSet({n + 1} \X DOMAIN configs[n + 1].depends_on)
      BY <1>1, <2>1
    <3>3. IsFiniteSet(EdgesUpTo(n)
                        \cup ({n + 1} \X DOMAIN configs[n + 1].depends_on))
      BY <1>3, <3>2, FS_Union, Zenon
    <3>. QED  BY <3>1, <3>3
  <2>2. CASE n + 1 \notin DOMAIN configs
    <3>1. EdgesUpTo(n + 1) = EdgesUpTo(n)
      BY <2>2 DEF EdgesUpTo, Edges
    <3>. QED  BY <1>3, <3>1
  <2>. QED  BY <2>1, <2>2
<1>4. T = {}
  <2>. SUFFICES ASSUME T # {}  PROVE FALSE
    OBVIOUS
  <2>1. PICK n \in T : \A m \in T : ~(m < n)
    BY LeastNumber
  <2>2. n # 0
    BY <1>2, FS_EmptySet
  <2>3. n - 1 \in Nat /\ n - 1 \notin T
    BY <2>1, <2>2
  <2>. QED  BY <1>3, <2>3
<1>5. EdgesUpTo(Len(configs)) = Edges
  BY DEF EdgesUpTo, Edges
<1>. QED  BY <1>4, <1>5

(* It has finitely many names, too. *)
LEMMA NamesFinite ==
  ASSUME configs \in Seq(SidecarConfig)
  PROVE  IsFiniteSet(Names)
<1>. DEFINE f == [i \in DOMAIN configs |-> configs[i].name]
<1>1. f \in Surjection(DOMAIN configs, Names)
  BY DEF Surjection, Names
<1>2. IsFiniteSet(DOMAIN configs)
  BY FS_Interval
<1>. QED  BY <1>1, <1>2, FS_Surjection

-----------------------------------------------------------------------------
(* Sequences.                                                              *)

(* What is left of the queue when its last element is taken. *)
LEMMA Front ==
  ASSUME NEW S, NEW s \in Seq(S), s # <<>>
  PROVE  /\ SubSeq(s, 1, Len(s) - 1) \in Seq(S)
         /\ Len(SubSeq(s, 1, Len(s) - 1)) = Len(s) - 1
         /\ \A i \in 1 .. Len(s) - 1 : SubSeq(s, 1, Len(s) - 1)[i] = s[i]
<1>. DEFINE n == Len(s) - 1
<1>1. n \in Nat /\ \A i \in 1 .. n : s[i] \in S
  OBVIOUS
<1>. HIDE DEF n
<1>2. /\ SubSeq(s, 1, n) \in Seq(S)
      /\ Len(SubSeq(s, 1, n)) = IF 1 <= n THEN n - 1 + 1 ELSE 0
      /\ \A i \in 1 .. n - 1 + 1 : SubSeq(s, 1, n)[i] = s[1 + i - 1]
  BY <1>1, SubSeqProperties
<1>3. Len(SubSeq(s, 1, n)) = n
  BY <1>1, <1>2
<1>4. \A i \in 1 .. n : SubSeq(s, 1, n)[i] = s[i]
  BY <1>1, <1>2
<1>. QED  BY <1>2, <1>3, <1>4 DEF n

-----------------------------------------------------------------------------
(* The inductive invariant: in_degree counts the edges still to relax, and *)
(* what is queued or ordered has none.                                     *)

Started == pc = "sort" \/ (pc = "done" /\ result # "UnknownDependency")

Remaining(n) ==
  {e \in Edges : /\ Dependent(e) = n
                 /\ Dependency(e) \notin Range(order) \/ e \in todo}

DegreeInv ==
  Started => \A n \in Names : in_degree[n] = Cardinality(Remaining(n))

ReadyInv ==
  /\ ~Started => order = <<>> /\ queue = <<>> /\ todo = {}
  /\ Started => \A n \in Range(queue) \cup Range(order) : in_degree[n] = 0
  /\ \A i, j \in DOMAIN queue : queue[i] = queue[j] => i = j
  /\ \A i \in DOMAIN queue : queue[i] \notin Range(order)
  /\ \A e \in todo : Dependency(e) \in Range(order)

(* What makes the sort complete: whoever waits for nothing is queued or    *)
(* ordered, nobody is ordered twice, and the reasons to fail are real.     *)
CompleteInv ==
  /\ Started => \A n \in Names :
       in_degree[n] = 0 => n \in Range(queue) \cup Range(order)
  /\ \A i, j \in DOMAIN order : order[i] = order[j] => i = j
  /\ result = "UnknownDependency" =>
       \E e \in Edges : Dependency(e) \notin Names
  /\ result \in {"Ok", "DependencyCycle"} =>
       /\ queue = <<>> /\ todo = {}
       /\ result = "Ok" <=> Len(order) = Len(configs)

(* Every name in the order comes after all its dependencies, which are in  *)
(* it too.                                                                 *)
DependenciesFirst ==
  \A i \in DOMAIN order : \A e \in Edges :
    Dependent(e) = order[i] => \E j \in 1 .. i - 1 : order[j] = Dependency(e)

IInv == TypeOK /\ DegreeInv /\ ReadyInv /\ DependenciesFirst /\ CompleteInv

(* What a name still waits for can be counted. *)
LEMMA RemainingFinite ==
  ASSUME TypeOK, NEW n
  PROVE  /\ IsFiniteSet(Remaining(n))
         /\ Cardinality(Remaining(n)) \in Nat
         /\ Cardinality(Remaining(n)) = 0 <=> Remaining(n) = {}
<1>1. Remaining(n) \in SUBSET Edges
  BY DEF Remaining
<1>2. IsFiniteSet(Edges)
  BY EdgesFinite DEF TypeOK
<1>3. IsFiniteSet(Remaining(n))
  BY <1>1, <1>2, FS_Subset
<1>. QED  BY <1>3, FS_CardinalityType, FS_EmptySet

(* Every edge is one of some config. *)
LEMMA DependentIsName ==
  ASSUME NEW e \in Edges
  PROVE  Dependent(e) \in Names
BY DEF Edges, Dependent, Names

(* in_degree is positive whenever it is decremented. *)
LEMMA PositiveWhenRelaxed ==
  ASSUME TypeOK, DegreeInv, ReadyInv, NEW e \in todo
  PROVE  /\ Started
         /\ Dependent(e) \in Names
         /\ in_degree[Dependent(e)] \in Nat \ {0}
         /\ Dependent(e) \notin Range(queue) \cup Range(order)
<1>1. Started
  BY DEF ReadyInv
<1>2. Dependent(e) \in Names
  BY DependentIsName DEF TypeOK
<1>3. e \in Remaining(Dependent(e))
  BY DEF Remaining, TypeOK
<1>4. in_degree[Dependent(e)] \in Nat \ {0}
  BY <1>1, <1>2, <1>3, RemainingFinite DEF DegreeInv
<1>. QED  BY <1>1, <1>2, <1>4 DEF ReadyInv

(* Before the validation there is nothing to sort. *)
LEMMA InitInv == Init => IInv
<1>. SUFFICES ASSUME Init  PROVE IInv
  OBVIOUS
<1>1. TypeOK
  BY ConfigListsAssumption DEF Init, TypeOK, Results
<1>2. DegreeInv /\ ReadyInv /\ DependenciesFirst /\ CompleteInv
  BY DEF Init, DegreeInv, ReadyInv, DependenciesFirst, CompleteInv, Started
<1>. QED  BY <1>1, <1>2 DEF IInv

(* The check of the names leaves the invariant. *)
LEMMA ValidateStep ==
  ASSUME IInv, Validate
  PROVE  IInv'
<1>1. order = <<>> /\ queue = <<>> /\ todo = {} /\ ~Started'
  BY DEF IInv, ReadyInv, Started, Validate
<1>2. TypeOK'
  BY DEF IInv, TypeOK, Validate, Edges, Names, Results
<1>. QED  BY <1>1, <1>2
          DEF IInv, ReadyInv, DegreeInv, DependenciesFirst, CompleteInv,
              Validate, Edges, Names, Dependency, TypeOK

(* The first pass fills in_degree and queue. *)
LEMMA CountStep ==
  ASSUME IInv, Count
  PROVE  IInv'
<1>. USE DEF IInv
<1>1. order = <<>> /\ order' = <<>> /\ todo = {} /\ todo' = {}
  BY DEF ReadyInv, Started, Count
<1>2. UNCHANGED <<configs, Edges, Names>>
  BY DEF Count, Edges, Names
<1>3. \A n \in Names : Remaining(n)' = {e \in Edges : Dependent(e) = n}
  BY <1>1, <1>2 DEF Count, Remaining, Dependent, Dependency, Range
<1>4. \A n \in Names : in_degree'[n] = Cardinality(Remaining(n)')
  BY <1>3 DEF Count, DegreeOf
<1>5. IsFiniteSet(Edges)
  BY EdgesFinite DEF TypeOK
<1>6. \A n \in Names : Cardinality(Remaining(n)') \in Nat
  <2>1. \A n \in Names : IsFiniteSet(Remaining(n)')
    BY <1>3, <1>5, FS_Subset
  <2>. QED  BY <2>1, FS_CardinalityType
<1>7. Cardinality(Roots) \in Nat
  <2>1. IsFiniteSet(Names)
    BY NamesFinite DEF TypeOK
  <2>2. IsFiniteSet(Roots)
    BY <2>1, FS_Subset DEF Roots
  <2>. QED  BY <2>2, FS_CardinalityType
<1>8. /\ queue' \in [1 .. Cardinality(Roots) -> Roots]
      /\ \A i, j \in DOMAIN queue' : i < j => queue'[i] < queue'[j]
  BY DEF Count, Sorted
<1>9. TypeOK'
  <2>1. queue' \in Seq(Names)
    BY <1>7, <1>8 DEF Roots
  <2>2. in_degree' \in [Names -> Nat]
    BY <1>4, <1>6 DEF Count
  <2>. QED  BY <1>1, <1>2, <2>1, <2>2 DEF TypeOK, Count, Results
<1>10. ReadyInv'
  <2>1. \A i, j \in DOMAIN queue' : queue'[i] = queue'[j] => i = j
    <3>1. \A i \in DOMAIN queue' : queue'[i] \in Nat
      <4>1. \A i \in DOMAIN configs : configs[i] \in SidecarConfig
        BY DEF TypeOK
      <4>2. Names \subseteq Nat
        BY <4>1, NameAssumption DEF Names, SidecarConfig
      <4>. QED  BY <4>2, <1>8 DEF Roots
    <3>2. \A i \in DOMAIN queue' : i \in Nat
      BY <1>7, <1>8
    <3>. QED  BY <3>1, <3>2, <1>8
  <2>2. \A n \in Range(queue') : in_degree'[n] = 0
    BY <1>8 DEF Range, Roots, Count
  <2>3. Started'
    BY DEF Count, Started
  <2>. QED  BY <1>1, <2>1, <2>2, <2>3 DEF ReadyInv, Range
<1>11. DegreeInv'
  BY <1>2, <1>4 DEF DegreeInv
<1>12. DependenciesFirst'
  BY <1>1 DEF DependenciesFirst
<1>13. CompleteInv'
  <2>1. Range(queue') = Roots
    BY DEF Count, Sorted
  <2>2. \A n \in Names : in_degree'[n] = 0 => n \in Roots
    BY DEF Count, Roots
  <2>3. result' = "none"
    BY DEF Count, TypeOK
  <2>. QED  BY <1>1, <1>2, <2>1, <2>2, <2>3 DEF CompleteInv
<1>. QED  BY <1>9, <1>10, <1>11, <1>12, <1>13

(* The end of the outer loop changes the result only. *)
LEMMA FinishStep ==
  ASSUME IInv, Finish
  PROVE  IInv'
<1>1. Started /\ Started'
  BY DEF Finish, Started
<1>2. UNCHANGED <<configs, in_degree, queue, order, todo, Edges, Names>>
  BY DEF Finish, Edges, Names
<1>3. TypeOK'
  BY <1>1, <1>2 DEF IInv, TypeOK, Finish, Results, Started
<1>4. DegreeInv'
  BY <1>1, <1>2 DEF IInv, DegreeInv, Remaining, Dependent, Dependency
<1>5. ReadyInv' /\ DependenciesFirst'
  BY <1>1, <1>2 DEF IInv, ReadyInv, DependenciesFirst, Dependent, Dependency
<1>6. CompleteInv'
  BY <1>1, <1>2 DEF IInv, CompleteInv, Finish
<1>. QED  BY <1>3, <1>4, <1>5, <1>6 DEF IInv

(* queue.pop(): a name without dependencies left goes into the order. *)
LEMMA PopStep ==
  ASSUME IInv, Pop
  PROVE  IInv'
<1>. DEFINE n == queue[Len(queue)]
<1>. USE DEF IInv
<1>1. queue \in Seq(Names) /\ order \in Seq(Names) /\ queue # <<>>
  BY DEF TypeOK, Pop
<1>2. n \in Names /\ n \in Range(queue) /\ Len(queue) \in DOMAIN queue
  BY <1>1 DEF Range
<1>3. Started /\ Started' /\ todo = {}
  BY DEF Pop, Started
<1>4. in_degree[n] = 0 /\ n \notin Range(order)
  BY <1>2, <1>3 DEF ReadyInv
<1>5. UNCHANGED <<configs, in_degree, pc, result, Edges, Names>>
  BY DEF Pop, Edges, Names
<1>6. order' = Append(order, n) /\ Range(order') = Range(order) \cup {n}
  BY <1>1, <1>2, RangeAppend DEF Pop
<1>7. /\ queue' \in Seq(Names)
      /\ DOMAIN queue' = 1 .. Len(queue) - 1
      /\ \A i \in DOMAIN queue' : i \in DOMAIN queue /\ queue'[i] = queue[i]
                                 /\ i # Len(queue)
  BY <1>1, Front DEF Pop
<1>8. todo' = {e \in Edges : Dependency(e) = n}
  BY DEF Pop
<1>9. TypeOK'
  BY <1>1, <1>2, <1>5, <1>6, <1>7, <1>8 DEF TypeOK
<1>10. DegreeInv'
  <2>1. \A m : Remaining(m)' = Remaining(m)
    BY <1>3, <1>4, <1>5, <1>6, <1>8 DEF Remaining, Dependent, Dependency
  <2>. QED  BY <1>3, <1>5, <2>1 DEF DegreeInv
<1>11. ReadyInv'
  <2>1. Range(queue') \subseteq Range(queue)
    BY <1>7 DEF Range
  <2>2. \A m \in Range(queue') \cup Range(order') : in_degree'[m] = 0
    BY <1>2, <1>3, <1>5, <1>6, <2>1 DEF ReadyInv
  <2>3. \A i \in DOMAIN queue' : queue'[i] \notin Range(order')
    BY <1>2, <1>6, <1>7 DEF ReadyInv
  <2>4. \A i, j \in DOMAIN queue' : queue'[i] = queue'[j] => i = j
    BY <1>7 DEF ReadyInv
  <2>5. \A e \in todo' : Dependency(e)' \in Range(order')
    BY <1>5, <1>6, <1>8 DEF Dependency
  <2>. QED  BY <1>3, <2>2, <2>3, <2>4, <2>5 DEF ReadyInv
<1>12. DependenciesFirst'
  <2>. SUFFICES ASSUME NEW i \in DOMAIN order', NEW e \in Edges,
                       Dependent(e) = order'[i]
                PROVE  \E j \in 1 .. i - 1 : order'[j] = Dependency(e)
    BY <1>5 DEF DependenciesFirst, Dependent, Dependency
  <2>0. /\ DOMAIN order' = 1 .. Len(order) + 1 /\ Len(order) \in Nat
        /\ DOMAIN order = 1 .. Len(order)
        /\ order'[Len(order) + 1] = n
        /\ \A j \in DOMAIN order : order'[j] = order[j]
    BY <1>1, <1>2, <1>6
  <2>1. CASE i \in DOMAIN order
    <3>1. PICK j \in 1 .. i - 1 : order[j] = Dependency(e)
      BY <2>0, <2>1 DEF DependenciesFirst
    <3>. QED  BY <2>0, <2>1, <3>1
  <2>2. CASE i = Len(order) + 1
    <3>1. Remaining(n) = {}
      BY <1>2, <1>3, <1>4, RemainingFinite DEF DegreeInv
    <3>2. Dependency(e) \in Range(order)
      BY <2>0, <2>2, <3>1 DEF Remaining
    <3>. QED  BY <2>0, <2>2, <3>2 DEF Range
  <2>. QED  BY <2>0, <2>1, <2>2
<1>13. CompleteInv'
  <2>1. Range(queue) \subseteq Range(queue') \cup {n}
    BY <1>1, <1>7 DEF Range
  <2>2. \A i, j \in DOMAIN order' : order'[i] = order'[j] => i = j
    <3>1. \A i \in DOMAIN order : order[i] # n
      BY <1>4 DEF Range
    <3>. QED  BY <1>1, <1>2, <1>6, <3>1 DEF CompleteInv
  <2>3. result' = "none"
    BY <1>5 DEF Pop, TypeOK
  <2>. QED  BY <1>3, <1>5, <1>6, <2>1, <2>2, <2>3 DEF CompleteInv
<1>. QED  BY <1>9, <1>10, <1>11, <1>12, <1>13

(* *d -= 1: the edge is taken off, and its dependent may become ready. *)
LEMMA RelaxStep ==
  ASSUME IInv, NEW e \in todo, Relax(e)
  PROVE  IInv'
<1>. DEFINE d == Dependent(e)
<1>. USE DEF IInv
<1>1. /\ Started /\ d \in Names
      /\ in_degree[d] \in Nat \ {0}
      /\ d \notin Range(queue) \cup Range(order)
  BY PositiveWhenRelaxed
<1>2. UNCHANGED <<configs, order, pc, result, Edges, Names>> /\ Started'
  BY <1>1 DEF Relax, Edges, Names, Started
<1>3. /\ in_degree \in [Names -> Nat]
      /\ in_degree' = [in_degree EXCEPT ![d] = @ - 1]
  BY <1>1 DEF Relax, TypeOK, Started
<1>4. in_degree' \in [Names -> Nat]
  BY <1>1, <1>3
<1>5. /\ queue \in Seq(Names)
      /\ queue' = IF in_degree[d] = 1 THEN Append(queue, d) ELSE queue
  BY DEF Relax, TypeOK
<1>6. todo' = todo \ {e} /\ todo \subseteq Edges /\ e \in Edges
  BY DEF Relax, TypeOK
<1>7. TypeOK'
  BY <1>1, <1>2, <1>4, <1>5, <1>6 DEF TypeOK
<1>8. DegreeInv'
  <2>. SUFFICES ASSUME NEW m \in Names
                PROVE  in_degree'[m] = Cardinality(Remaining(m)')
    BY <1>2 DEF DegreeInv
  <2>1. in_degree[m] = Cardinality(Remaining(m))
    BY <1>1 DEF DegreeInv
  <2>2. CASE m = d
    <3>1. e \in Remaining(m)
      BY <1>6, <2>2 DEF Remaining
    <3>2. Remaining(m)' = Remaining(m) \ {e}
      BY <1>2, <1>6, <2>2 DEF Remaining, ReadyInv, Dependent, Dependency
    <3>3. IsFiniteSet(Remaining(m))
      BY RemainingFinite
    <3>4. Cardinality(Remaining(m) \ {e}) = Cardinality(Remaining(m)) - 1
      BY <3>1, <3>3, FS_RemoveElement
    <3>5. in_degree'[m] = in_degree[m] - 1
      BY <1>1, <1>3, <2>2
    <3>. QED  BY <2>1, <3>2, <3>4, <3>5
  <2>3. CASE m # d
    <3>1. Remaining(m)' = Remaining(m)
      BY <1>2, <1>6, <2>3 DEF Remaining, Dependent, Dependency
    <3>. QED  BY <1>3, <2>1, <2>3, <3>1
  <2>. QED  BY <2>2, <2>3
<1>9. ReadyInv'
  <2>1. /\ queue' \in Seq(Names)
        /\ Range(queue') = Range(queue) \cup
                             (IF in_degree[d] = 1 THEN {d} ELSE {})
    BY <1>1, <1>5, RangeAppend
  <2>2. \A m \in Range(queue') \cup Range(order') : in_degree'[m] = 0
    <3>1. \A m \in Range(queue) \cup Range(order) :
            in_degree[m] = 0 /\ m \in Names /\ m # d
      BY <1>1 DEF ReadyInv, TypeOK, Range
    <3>. QED  BY <1>1, <1>2, <1>3, <2>1, <3>1
  <2>3. \A i, j \in DOMAIN queue' : queue'[i] = queue'[j] => i = j
    BY <1>1, <1>5 DEF ReadyInv, Range
  <2>4. \A i \in DOMAIN queue' : queue'[i] \notin Range(order')
    <3>1. \A m \in Range(queue) : m \notin Range(order)
      BY DEF ReadyInv, Range
    <3>2. \A m \in Range(queue') : m \notin Range(order')
      BY <1>1, <1>2, <2>1, <3>1
    <3>. QED  BY <3>2 DEF Range
  <2>5. \A f \in todo' : Dependency(f)' \in Range(order')
    BY <1>2, <1>6 DEF ReadyInv, Dependency
  <2>. QED  BY <1>2, <2>2, <2>3, <2>4, <2>5 DEF ReadyInv
<1>10. DependenciesFirst'
  BY <1>2 DEF DependenciesFirst, Dependent, Dependency
<1>11. CompleteInv'
  <2>1. ASSUME NEW m \in Names, in_degree'[m] = 0
        PROVE  m \in Range(queue') \cup Range(order')
    <3>1. Range(queue') = Range(queue) \cup
                            (IF in_degree[d] = 1 THEN {d} ELSE {})
      BY <1>1, <1>5, RangeAppend
    <3>2. IF m = d THEN in_degree[d] = 1 ELSE in_degree[m] = 0
      BY <1>1, <1>3, <2>1
    <3>. QED  BY <1>1, <1>2, <3>1, <3>2 DEF CompleteInv
  <2>2. result' = "none"
    BY <1>2 DEF Relax, TypeOK
  <2>. QED  BY <1>2, <2>1, <2>2 DEF CompleteInv
<1>. QED  BY <1>7, <1>8, <1>9, <1>10, <1>11

(* Nor does a step of something else matter. *)
LEMMA UnchangedStep ==
  ASSUME IInv, UNCHANGED vars
  PROVE  IInv'
<1>1. UNCHANGED <<configs, pc, in_degree, queue, order, todo, result,
                  Edges, Names>>
  BY DEF vars, Edges, Names
<1>2. TypeOK'
  BY <1>1 DEF IInv, TypeOK
<1>3. DegreeInv'
  <2>1. \A n : Remaining(n)' = Remaining(n)
    BY <1>1 DEF Remaining, Dependent, Dependency
  <2>. QED  BY <1>1, <2>1 DEF IInv, DegreeInv, Started
<1>4. ReadyInv' /\ DependenciesFirst' /\ CompleteInv'
  BY <1>1 DEF IInv, ReadyInv, DependenciesFirst, CompleteInv, Started,
              Dependent, Dependency
<1>. QED  BY <1>2, <1>3, <1>4 DEF IInv

(* Every step of the sort preserves the invariant. *)
LEMMA Inductive == Spec => []IInv
<1>1. IInv /\ [Next]_vars => IInv'
  BY ValidateStep, CountStep, PopStep, FinishStep, RelaxStep, UnchangedStep
     DEF Next
<1>. QED  BY <1>1, InitInv, PTL DEF Spec

-----------------------------------------------------------------------------
(* The variables keep their types; in particular in_degree never wraps.    *)
THEOREM TypeCorrect == Spec => []TypeOK
<1>1. IInv => TypeOK
  BY DEF IInv
<1>. QED  BY <1>1, Inductive, PTL

(* The unchecked decrement of in_degree is always of a positive number.    *)
THEOREM NoUnderflowCorrect == Spec => []NoUnderflow
<1>1. IInv => NoUnderflow
  BY PositiveWhenRelaxed DEF IInv, NoUnderflow
<1>. QED  BY <1>1, Inductive, PTL

-----------------------------------------------------------------------------
(* The sort is exact.                                                      *)

(* There are as many names as configs, unless one is there twice. *)
LEMMA NameCount ==
  ASSUME configs \in Seq(SidecarConfig)
  PROVE  /\ Cardinality(Names) \in Nat /\ Cardinality(Names) <= Len(configs)
         /\ Cardinality(Names) = Len(configs) <=> UniqueNames
<1>. DEFINE f == [i \in DOMAIN configs |-> configs[i].name]
<1>1. f \in Surjection(DOMAIN configs, Names)
  BY DEF Surjection, Names
<1>2. /\ IsFiniteSet(DOMAIN configs)
      /\ Cardinality(DOMAIN configs) = Len(configs)
  <2>1. Len(configs) \in Nat /\ DOMAIN configs = 1 .. Len(configs)
    OBVIOUS
  <2>. QED  BY <2>1, FS_Interval
<1>3. f \in Injection(DOMAIN configs, Names) <=> UniqueNames
  BY <1>1 DEF Surjection, Injection, IsInjective, UniqueNames
<1>. QED  BY <1>1, <1>2, <1>3, FS_Surjection, NamesFinite, FS_CardinalityType

(* The order has each name at most once, so it is as long as the list of   *)
(* names only if it has them all.                                          *)
LEMMA OrderCount ==
  ASSUME TypeOK, CompleteInv
  PROVE  /\ Len(order) <= Cardinality(Names)
         /\ Len(order) = Cardinality(Names) <=> Range(order) = Names
<1>1. order \in Seq(Names)
  BY DEF TypeOK
<1>2. order \in Injection(1 .. Len(order), Names)
  BY <1>1 DEF CompleteInv, Injection, IsInjective
<1>3. IsFiniteSet(Names)
  BY NamesFinite DEF TypeOK
<1>4. Cardinality(1 .. Len(order)) = Len(order)
  <2>. DEFINE n == Len(order)
  <2>1. n \in Nat
    BY <1>1
  <2>. HIDE DEF n
  <2>2. Cardinality(1 .. n) = n
    BY <2>1, FS_Interval
  <2>. QED  BY <2>2 DEF n
<1>5. order \in Surjection(1 .. Len(order), Names) <=> Range(order) = Names
  BY <1>1 DEF Surjection, Range
<1>. QED  BY <1>2, <1>3, <1>4, <1>5, FS_Injection

(* Success: every name is in the order, once. *)
LEMMA OkIsRight ==
  ASSUME IInv, result = "Ok"
  PROVE  /\ UniqueNames /\ StartOrder(order)
         /\ order \in [1 .. Cardinality(Names) -> Names]
         /\ Len(order) = Cardinality(Names)
<1>. USE DEF IInv
<1>1. Len(order) = Len(configs)
  BY DEF CompleteInv
<1>2. /\ Len(order) = Cardinality(Names) /\ Range(order) = Names
      /\ UniqueNames
  BY <1>1, NameCount, OrderCount DEF TypeOK
<1>3. order \in [1 .. Cardinality(Names) -> Names]
  BY <1>2 DEF TypeOK
<1>4. ASSUME NEW e \in Edges
      PROVE  \E i, j \in DOMAIN order :
               i < j /\ order[i] = Dependency(e) /\ order[j] = Dependent(e)
  <2>1. PICK j \in DOMAIN order : order[j] = Dependent(e)
    BY <1>2, DependentIsName DEF Range
  <2>2. PICK i \in 1 .. j - 1 : order[i] = Dependency(e)
    BY <2>1 DEF DependenciesFirst
  <2>3. i \in DOMAIN order /\ i < j
    BY <2>1, <2>2 DEF TypeOK
  <2>. QED  BY <2>1, <2>2, <2>3
<1>. QED  BY <1>2, <1>3, <1>4 DEF StartOrder

(* Failure: of those that are not in the order, the first of any start     *)
(* order has a dependency that is not in the order either.                 *)
LEMMA FailureIsRight ==
  ASSUME IInv, UniqueNames,
         NEW s \in [1 .. Cardinality(Names) -> Names], StartOrder(s)
  PROVE  result \in {"none", "Ok"}
<1>. USE DEF IInv
<1>. DEFINE N == Cardinality(Names)
<1>0. N \in Nat /\ N = Len(configs)
  BY NameCount DEF TypeOK
<1>1. result # "UnknownDependency"
  <2>1. \A e \in Edges : Dependency(e) \in Range(s)
    BY DEF StartOrder, Range
  <2>. QED  BY <2>1 DEF StartOrder, CompleteInv
<1>2. ASSUME result = "DependencyCycle"  PROVE FALSE
  <2>1. Started /\ queue = <<>> /\ todo = {} /\ Len(order) # N
    BY <1>0, <1>2 DEF CompleteInv, TypeOK, Started
  <2>2. Range(order) \subseteq Names /\ Range(order) # Names
    BY <2>1, OrderCount DEF TypeOK, Range
  <2>. DEFINE M == {i \in 1 .. N : s[i] \notin Range(order)}
  <2>3. M # {}
    BY <2>2 DEF StartOrder, Range
  <2>4. PICK k \in M : \A m \in M : ~(m < k)
    <3>1. M \in SUBSET Nat
      BY <1>0
    <3>. QED  BY <2>3, <3>1, LeastNumber
  <2>5. s[k] \in Names /\ in_degree[s[k]] # 0
    BY <2>1, <2>4 DEF CompleteInv, Range
  <2>6. Remaining(s[k]) # {}
    BY <2>1, <2>5, RemainingFinite DEF DegreeInv
  <2>7. PICK e \in Edges : Dependent(e) = s[k]
                           /\ Dependency(e) \notin Range(order)
    BY <2>1, <2>6 DEF Remaining
  <2>8. PICK i, j \in 1 .. N :
          i < j /\ s[i] = Dependency(e) /\ s[j] = Dependent(e)
    BY <2>7 DEF StartOrder
  <2>9. j = k
    <3>1. s \in Surjection(1 .. N, Names)
      BY DEF StartOrder, Range, Surjection
    <3>2. IsFiniteSet(1 .. N) /\ Cardinality(1 .. N) = N
      BY <1>0, FS_Interval
    <3>3. s \in Injection(1 .. N, Names)
      BY <3>1, <3>2, FS_Surjection
    <3>. QED  BY <2>7, <2>8, <3>3 DEF Injection, IsInjective
  <2>10. i \in M
    BY <2>7, <2>8
  <2>. QED  BY <1>0, <2>4, <2>8, <2>9, <2>10
<1>. QED  BY <1>1, <1>2 DEF TypeOK, Results

(* The sort succeeds exactly when the names are unique and have a start    *)
(* order, and what it returns is one.                                      *)
THEOREM SortCorrect == Spec => []SortIsExact
<1>1. ASSUME IInv  PROVE SortIsExact
  <2>. SUFFICES ASSUME pc = "done"  PROVE SortIsExact
    BY DEF SortIsExact
  <2>1. result # "none"
    BY <1>1 DEF IInv, TypeOK
  <2>2. CASE result = "Ok"
    BY <1>1, <2>2, OkIsRight DEF SortIsExact
  <2>3. CASE result # "Ok"
    BY <1>1, <2>1, <2>3, FailureIsRight DEF SortIsExact
  <2>. QED  BY <2>2, <2>3
<1>. QED  BY <1>1, Inductive, PTL
=============================================================================
