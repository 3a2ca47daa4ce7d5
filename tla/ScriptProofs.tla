---------------------------- MODULE ScriptProofs ----------------------------
(***************************************************************************)
(* What the calls of Manager have their threads do, for any sidecars and   *)
(* dependencies: lemmas about StartScript, WaiterScript and ShutdownScript *)
(* and about Needed and Chain, from which they are made.  They rest on     *)
(* what topo_sort promises of StartOrder.                                  *)
(***************************************************************************)
EXTENDS Manager, ListProofs, SequenceTheorems, TLAPS

Near(n) == Range(DependsOn[n])

(* The start order lists every sidecar once, after what it depends on. *)
LEMMA OrderOfStart ==
  /\ StartOrder \in Seq(Sidecar) /\ Len(StartOrder) \in Nat
  /\ DOMAIN StartOrder = 1 .. Len(StartOrder)
  /\ \A i \in 1 .. Len(StartOrder) : StartOrder[i] \in Sidecar
  /\ \A i, j \in 1 .. Len(StartOrder) : StartOrder[i] = StartOrder[j] => i = j
  /\ \A n \in Sidecar : \E p \in 1 .. Len(StartOrder) : StartOrder[p] = n
  /\ \A i \in 1 .. Len(StartOrder) : \A d \in Near(StartOrder[i]) :
       \E j \in 1 .. i - 1 : StartOrder[j] = d
<1>1. /\ StartOrder \in Seq(Sidecar) /\ Len(StartOrder) \in Nat
      /\ DOMAIN StartOrder = 1 .. Len(StartOrder)
      /\ \A i \in 1 .. Len(StartOrder) : StartOrder[i] \in Sidecar
  BY StartOrderAssumption
<1>2. \A i, j \in 1 .. Len(StartOrder) : StartOrder[i] = StartOrder[j] =>
        i = j
  BY <1>1, StartOrderAssumption DEF IsInjective
<1>3. \A n \in Sidecar : \E p \in 1 .. Len(StartOrder) : StartOrder[p] = n
  BY <1>1, StartOrderAssumption DEF Range
<1>4. \A i \in 1 .. Len(StartOrder) : \A d \in Near(StartOrder[i]) :
       \E j \in 1 .. i - 1 : StartOrder[j] = d
  BY <1>1, StartOrderAssumption DEF Near
<1>. QED  BY <1>1, <1>2, <1>3, <1>4

(* What a call has its threads do is made of steps. *)
LEMMA ScriptTypes ==
  ASSUME NEW t \in Threads, NEW k \in Call
  PROVE  ScriptOf(t, k) \in Seq(Step)
<1>1. ASSUME NEW n \in Sidecar  PROVE StartScript(n) \in Seq(Step)
  <2>. DEFINE c == Chain(n)
  <2>1. c \in Seq(Sidecar) /\ Len(c) \in Nat
    <3>1. StartOrder \in Seq(Sidecar)
      BY StartOrderAssumption
    <3>2. Select(StartOrder, Needed[n] \cup {n}) \in Seq(Sidecar)
      BY <3>1, SelectType
    <3>. QED  BY <3>2 DEF Chain
  <2>2. StartScript(n) =
          [i \in 1 .. 2 * Len(c) - 1 |->
             Do(IF i % 2 = 1 THEN "Start" ELSE "await", c[(i + 1) \div 2])]
    BY DEF StartScript
  <2>. HIDE DEF c
  <2>3. \A i \in 1 .. 2 * Len(c) - 1 : (i + 1) \div 2 \in 1 .. Len(c)
    BY <2>1
  <2>4. \A i \in 1 .. 2 * Len(c) - 1 :
          Do(IF i % 2 = 1 THEN "Start" ELSE "await", c[(i + 1) \div 2])
            \in Step
    BY <2>1, <2>3 DEF Do, Step, Operation
  <2>5. StartScript(n) \in [1 .. 2 * Len(c) - 1 -> Step]
    BY <2>2, <2>4
  <2>6. CASE Len(c) = 0
    <3>1. 1 .. 2 * Len(c) - 1 = 1 .. 0
      BY <2>6
    <3>. QED  BY <2>5, <3>1
  <2>7. CASE Len(c) # 0
    <3>1. 2 * Len(c) - 1 \in Nat
      BY <2>1, <2>7
    <3>. QED  BY <2>5, <3>1
  <2>. QED  BY <2>6, <2>7
<1>2. ASSUME NEW n \in Sidecar  PROVE WaiterScript(n) \in Seq(Step)
  <2>. DEFINE a ==
           [i \in DOMAIN DependsOn[n] |-> Do("await", DependsOn[n][i])]
  <2>1. a \in Seq(Step)
    <3>1. DependsOn[n] \in Seq(Sidecar)
      BY DependsOnAssumption
    <3>2. \A i \in 1 .. Len(DependsOn[n]) :
            Do("await", DependsOn[n][i]) \in Step
      BY <3>1 DEF Do, Step, Operation
    <3>3. a \in [1 .. Len(DependsOn[n]) -> Step] /\ Len(DependsOn[n]) \in Nat
      BY <3>1, <3>2
    <3>. HIDE DEF a
    <3>. QED  BY <3>3
  <2>2. <<Do("Start", n)>> \in Seq(Step)
    BY DEF Do, Step, Operation
  <2>. QED  BY <2>1, <2>2, ConcatProperties DEF WaiterScript
<1>3. ShutdownScript \in Seq(Step)
  <2>1. StartOrder \in Seq(Sidecar)
    BY StartOrderAssumption
  <2>2. \A i \in DOMAIN StartOrder :
          Len(StartOrder) + 1 - i \in DOMAIN StartOrder
    BY <2>1
  <2>3. \A i \in DOMAIN StartOrder :
          Do("Shutdown", StartOrder[Len(StartOrder) + 1 - i]) \in Step
    BY <2>1, <2>2 DEF Do, Step, Operation
  <2>4. ShutdownScript \in [1 .. Len(StartOrder) -> Step]
    BY <2>1, <2>3 DEF ShutdownScript
  <2>. QED  BY <2>1, <2>4
<1>4. ASSUME NEW n \in Sidecar, NEW op \in Operation
      PROVE <<Do(op, n)>> \in Seq(Step)
  BY DEF Do, Step, Operation
<1>5. CallScript(k) \in Seq(Step)
  BY <1>1, <1>3, <1>4, EmptySeq DEF CallScript, Call, Operation
<1>6. Len(t) # 1 => t[2] \in Sidecar
  BY DEF Threads
<1>. QED  BY <1>2, <1>5, <1>6, EmptySeq DEF ScriptOf

(* Only shutdown_all shuts anything down. *)
LEMMA NoShutdownAmong ==
  ASSUME NEW t \in Threads, NEW k \in Call,
         ~(Len(t) = 1 /\ k.api = "shutdown_all"),
         NEW i \in DOMAIN ScriptOf(t, k)
  PROVE  ScriptOf(t, k)[i].do # "Shutdown"
<1>1. k.api \in {"start", "stop", "restart", "start_all", "shutdown_all"}
  BY DEF Call
<1>2. CASE Len(t) = 1
  <2>1. CASE k.api = "start"
    <3>1. ScriptOf(t, k) = StartScript(k.name)
      BY <1>2, <2>1 DEF ScriptOf, CallScript
    <3>. QED  BY <3>1 DEF StartScript, Do
  <2>2. CASE k.api \in {"stop", "restart", "start_all"}
    BY <1>2, <2>2 DEF ScriptOf, CallScript, Do
  <2>. QED  BY <1>1, <1>2, <2>1, <2>2
<1>3. CASE Len(t) # 1
  <2>1. CASE k.api = "start_all"
    <3>1. t[2] \in Sidecar
      BY <1>3 DEF Threads
    <3>. DEFINE n == t[2]
    <3>2. ScriptOf(t, k) = WaiterScript(n)
      BY <1>3, <2>1 DEF ScriptOf
    <3>. HIDE DEF n
    <3>. DEFINE a ==
             [j \in DOMAIN DependsOn[n] |-> Do("await", DependsOn[n][j])]
    <3>3. DependsOn[n] \in Seq(Sidecar)
      BY <3>1, DependsOnAssumption DEF n
    <3>. DEFINE A == {s \in Step : s.do = "await"}
    <3>4. a \in Seq(A)
      <4>1. \A j \in 1 .. Len(DependsOn[n]) :
              Do("await", DependsOn[n][j]) \in A
        BY <3>3 DEF Do, Step
      <4>. HIDE DEF A
      <4>2. a \in [1 .. Len(DependsOn[n]) -> A] /\ Len(DependsOn[n]) \in Nat
        BY <3>3, <4>1
      <4>. HIDE DEF a
      <4>. QED  BY <4>2
    <3>. HIDE DEF A
    <3>5. ScriptOf(t, k) = a \o <<Do("Start", n)>>
      BY <3>2 DEF WaiterScript
    <3>. HIDE DEF a
    <3>6. DOMAIN ScriptOf(t, k) = 1 .. Len(a) + 1
      BY <3>4, <3>5
    <3>7. CASE i \in 1 .. Len(a)
      <4>1. a[i].do = "await"
        <5>1. a[i] \in A
          BY <3>4, <3>7
        <5>. QED  BY <5>1 DEF A
      <4>2. (a \o <<Do("Start", n)>>)[i] = a[i]
        BY <3>4, <3>7
      <4>. QED  BY <3>5, <4>1, <4>2
    <3>8. CASE i = Len(a) + 1
      <4>1. (a \o <<Do("Start", n)>>)[i] = Do("Start", n)
        BY <3>4, <3>8
      <4>. QED  BY <3>5, <4>1 DEF Do
    <3>. QED  BY <3>4, <3>6, <3>7, <3>8
  <2>2. CASE k.api # "start_all"
    BY <1>3, <2>2 DEF ScriptOf
  <2>. QED  BY <2>1, <2>2
<1>. QED  BY <1>2, <1>3

(* shutdown_all tells every sidecar, each after those that depend on it. *)
LEMMA ShutdownScriptTells ==
  /\ \A n \in Sidecar : \E i \in DOMAIN ShutdownScript :
       ShutdownScript[i] = Do("Shutdown", n)
  /\ \A i \in DOMAIN ShutdownScript : \A n \in Sidecar :
       ShutdownScript[i].to \in Range(DependsOn[n]) =>
         \E j \in 1 .. i - 1 : ShutdownScript[j] = Do("Shutdown", n)
  /\ \A i \in DOMAIN ShutdownScript : ShutdownScript[i].do = "Shutdown"
<1>. DEFINE N == Len(StartOrder)
<1>1. /\ StartOrder \in Seq(Sidecar) /\ N \in Nat
      /\ DOMAIN StartOrder = 1 .. N
      /\ \A i, j \in 1 .. N : StartOrder[i] = StartOrder[j] => i = j
      /\ \A n \in Sidecar : \E p \in 1 .. N : StartOrder[p] = n
      /\ \A i \in 1 .. N : \A d \in Range(DependsOn[StartOrder[i]]) :
           \E j \in 1 .. i - 1 : StartOrder[j] = d
  BY OrderOfStart DEF Near
<1>2. /\ DOMAIN ShutdownScript = 1 .. N
      /\ \A i \in 1 .. N :
           ShutdownScript[i] = Do("Shutdown", StartOrder[N + 1 - i])
  BY <1>1 DEF ShutdownScript
<1>. HIDE DEF N
<1>3. ASSUME NEW n \in Sidecar
      PROVE  \E i \in 1 .. N : ShutdownScript[i] = Do("Shutdown", n)
  <2>. PICK p \in 1 .. N : StartOrder[p] = n
    BY <1>1
  <2>1. N + 1 - p \in 1 .. N /\ N + 1 - (N + 1 - p) = p
    BY <1>1
  <2>. QED  BY <1>2, <2>1
<1>4. ASSUME NEW i \in 1 .. N, NEW n \in Sidecar,
             ShutdownScript[i].to \in Range(DependsOn[n])
      PROVE  \E j \in 1 .. i - 1 : ShutdownScript[j] = Do("Shutdown", n)
  <2>1. PICK p \in 1 .. N : StartOrder[p] = n
    BY <1>1
  <2>2. StartOrder[N + 1 - i] \in Range(DependsOn[StartOrder[p]])
    BY <1>2, <1>4, <2>1 DEF Do
  <2>3. PICK q \in 1 .. p - 1 : StartOrder[q] = StartOrder[N + 1 - i]
    BY <1>1, <2>2
  <2>4. q \in 1 .. N /\ N + 1 - i \in 1 .. N
    BY <1>1
  <2>5. q = N + 1 - i
    BY <1>1, <2>3, <2>4
  <2>6. N + 1 - p \in 1 .. i - 1 /\ N + 1 - p \in 1 .. N
        /\ N + 1 - (N + 1 - p) = p
    BY <1>1, <2>5
  <2>. QED  BY <1>2, <2>1, <2>6
<1>. QED  BY <1>2, <1>3, <1>4 DEF Do

Closed(X) == \A x \in X : Near(x) \subseteq X

(* Everything a sidecar depends on, from outside: what is in every closed  *)
(* set that holds its own dependencies.                                    *)
Reach(n) == {m \in Sidecar : \A X \in SUBSET Sidecar :
               Near(n) \subseteq X /\ Closed(X) => m \in X}

(* Dependencies are sidecars. *)
LEMMA NearIsSidecars == \A n \in Sidecar : Near(n) \subseteq Sidecar
BY DependsOnAssumption DEF Range, Near

(* What is reached is closed, and holds the dependencies themselves. *)
LEMMA ReachClosed ==
  ASSUME NEW n \in Sidecar
  PROVE  Near(n) \subseteq Reach(n) /\ Closed(Reach(n))
         /\ Reach(n) \subseteq Sidecar
<1>1. Near(n) \subseteq Reach(n)
  BY NearIsSidecars DEF Reach
<1>2. ASSUME NEW x \in Reach(n), NEW m \in Near(x)  PROVE m \in Reach(n)
  <2>1. x \in Sidecar /\ m \in Sidecar
    BY NearIsSidecars DEF Reach
  <2>2. ASSUME NEW X \in SUBSET Sidecar, Near(n) \subseteq X, Closed(X)
        PROVE  m \in X
    BY <2>2 DEF Reach, Closed
  <2>. QED  BY <2>1, <2>2 DEF Reach
<1>. QED  BY <1>1, <1>2 DEF Closed, Reach

(* What is reached is what collect_deps unfolds. *)
LEMMA ReachSteps ==
  ASSUME NEW n \in Sidecar
  PROVE  Reach(n) = Near(n) \cup UNION {Reach(d) : d \in Near(n)}
<1>. DEFINE Y == Near(n) \cup UNION {Reach(d) : d \in Near(n)}
<1>1. ASSUME NEW d \in Near(n)  PROVE Reach(d) \subseteq Reach(n)
  <2>1. Near(d) \subseteq Reach(n) /\ Closed(Reach(n))
        /\ Reach(n) \in SUBSET Sidecar
    BY ReachClosed DEF Closed
  <2>. QED  BY <2>1 DEF Reach
<1>2. Near(n) \subseteq Reach(n)
  BY ReachClosed
<1>3. Y \subseteq Reach(n)
  BY <1>1, <1>2
<1>4. ASSUME NEW x \in Y  PROVE Near(x) \subseteq Y
  <2>1. CASE x \in Near(n)
    BY <2>1, NearIsSidecars, ReachClosed
  <2>2. CASE \E d \in Near(n) : x \in Reach(d)
    BY <2>2, NearIsSidecars, ReachClosed DEF Closed
  <2>. QED  BY <2>1, <2>2
<1>5. Y \in SUBSET Sidecar /\ Near(n) \subseteq Y
  BY NearIsSidecars, ReachClosed
<1>6. Closed(Y)
  BY <1>4 DEF Closed
<1>. HIDE DEF Y
<1>7. Reach(n) \subseteq Y
  BY <1>5, <1>6 DEF Reach
<1>8. Reach(n) = Y
  BY <1>3, <1>7
<1>. QED  BY <1>8 DEF Y

(* So Needed is what its definition says. *)
LEMMA NeededSteps ==
  \A n \in Sidecar :
    Needed[n]
      = Range(DependsOn[n]) \cup UNION {Needed[d] : d \in Range(DependsOn[n])}
<1>. DEFINE Body(f) ==
         [n \in Sidecar |-> Range(DependsOn[n])
                            \cup UNION {f[d] : d \in Range(DependsOn[n])}]
<1>. DEFINE R == [n \in Sidecar |-> Reach(n)]
<1>1. R = Body(R)
  <2>1. ASSUME NEW n \in Sidecar
        PROVE  Reach(n)
                 = Range(DependsOn[n])
                   \cup UNION {R[d] : d \in Range(DependsOn[n])}
    <3>1. \A d \in Range(DependsOn[n]) : R[d] = Reach(d)
      BY NearIsSidecars DEF Near
    <3>2. UNION {R[d] : d \in Range(DependsOn[n])}
            = UNION {Reach(d) : d \in Range(DependsOn[n])}
      BY <3>1
    <3>. QED  BY <3>2, ReachSteps DEF Near
  <2>. QED  BY <2>1
<1>2. Needed = CHOOSE f : f = Body(f)
  BY DEF Needed
<1>. HIDE DEF Body, R
<1>3. Needed = Body(Needed)
  BY <1>1, <1>2, Zenon
<1>. QED  BY <1>3 DEF Body

(* A sidecar that is needed brings what it depends on. *)
LEMMA NeededClosed == \A n \in Sidecar :
  Near(n) \subseteq Needed[n] /\ Closed(Needed[n])
<1>. DEFINE N == Len(StartOrder)
<1>. DEFINE P ==
         {i \in 0 .. N : \A j \in 1 .. i : Closed(Needed[StartOrder[j]])}
<1>1. /\ StartOrder \in Seq(Sidecar) /\ N \in Nat
      /\ \A n \in Sidecar : \E p \in 1 .. N : StartOrder[p] = n
      /\ \A i \in 1 .. N : StartOrder[i] \in Sidecar
      /\ \A i \in 1 .. N : \A d \in Near(StartOrder[i]) :
           \E j \in 1 .. i - 1 : StartOrder[j] = d
  BY OrderOfStart
<1>2. ASSUME NEW i \in 0 .. N, i \in P, i < N  PROVE i + 1 \in P
  <2>. DEFINE n == StartOrder[i + 1]
  <2>1. i + 1 \in 1 .. N /\ n \in Sidecar
    BY <1>1, <1>2
  <2>2. ASSUME NEW d \in Near(n)  PROVE d \in Sidecar /\ Closed(Needed[d])
    <3>1. PICK j \in 1 .. (i + 1) - 1 : StartOrder[j] = d
      BY <1>1, <2>1
    <3>2. j \in 1 .. i /\ j \in 1 .. N
      BY <1>1, <1>2
    <3>. QED  BY <1>1, <1>2, <3>1, <3>2
  <2>3. /\ Needed[n] = Near(n) \cup UNION {Needed[d] : d \in Near(n)}
        /\ \A d \in Near(n) : Near(d) \subseteq Needed[d]
    BY <2>1, <2>2, NeededSteps DEF Near
  <2>. HIDE DEF n
  <2>4. Closed(Needed[n])
    BY <2>2, <2>3 DEF Closed
  <2>5. \A j \in 1 .. i + 1 : j \in 1 .. i \/ j = i + 1
    BY <1>1, <1>2
  <2>. QED  BY <1>2, <2>1, <2>4, <2>5 DEF n
<1>3. \A i \in 0 .. N : i \in P
  <2>1. 0 \in P
    BY <1>1
  <2>. HIDE DEF P, N
  <2>. QED  BY <1>1, <1>2, <2>1, UpTo
<1>4. \A p \in 1 .. N : Closed(Needed[StartOrder[p]])
  <2>1. \A p \in 1 .. N : p \in 0 .. N /\ p \in 1 .. p
    BY <1>1
  <2>. QED  BY <1>3, <2>1
<1>. QED  BY <1>1, <1>4, NeededSteps DEF Near

(* Whatever is in a list is preceded by what it depends on. *)
InOrder(s) ==
  \A k \in DOMAIN s : \A d \in Near(s[k]) : \E j \in 1 .. k - 1 : s[j] = d

(* start takes a sidecar after everything it depends on, although          *)
(* collect_deps finds the dependencies in no order.                        *)
LEMMA ChainInOrder ==
  ASSUME NEW n \in Sidecar
  PROVE  Chain(n) \in Seq(Sidecar) /\ InOrder(Chain(n))
<1>. DEFINE N == Len(StartOrder)
            S == Needed[n] \cup {n}
            f == Selected(StartOrder, S)
<1>. DEFINE P == {i \in 0 .. N : /\ f[i] \in Seq(Sidecar) /\ InOrder(f[i])
                                 /\ \A p \in 1 .. i : StartOrder[p] \in S =>
                                      StartOrder[p] \in Range(f[i])}
<1>1. /\ StartOrder \in Seq(Sidecar) /\ N \in Nat
      /\ \A i \in 1 .. N : StartOrder[i] \in Sidecar
      /\ \A i \in 1 .. N : \A d \in Near(StartOrder[i]) :
           \E j \in 1 .. i - 1 : StartOrder[j] = d
  BY OrderOfStart
<1>2. Closed(S)
  BY NeededClosed DEF Closed
<1>3. /\ f[0] = <<>>
      /\ \A i \in 1 .. N : f[i] = IF StartOrder[i] \in S
                                    THEN Append(f[i - 1], StartOrder[i])
                                    ELSE f[i - 1]
      /\ Chain(n) = f[N]
  BY <1>1, SelectedSteps DEF Chain, Select
<1>. HIDE DEF S, f
<1>4. 0 \in P
  <2>1. <<>> \in Seq(Sidecar) /\ InOrder(<<>>)
    BY EmptySeq DEF InOrder
  <2>2. 0 \in 0 .. N /\ 1 .. 0 = {}
    BY <1>1
  <2>. HIDE DEF N
  <2>. QED  BY <1>3, <2>1, <2>2
<1>5. ASSUME NEW i \in 0 .. N, i \in P, i < N  PROVE i + 1 \in P
  <2>. DEFINE m == StartOrder[i + 1]
              u == f[i]
  <2>1. /\ u \in Seq(Sidecar) /\ InOrder(u) /\ i + 1 \in 1 .. N
        /\ m \in Sidecar
        /\ \A p \in 1 .. i : StartOrder[p] \in S => StartOrder[p] \in Range(u)
    BY <1>1, <1>5
  <2>2. f[i + 1] = IF m \in S THEN Append(u, m) ELSE u
    <3>1. (i + 1) - 1 = i
      BY <1>1, <1>5
    <3>. QED  BY <1>3, <2>1, <3>1
  <2>3. \A p \in 1 .. i + 1 : p \in 1 .. i \/ p = i + 1
    BY <1>1, <1>5
  <2>4. CASE m \notin S
    BY <2>1, <2>2, <2>3, <2>4
  <2>5. CASE m \in S
    <3>. DEFINE w == Append(u, m)
    <3>1. w \in Seq(Sidecar) /\ Range(w) = Range(u) \cup {m}
      BY <2>1, RangeAppend, AppendProperties
    <3>2. \A p \in 1 .. i + 1 : StartOrder[p] \in S =>
            StartOrder[p] \in Range(w)
      BY <2>1, <2>3, <3>1
    <3>3. /\ Len(u) \in Nat /\ DOMAIN u = 1 .. Len(u)
          /\ DOMAIN w = 1 .. Len(u) + 1
          /\ \A k \in 1 .. Len(u) : w[k] = u[k]
          /\ w[Len(u) + 1] = m
      BY <2>1
    <3>4. \A d \in Near(m) : \E j \in 1 .. Len(u) : u[j] = d
      <4>. TAKE d \in Near(m)
      <4>1. PICK q \in 1 .. (i + 1) - 1 : StartOrder[q] = d
        BY <1>1, <2>1
      <4>2. d \in S /\ q \in 1 .. i
        BY <1>1, <1>2, <1>5, <2>5, <4>1 DEF Closed
      <4>3. d \in Range(u)
        BY <2>1, <4>1, <4>2
      <4>. QED  BY <3>3, <4>3 DEF Range
    <3>. HIDE DEF w, u, m
    <3>5. ASSUME NEW k \in DOMAIN w, NEW d \in Near(w[k])
          PROVE  \E j \in 1 .. k - 1 : w[j] = d
      <4>1. CASE k \in 1 .. Len(u)
        <5>1. PICK j \in 1 .. k - 1 : u[j] = d
          BY <2>1, <3>3, <3>5, <4>1 DEF InOrder
        <5>. QED  BY <3>3, <4>1, <5>1
      <4>2. CASE k = Len(u) + 1
        <5>1. PICK j \in 1 .. Len(u) : u[j] = d
          BY <3>3, <3>4, <3>5, <4>2
        <5>. QED  BY <3>3, <4>2, <5>1
      <4>. QED  BY <3>3, <4>1, <4>2
    <3>6. f[i + 1] = w /\ InOrder(w)
      BY <2>2, <2>5, <3>5 DEF InOrder, w
    <3>7. i + 1 \in 0 .. N
      BY <1>1, <1>5
    <3>. QED  BY <3>1, <3>2, <3>6, <3>7
  <2>. QED  BY <2>4, <2>5
<1>6. \A i \in 0 .. N : i \in P
  <2>. HIDE DEF P, N
  <2>. QED  BY <1>1, <1>4, <1>5, UpTo
<1>7. N \in P
  BY <1>1, <1>6
<1>. QED  BY <1>3, <1>7

(* A thread starts a sidecar after it has seen its dependencies healthy, or *)
(* has yet to wait for them.  This is the part of it a script promises.     *)
Awaited(s, i, d) == \E j \in 1 .. i - 1 : s[j] = Do("await", d)

LEMMA ScriptAwaits ==
  ASSUME NEW t \in Threads, NEW k \in Call, NEW i \in DOMAIN ScriptOf(t, k),
         ScriptOf(t, k)[i].do = "Start", NEW d \in Near(ScriptOf(t, k)[i].to)
  PROVE  Awaited(ScriptOf(t, k), i, d)
<1>1. k.api \in {"start", "stop", "restart", "start_all", "shutdown_all"}
  BY DEF Call
<1>2. CASE Len(t) = 1 /\ k.api = "start"
  <2>. DEFINE c == Chain(k.name)
              s == StartScript(k.name)
  <2>0. k.name \in Sidecar
    BY <1>2 DEF Call
  <2>1. c \in Seq(Sidecar) /\ InOrder(c) /\ Len(c) \in Nat
    BY <2>0, ChainInOrder
  <2>2. ScriptOf(t, k) = s
    BY <1>2 DEF ScriptOf, CallScript
  <2>3. s = [x \in 1 .. 2 * Len(c) - 1 |->
               Do(IF x % 2 = 1 THEN "Start" ELSE "await", c[(x + 1) \div 2])]
    BY DEF StartScript
  <2>. HIDE DEF s, c
  <2>4. /\ i \in 1 .. 2 * Len(c) - 1 /\ i % 2 = 1
        /\ s[i].to = c[(i + 1) \div 2] /\ (i + 1) \div 2 \in 1 .. Len(c)
    BY <2>1, <2>2, <2>3 DEF Do
  <2>5. PICK q \in 1 .. ((i + 1) \div 2) - 1 : c[q] = d
    BY <2>1, <2>2, <2>4 DEF InOrder
  <2>6. /\ 2 * q \in 1 .. i - 1 /\ 2 * q \in 1 .. 2 * Len(c) - 1 
        /\ (2 * q) % 2 = 0 /\ (2 * q + 1) \div 2 = q
    BY <2>1, <2>4
  <2>7. s[2 * q] = Do("await", d)
    <3>1. s[2 * q] = Do(IF (2 * q) % 2 = 1 THEN "Start" ELSE "await",
                        c[(2 * q + 1) \div 2])
      BY <2>3, <2>6
    <3>2. (2 * q) % 2 # 1 /\ c[(2 * q + 1) \div 2] = d
      BY <2>5, <2>6
    <3>. QED  BY <3>1, <3>2
  <2>. QED  BY <2>2, <2>6, <2>7 DEF Awaited
<1>3. CASE Len(t) # 1 /\ k.api = "start_all"
  <2>1. t[2] \in Sidecar
    BY <1>3 DEF Threads
  <2>. DEFINE n == t[2]
  <2>2. ScriptOf(t, k) = WaiterScript(n)
    BY <1>3 DEF ScriptOf
  <2>. HIDE DEF n
  <2>. DEFINE a ==
           [j \in DOMAIN DependsOn[n] |-> Do("await", DependsOn[n][j])]
              s == a \o <<Do("Start", n)>>
  <2>3. DependsOn[n] \in Seq(Sidecar)
    BY <2>1, DependsOnAssumption DEF n
  <2>4. a \in Seq(Step) /\ Len(a) = Len(DependsOn[n])
        /\ \A j \in 1 .. Len(a) : a[j] = Do("await", DependsOn[n][j])
    <3>1. \A j \in 1 .. Len(DependsOn[n]) :
            Do("await", DependsOn[n][j]) \in Step
      BY <2>3 DEF Do, Step, Operation
    <3>2. a \in [1 .. Len(DependsOn[n]) -> Step] /\ Len(DependsOn[n]) \in Nat
          /\ \A j \in 1 .. Len(DependsOn[n]) :
               a[j] = Do("await", DependsOn[n][j])
      BY <2>3, <3>1
    <3>. HIDE DEF a
    <3>. QED  BY <3>2
  <2>5. ScriptOf(t, k) = s
    BY <2>2 DEF WaiterScript
  <2>. HIDE DEF a
  <2>6. /\ DOMAIN s = 1 .. Len(a) + 1 /\ Len(a) \in Nat
        /\ \A j \in 1 .. Len(a) : s[j] = a[j]
        /\ s[Len(a) + 1] = Do("Start", n)
    BY <2>4
  <2>. HIDE DEF s
  <2>7. i = Len(a) + 1 /\ d \in Near(n)
    <3>1. i \in 1 .. Len(a) \/ i = Len(a) + 1
      BY <2>5, <2>6
    <3>2. i \notin 1 .. Len(a)
      <4>1. \A j \in 1 .. Len(a) : s[j] = Do("await", DependsOn[n][j])
        BY <2>4, <2>6
      <4>2. \A m : Do("await", m).do = "await"
        BY DEF Do
      <4>. QED  BY <2>5, <4>1, <4>2
    <3>3. s[i].to = n
      BY <2>6, <3>1, <3>2 DEF Do
    <3>. QED  BY <2>5, <3>1, <3>2, <3>3
  <2>8. PICK j \in 1 .. Len(a) : DependsOn[n][j] = d
    BY <2>3, <2>4, <2>7 DEF Near, Range
  <2>. QED  BY <2>4, <2>5, <2>6, <2>7, <2>8 DEF Awaited
<1>4. CASE Len(t) = 1 /\ k.api = "shutdown_all"
  <2>1. ScriptOf(t, k) = ShutdownScript
    BY <1>4 DEF ScriptOf, CallScript
  <2>. QED  BY <2>1, ShutdownScriptTells
<1>5. CASE Len(t) = 1 /\ k.api \in {"stop", "restart", "start_all"}
  BY <1>5 DEF ScriptOf, CallScript, Do
<1>6. CASE Len(t) # 1 /\ k.api # "start_all"
  BY <1>6 DEF ScriptOf
<1>. QED  BY <1>1, <1>2, <1>3, <1>4, <1>5, <1>6

(* Only calls that wait have awaits in their scripts. *)
LEMMA WhoAwaits ==
  ASSUME NEW t \in Threads, NEW k \in Call, ~Waits(k),
         NEW i \in DOMAIN ScriptOf(t, k)
  PROVE  ScriptOf(t, k)[i].do # "await"
<1>1. k.api \in {"stop", "restart", "shutdown_all"}
  BY DEF Call, Waits
<1>2. CASE Len(t) = 1 /\ k.api = "shutdown_all"
  BY <1>2, ShutdownScriptTells DEF ScriptOf, CallScript
<1>3. CASE Len(t) = 1 /\ k.api # "shutdown_all"
  BY <1>1, <1>3 DEF ScriptOf, CallScript, Do
<1>4. CASE Len(t) # 1
  BY <1>1, <1>4 DEF ScriptOf
<1>. QED  BY <1>2, <1>3, <1>4
=============================================================================
