------------------------------ MODULE Ordering ------------------------------
(***************************************************************************)
(* topo_sort (domain/ordering.rs): the order in which the manager starts   *)
(* its sidecars, or the reason why there is none.  One step for each pass  *)
(* over the configs, each iteration of the outer loop and each iteration   *)
(* of the inner one.                                                       *)
(***************************************************************************)
EXTENDS Naturals, Sequences, FiniteSets, Functions

CONSTANTS
  Name,        \* sidecar names, compared as strings by the code
  ConfigLists  \* the config lists examined

ASSUME NameAssumption == Name \subseteq Nat

SidecarConfig == [name : Name, depends_on : Seq(Name)]

ASSUME ConfigListsAssumption == ConfigLists \subseteq Seq(SidecarConfig)

VARIABLES
  configs,    \* the argument
  pc,
  in_degree,  \* of each name, the dependencies not yet relaxed
  queue,      \* names without any, taken from the end
  order,      \* the result so far
  todo,       \* dependencies on the name taken last, not yet relaxed
  result

vars == <<configs, pc, in_degree, queue, order, todo, result>>

(* The j-th dependency of the i-th config: names may repeat in both.       *)
Edges ==
  UNION {{i} \X DOMAIN configs[i].depends_on : i \in DOMAIN configs}

Dependent(e)  == configs[e[1]].name
Dependency(e) == configs[e[1]].depends_on[e[2]]

Names == {configs[i].name : i \in DOMAIN configs}

Results == {"none", "Ok", "UnknownDependency", "DependencyCycle"}

TypeOK ==
  /\ configs \in Seq(SidecarConfig)
  /\ pc \in {"validate", "count", "sort", "done"}
  /\ queue \in Seq(Names) /\ order \in Seq(Names)
  /\ todo \subseteq Edges
  /\ result \in Results /\ (result = "none" <=> pc # "done")
  /\ pc \in {"sort", "done"} /\ result # "UnknownDependency" =>
       in_degree \in [Names -> Nat]

Init ==
  /\ configs \in ConfigLists
  /\ pc = "validate"
  /\ in_degree = <<>> /\ queue = <<>> /\ order = <<>> /\ todo = {}
  /\ result = "none"

Validate ==
  /\ pc = "validate"
  /\ IF \A e \in Edges : Dependency(e) \in Names
       THEN pc' = "count" /\ UNCHANGED result
       ELSE pc' = "done" /\ result' = "UnknownDependency"
  /\ UNCHANGED <<configs, in_degree, queue, order, todo>>

(* Defect: a dependency that is listed twice is counted once. *)
DegreeOfDistinct(n) ==
  Cardinality({Dependency(e) : e \in {f \in Edges : Dependent(f) = n}})

DegreeOf(n) == Cardinality({e \in Edges : Dependent(e) = n})

Roots == {n \in Names : DegreeOf(n) = 0}

(* The first queue is in the order of the names. *)
Sorted(S) ==
  {s \in [1 .. Cardinality(S) -> S] :
     Range(s) = S /\ \A i, j \in DOMAIN s : i < j => s[i] < s[j]}

Count ==
  /\ pc = "count" /\ pc' = "sort"
  /\ in_degree' = [n \in Names |-> DegreeOf(n)]
  /\ queue' \in Sorted(Roots)
  /\ UNCHANGED <<configs, order, todo, result>>

Pop ==
  /\ pc = "sort" /\ todo = {} /\ queue # <<>>
  /\ order' = Append(order, queue[Len(queue)])
  /\ queue' = SubSeq(queue, 1, Len(queue) - 1)
  /\ todo' = {e \in Edges : Dependency(e) = queue[Len(queue)]}
  /\ UNCHANGED <<configs, pc, in_degree, result>>

(* `dependents` lists the dependents of a name in the order of the configs. *)
Before(e, f) == e[1] < f[1] \/ (e[1] = f[1] /\ e[2] <= f[2])

Relax(e) ==
  /\ pc = "sort" /\ e \in todo /\ \A f \in todo : Before(e, f)
  /\ todo' = todo \ {e}
  /\ in_degree' = [in_degree EXCEPT ![Dependent(e)] = @ - 1]
  /\ queue' = IF in_degree[Dependent(e)] = 1
                THEN Append(queue, Dependent(e)) ELSE queue
  /\ UNCHANGED <<configs, pc, order, result>>

(* Defect: what was sorted is returned, whatever is missing. *)
FinishAnyway ==
  /\ pc = "sort" /\ todo = {} /\ queue = <<>>
  /\ pc' = "done"
  /\ result' = "Ok"
  /\ UNCHANGED <<configs, in_degree, queue, order, todo>>

Finish ==
  /\ pc = "sort" /\ todo = {} /\ queue = <<>>
  /\ pc' = "done"
  /\ result' = IF Len(order) = Len(configs) THEN "Ok" ELSE "DependencyCycle"
  /\ UNCHANGED <<configs, in_degree, queue, order, todo>>

Next ==
  \/ Validate \/ Count \/ Pop \/ Finish
  \/ \E e \in todo : Relax(e)

Spec == Init /\ [][Next]_vars

-----------------------------------------------------------------------------
(* in_degree is a usize that is decremented without a check: it is         *)
(* positive whenever that happens, also with repeated dependencies.        *)
NoUnderflow == \A e \in todo : in_degree[Dependent(e)] > 0

(* What start order means, without an algorithm. *)
StartOrder(s) ==
  /\ Range(s) = Names
  /\ \A e \in Edges : \E i, j \in DOMAIN s :
       i < j /\ s[i] = Dependency(e) /\ s[j] = Dependent(e)

UniqueNames ==
  \A i, j \in DOMAIN configs : configs[i].name = configs[j].name => i = j

(* The sort succeeds exactly on the lists that have a start order and no   *)
(* name twice, and then it returns one that has every sidecar once: along  *)
(* it the manager starts, and against it it shuts down.                    *)
SortIsExact ==
  pc = "done" =>
    /\ (result = "Ok") <=>
         /\ UniqueNames
         /\ \E s \in [1 .. Cardinality(Names) -> Names] : StartOrder(s)
    /\ result = "Ok" => StartOrder(order) /\ Len(order) = Cardinality(Names)
=============================================================================
