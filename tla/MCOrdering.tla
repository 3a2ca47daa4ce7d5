----------------------------- MODULE MCOrdering -----------------------------
(* Instances of Ordering for TLC. *)
EXTENDS Ordering

Config(n, deps) == [name |-> n, depends_on |-> deps]

(* Dependencies of a config: none, one, or two that may be the same one. *)
Lists(S) == {<<>>} \cup {<<a>> : a \in S} \cup {<<a, b>> : a, b \in S}

(* Three sidecars with any dependencies, four with up to one each... *)
Graphs3 == {<<Config(2, a), Config(1, b), Config(3, c)>> :
              a, b, c \in Lists(1 .. 3)}
Graphs4 == {<<Config(1, a), Config(4, b), Config(3, c), Config(2, d)>> :
              a, d \in Lists(1 .. 3), b, c \in {<<>>, <<1>>, <<2>>, <<4, 1>>}}

(* ...and lists with a name twice, or a dependency that is no sidecar.     *)
Irregular == {<<Config(m, a), Config(n, b)>> :
                m, n \in {1, 2}, a, b \in Lists({1, 2, 4})}

SmallLists == {<<>>} \cup Graphs3 \cup Graphs4 \cup Irregular
=============================================================================
