------------------------------- MODULE Lists -------------------------------
(* A list without what is not wanted: iter().filter(...).collect() over    *)
(* start_order, and the lines of one stream in those of all.               *)
EXTENDS Naturals, Sequences

(* The first i elements of s that are in S, in their order. *)
Selected(s, S) ==
  LET upto[i \in 0 .. Len(s)] ==
        IF i = 0 THEN <<>>
        ELSE IF s[i] \in S THEN Append(upto[i - 1], s[i]) ELSE upto[i - 1]
  IN  upto

Select(s, S) == Selected(s, S)[Len(s)]
=============================================================================
