------------------------------- MODULE Lists -------------------------------
(* The part of a list a filter keeps, in the order of the list.            *)
EXTENDS Integers, Sequences

(* The elements of `s` at the places in T, in their order.                 *)
Picked(s, T) ==
  LET picked[i \in 0 .. Len(s)] == IF i = 0 THEN <<>>
                                   ELSE IF i \in T THEN Append(picked[i - 1], s[i])
                                   ELSE picked[i - 1]
  IN  picked[Len(s)]
=============================================================================
