------------------------------ MODULE NumberSeries ------------------------------
(***************************************************************************)
(* What document numbering promises: each kind of document is numbered     *)
(* 1, 2, 3, ... in the order its documents come into existence.            *)
(***************************************************************************)
EXTENDS Naturals

CONSTANT Kinds

VARIABLE issued  \* issued[k]: the numbers given to documents of kind k

Init == issued = [k \in Kinds |-> {}]

\* The document of kind k that comes next takes the next number.
Issue(k) ==
  \E n \in issued'[k] \ issued[k] :
    /\ issued' = [issued EXCEPT ![k] = @ \cup {n}]
    /\ \A m \in 1 .. (n - 1) : m \in issued[k]

Next == \E k \in Kinds : Issue(k)

Spec == Init /\ [][Next]_issued
=============================================================================
