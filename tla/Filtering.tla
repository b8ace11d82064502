----------------------------- MODULE Filtering ------------------------------
(***************************************************************************)
(* The elements of a sequence that are in a set, in their order.            *)
(***************************************************************************)
EXTENDS Naturals, Sequences

Keep(s, K) ==
    LET kept[i \in 0..Len(s)] ==
            IF i = 0 THEN <<>>
            ELSE IF s[i] \in K THEN Append(kept[i - 1], s[i]) ELSE kept[i - 1]
    IN kept[Len(s)]
=============================================================================
