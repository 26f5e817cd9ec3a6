------------------------------- MODULE Sifting -------------------------------
(* SelectSeq with a set for its test.  It is a recursive function, and not    *)
(* the library's operator, so that one can prove what it returns: the prover *)
(* knows of SelectSeq no more than its name.                                 *)
EXTENDS Naturals, Sequences

(* The elements of s that are in K, in their order. *)
Sift(s, K) ==
  LET kept[i \in 0 .. Len(s)] ==
        IF i = 0 THEN << >>
        ELSE IF s[i] \in K THEN Append(kept[i - 1], s[i])
        ELSE kept[i - 1]
  IN  kept[Len(s)]
=============================================================================
