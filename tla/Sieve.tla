-------------------------------- MODULE Sieve --------------------------------
(***************************************************************************)
(* What is left of an array when a loop of vendor.js has gone through it   *)
(* and spliced out, or left aside, what does not belong to a set.          *)
(***************************************************************************)
EXTENDS Naturals, Sequences

\* The members of s that are in T, in their order.
Sifted(s, T) ==
  LET sift[k \in 0..Len(s)] == IF k = 0 THEN <<>>
                            ELSE IF s[k] \in T THEN Append(sift[k - 1], s[k]) ELSE sift[k - 1]
  IN sift[Len(s)]
=============================================================================
