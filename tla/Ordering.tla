------------------------------ MODULE Ordering ------------------------------
(***************************************************************************)
(* Filtering and sorting of lists, as the services of the server and the   *)
(* database do them.  Both are written so that they can be reasoned about: *)
(* the test and the order are sets.                                        *)
(***************************************************************************)
EXTENDS Naturals, SequencesExt

(* What of s is in S, in the order of s.                                   *)
Only(s, S) ==
  LET upTo[n \in 0..Len(s)] ==
        IF n = 0 THEN <<>>
        ELSE IF s[n] \in S THEN Append(upTo[n - 1], s[n])
        ELSE upTo[n - 1]
  IN  upTo[Len(s)]

(* S as a list, in which the first of two has the second behind it.        *)
Sorted(S, before) ==
  CHOOSE s \in SetToSeqs(S) :
    \A i, k \in DOMAIN s : i < k => <<s[i], s[k]>> \in before
=============================================================================
