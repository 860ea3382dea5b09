------------------------------- MODULE SeqOps -------------------------------
(***************************************************************************)
(* Operators on sequences, written as recursive functions over the         *)
(* indices so that SeqOpsProofs can prove what they compute.               *)
(***************************************************************************)
LOCAL INSTANCE Naturals
LOCAL INSTANCE Sequences

\* The sum of a sequence of naturals.
SumSeq(s) ==
    LET sum[n \in 0..Len(s)] == IF n = 0 THEN 0 ELSE sum[n - 1] + s[n]
    IN  sum[Len(s)]

\* s without its elements in S (VecDeque::retain).
WithoutAll(s, S) ==
    LET keep[n \in 0..Len(s)] ==
          IF n = 0 THEN <<>>
          ELSE IF s[n] \in S THEN keep[n - 1] ELSE Append(keep[n - 1], s[n])
    IN  keep[Len(s)]

\* s without the occurrences of e.
Without(s, e) == WithoutAll(s, {e})

\* No element occurs twice.
IsDistinct(s) == \A i, j \in DOMAIN s : s[i] = s[j] => i = j
=============================================================================
