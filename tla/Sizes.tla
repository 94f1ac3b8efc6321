------------------------------- MODULE Sizes -------------------------------
(* Powers of two, and get_nice_size() of src/lib/container/container_p.c. *)
EXTENDS Integers

Power[n \in Nat] == IF n = 0 THEN 1 ELSE 2 * Power[n - 1]

IsPower(c) == \E n \in 0..c : c = Power[n]

First(S) == CHOOSE n \in S : \A o \in S : n <= o

\* NiceSizeExact: the size asked for, not rounded
NiceSizeExact(m, min) == IF m < min THEN min ELSE m

\* get_nice_size(): a power of two that is at least m, and at least min
NiceSize(m, min) ==
    IF m < min THEN min ELSE First({p \in {Power[n] : n \in 0..m} : p >= m})
=============================================================================
