------------------------------- MODULE Calls -------------------------------
(***************************************************************************)
(* What the models of the sequential parts share: the width of an unsigned *)
(* int, the sizes get_nice_size() cannot give, and how a call ends.  Each  *)
(* of these modules has one variable, the struct its functions are given,  *)
(* which is None while there is none.                                      *)
(***************************************************************************)
EXTENDS Sizes, FiniteSetsExt

CONSTANTS
    UIntRange,   \* 2^32 in the program
    None,        \* no object, no value
    Failed,      \* a negative error number, or NULL for an object
    Data,        \* the pointers callers hand to containers
    Rank         \* what data_compare() compares of them

ASSUME UIntAssumption ==
    /\ UIntRange \in Nat
    /\ \E w \in 2..32 : UIntRange = Power[w]

ASSUME DataAssumption ==
    /\ Rank \in [Data -> Int]
    /\ None \notin Data /\ Failed \notin Data /\ None # Failed

VARIABLES
    returned,    \* what the last call returned
    fault        \* the function that left its object's memory, or never ended

UIntMax == UIntRange - 1

Wrap(n) == n % UIntRange

\* the largest power of two that an unsigned int holds
TopBit == UIntRange \div 2

\* get_nice_size() shifts n to zero and goes on forever
NeverNice(m, min) == m >= min /\ m > TopBit

\* from here on nothing is known of the program
Stray(function) == fault' = function

Returns(value) == returned' = value /\ fault' = fault

Fine == fault = "none"
=============================================================================
