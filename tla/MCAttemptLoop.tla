---------------------------- MODULE MCAttemptLoop ----------------------------
(* Small instances of AttemptLoop for TLC. *)
EXTENDS AttemptLoop

CONSTANTS a, b, c

Whole(s) == [src |-> s, half |-> FALSE]
Half(s)  == [src |-> s, half |-> TRUE]

\* An ordinary request with a row to probe, and pool requests whose fallback
\* queue names a regular candidate again: one with a regular probe, and one that
\* lends its probe to the fallback queue.
AllPlans == {
    [ordered |-> <<a, b>>, probe |-> c, fallback |-> <<>>],
    [ordered |-> <<a>>, probe |-> b, fallback |-> <<Whole(a), Whole(c)>>],
    [ordered |-> <<a>>, probe |-> NoSource,
     fallback |-> <<Whole(b), Half(c), Whole(a)>>]}
=============================================================================
