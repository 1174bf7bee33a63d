------------------------------ MODULE MCKeyPool ------------------------------
(* TLC instances of KeyPool. *)
EXTENDS KeyPool, TLC

\* Requests differ in nothing but their name.
Symmetry == Permutations(Requests)

\* The last key of the list is the one whose quota resets daily.
LastDaily == {NKeys}

\* Two requests, one of each transport, meet in their first passes; the later
\* passes, and the user's edits of the pool, are explored for one request at a time.
Bounded ==
    (\A r \in Requests : req[r].pc # "idle")
        => /\ \A r \in Requests : req[r].passes <= 1
           /\ {req[r].streaming : r \in Requests} = BOOLEAN
           /\ enabled = [k \in Keys |-> TRUE]
=============================================================================
