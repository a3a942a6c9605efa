----------------------------- MODULE MCUserMemory -----------------------------
(* Small instances of UserMemory for TLC.                                     *)
EXTENDS UserMemory, TLC

CONSTANTS f1, f2

MCFacts == {f1, f2}
MCOneFact == {f1}
(* No row yet, or a sheet with one line that is large enough to compact and   *)
(* about to fall under the clearing threshold.                                *)
MCStartRows ==
    {NoRow, [content |-> {f1}, project |-> "", version |-> 1, salience |-> 2]}
(* One line that is large enough to compact and fresh enough to ask about.    *)
MCRaceRows == {[content |-> {f1}, project |-> "", version |-> 1, salience |-> 3]}
Symmetry == Permutations(Jobs) \cup Permutations(Requests)

==============================================================================
