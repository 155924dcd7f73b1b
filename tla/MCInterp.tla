------------------------------ MODULE MCInterp ------------------------------
(* Interp for TLC. *)
EXTENDS Interp

\* Tasks with an empty and a full data stack, and return stacks that end below,
\* inside and above the frames of the word that is left.
SavedStacks ==
    [ds : {<< >>, [i \in 1..DsCap |-> 1]},
     rs : {<< >>, <<1>>, [i \in 1..RsCap |-> 0]}]
=============================================================================
