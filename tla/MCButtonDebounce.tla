------------------------- MODULE MCButtonDebounce -------------------------
(* ButtonDebounce with two buttons of opposite polarity. *)
EXTENDS ButtonDebounce

\* Both buttons debounce for the same time, as on the boards of this tree.
MCDebounceEqual == [b \in 1..2 |-> 2]

MCActiveHigh == [b \in 1..2 |-> b = 1]
=============================================================================
