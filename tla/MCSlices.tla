------------------------------ MODULE MCSlices ------------------------------
(* Two slice variables over blocks of up to two elements, with 3-bit numbers. *)
EXTENDS Slices

\* Before the target, within it, and behind its end.
SomeStarts == {-1, 0, 1, 3}
SomeCounts == {-1, 0, 1, 2}
============================================================================
