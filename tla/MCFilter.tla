------------------------------ MODULE MCFilter ------------------------------
(* Instances of Filter for TLC.                                            *)
EXTENDS Filter

MCNumbers == {-3, -1, 0, 1, 2, 4, 7, NaN}
\* fewer numbers than clients, as many, and more
MCStrings == [1 .. 2 -> MCNumbers] \cup [1 .. 3 -> MCNumbers] \cup [1 .. 4 -> {0, 2, NaN}]
\* the option alone, or a file, whose name is not a list of numbers
MCInputs ==
  {[file |-> NoFile, str |-> s] : s \in MCStrings} \cup
  {[file |-> f, str |-> <<NaN>>] : f \in MCStrings}
=============================================================================
