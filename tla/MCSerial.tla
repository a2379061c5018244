------------------------------- MODULE MCSerial -------------------------------
(***************************************************************************)
(* Serial with three objects and two ports, each set of them alike         *)
(***************************************************************************)
EXTENDS Serial, TLC

MCSymmetry == Permutations(Object) \union Permutations(Port)

=============================================================================
