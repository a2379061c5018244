---------------------------- MODULE MCProfileFile ----------------------------
(***************************************************************************)
(* ProfileFile with two file names, two sections and files that a user has *)
(* edited: settings that are repeated, padded or no numbers, a section     *)
(* that comes twice; and malformed ones                                    *)
(***************************************************************************)
EXTENDS ProfileFile

MCOrder == <<<<"BASIC", "DA">>, <<"BASIC", "SL">>, <<"PEDAL", "DA">>, <<"PEDAL", "SL">>>>

MCSymmetry == Permutations(Path)

MCHandEdited ==
  {Holding(<<Section("BASIC"), Setting("SL", <<0, 7>>), Empty, Section("PEDAL"),
             Setting("DA", <<Letter>>), Section("BASIC"), Setting("SL", <<1, 2, Letter, 3>>)>>),
   Holding(<<Section("PEDAL"), Setting("SL", <<>>)>>),
   Holding(<<Section("PEDAL"), Section(""), Setting("SL", <<1>>)>>)}

=============================================================================
