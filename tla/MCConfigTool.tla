---------------------------- MODULE MCConfigTool ----------------------------
(***************************************************************************)
(* ConfigTool with an emulator that starts without a config file, or with  *)
(* one of those that come with it                                          *)
(***************************************************************************)
EXTENDS ConfigTool, ShippedProfiles

MCGoodFiles == {NoFile, Holding(ConfigEl)}
MCAllBytes  == Byte

ASSUME MCConfigsPass == ConfigsPass

=============================================================================
