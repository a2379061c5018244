----------------------- MODULE SerialHandlerRefinement -----------------------
(***************************************************************************)
(* SerialHandler implements ConfigStore: the register of a section is what *)
(* the next read would serve, a write takes effect with config = temp, and *)
(* it has been stored when the worker is past profile::save.               *)
(***************************************************************************)
EXTENDS SerialHandler

Served == [t \in PacketType |-> Build(t, IF t = General THEN profile.general
                                                        ELSE profile.config)]

UnderWay == [p \in Port |->
               IF pc[p] = "save" /\ request[p][1] = WriteFlash
               THEN <<"stored", request[p][2], request[p][3]>>
               ELSE IF pc[p] = "reply" THEN <<"answer", response[p]>>
               ELSE <<>>]

Store == INSTANCE ConfigStore WITH store <- Served, pending <- UnderWay

(* The emulator with its workers, its two profiles and its files behaves   *)
(* like one register per section, crashes included. It needs profiles that *)
(* can be opened, since a save that throws leaves a write in memory that   *)
(* is not in the file and a start that does not get at a file serves       *)
(* defaults, and disks that are not full                                   *)
ImplementsConfigStore == Store!Spec

=============================================================================
