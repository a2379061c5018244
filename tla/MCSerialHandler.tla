--------------------------- MODULE MCSerialHandler ---------------------------
(***************************************************************************)
(* Small instances of SerialHandler                                        *)
(***************************************************************************)
EXTENDS SerialHandlerRefinement, ShippedProfiles, TLC

ReadBasic    == <<ReadFlash, Basic>>
ReadPedal    == <<ReadFlash, Pedal>>
ReadThrottle == <<ReadFlash, Throttle>>
AskGeneral   == Request(ReadFlash, General, <<176>>)

(* Accepted writes, and one whose start current is rejected *)
WriteThrottle  == Request(WriteFlash, Throttle, <<12, 30, 1, 255, 99, 100>>)
WriteThrottle2 == Request(WriteFlash, Throttle, <<50, 0, 0, 0, 0, 1>>)
WritePedal     == Request(WriteFlash, Pedal, <<4, 9, 255, 1, 8, 100, 10, 0, 8, 0, 1>>)
WriteRejected  == Request(WriteFlash, Throttle, <<50, 50, 1, 9, 99, 0>>)

(* A config file with the throttle section only, and a general file *)
ThrottleOnly == Tabulated(Throttle, << <<"DA", 9>>, <<"EV", 42>>, <<"MODE", 0>>,
                                       <<"SC", 20>>, <<"SL", 40>>, <<"SV", 11>> >>)
GeneralEl    == Tabulated(General, << <<"MODEL", 1111642930>>, <<"VOLTS", 3>>, <<"LIMIT", 25>> >>)

MCNoFile       == {NoFile}
MCConfigFiles  == {NoFile, Holding(ThrottleOnly)}
MCConfigEl     == {Holding(ConfigEl)}
MCGeneralFiles == {NoFile, Holding(GeneralEl)}

(* A write of the basic section as it is, and with a wheel that is unknown *)
WriteBasic   == Request(WriteFlash, Basic, Build(Basic, Load(Holding(ConfigEl))))
WriteNoWheel == Request(WriteFlash, Basic,
                        [Build(Basic, Load(Holding(ConfigEl))) EXCEPT ![23] = 33])

(* What a line may add: a lost end, the same write with one byte changed,  *)
(* a stray byte, a command and types that are not supported                *)
DamagedWrite == [WriteThrottle EXCEPT ![5] = 31]
Stray        == <<0>>
Unknown      == <<18, Basic>>
UnknownRead  == <<ReadFlash, 0>>
WriteGeneral == Request(WriteFlash, General, <<0>>)

MCStoreMessages == {AskGeneral, ReadPedal, WriteThrottle, WritePedal, WriteRejected}
MCDiskMessages  == {ReadPedal, WriteThrottle, WritePedal, WriteRejected}
MCFrameMessages == {AskGeneral, ReadBasic, WriteThrottle, WriteNoWheel}
MCNoisyMessages == {ReadThrottle, WriteThrottle, WriteThrottle2}
MCNoise         == {SubSeq(WriteThrottle, 1, 4), DamagedWrite, Stray, Unknown, UnknownRead, WriteGeneral}
MCGoodRequest   == {AskGeneral}
MCBadPacket     == {DamagedWrite}

(* What the theorems on ServedIsAccepted and on ConfigStore suppose *)
ASSUME MCFilesPass == FilesPass

Ports == Permutations(Port)

=============================================================================
