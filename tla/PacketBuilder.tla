---------------------------- MODULE PacketBuilder ----------------------------
(***************************************************************************)
(* packet_builder.cpp: build turns a profile into the payload of a         *)
(* response, parse checks the payload of a write request field by field    *)
(* and turns it into profile settings. The tables of the two are kept      *)
(* apart, as they are in the code: that what was written is what is read   *)
(* back is a result and not a definition.                                  *)
(***************************************************************************)
EXTENDS Packet, Profile

ALC  == <<"ALC0", "ALC1", "ALC2", "ALC3", "ALC4",
          "ALC5", "ALC6", "ALC7", "ALC8", "ALC9">>
ALBP == <<"ALBP0", "ALBP1", "ALBP2", "ALBP3", "ALBP4",
          "ALBP5", "ALBP6", "ALBP7", "ALBP8", "ALBP9">>

(* The order of the lines of a saved file: std::map sorts the sections and *)
(* the names                                                               *)
KeyOrder ==
  LET Keys(t, names) == [i \in DOMAIN names |-> <<t, names[i]>>]
  IN  Keys(Basic, ALBP \o ALC \o <<"LBP", "LC", "SMM", "SMS", "WD">>)
      \o Keys(General, <<"FIRMWARD", "HARDWARD", "LIMIT", "MANUFACTURER", "MODEL", "VOLTS">>)
      \o Keys(Pedal, <<"CD", "DA", "KC", "PT", "SC", "SD", "SDN", "SL", "SSM", "TS", "WM">>)
      \o Keys(Throttle, <<"DA", "EV", "MODE", "SC", "SL", "SV">>)

(* The two settings that are words, of four letters *)
Words == {<<General, "MANUFACTURER">>, <<General, "MODEL">>}

(* What a text that has lost its end, but not all of it, is read as: a     *)
(* number without its last digits, a word without its last letters, behind *)
(* which memcpy finds the zero at the end of the string                    *)
Fragments(k, v) ==
  IF k \in Words THEN {v - (v % n) : n \in {256, 65536, 16777216}}
  ELSE {v \div n : n \in {10, 100, 1000, 10000, 100000, 1000000, 10000000,
                          100000000, 1000000000}} \ {0}

(* The files that a save on a full disk leaves when the disk ends inside a *)
(* line: the lines before it, and then a fragment of the value, or less,   *)
(* which is a bad line; a section or a name that is cut off is one, too    *)
TornFiles(d) ==
  {Garbled : k \in DOMAIN d} \union
  UNION {LET k      == KeyOrder[n]
             before == DOMAIN d \intersect Range(SubSeq(KeyOrder, 1, n - 1))
         IN  {Holding(Merge(Restrict(d, before), [l \in {k} |-> v])) : v \in Fragments(k, d[k])} :
         n \in {m \in DOMAIN KeyOrder : KeyOrder[m] \in DOMAIN d}}

(* A table is a sequence of rows that start with a name and a value: the   *)
(* settings that the rows of section t make                                *)
Tabulated(t, table) ==
  LET Row(name) == CHOOSE i \in DOMAIN table : table[i][1] = name
  IN  [k \in {t} \X {table[i][1] : i \in DOMAIN table} |-> table[Row(k[2])][2]]

(* Both wheels arrays: twice the wheel size in inches, 27.5" included *)
Wheels == <<32, 34, 36, 38, 40, 42, 44, 46, 48, 50, 52, 54, 55, 56, 58, 60>>

-----------------------------------------------------------------------------
(* build *)

(* The calls of find in the four functions build, in order: name, default *)
GeneralFinds ==
  << <<"MANUFACTURER", 1213880404>>, <<"MODEL", 1111642931>>,    \* "HZXT", "BBS3"
     <<"HARDWARD", 13105>>, <<"FIRMWARD", 825307184>>,           \* '31', '1100'
     <<"VOLTS", 4>>, <<"LIMIT", 30>> >>

BasicFinds ==
  << <<"LBP", 20>>, <<"LC", 25>> >>
  \o [i \in 1..10 |-> <<ALC[i], 10 * i>>]
  \o [i \in 1..10 |-> <<ALBP[i], 10 * i>>]
  \o << <<"WD", 10>>, <<"SMM", 0>>, <<"SMS", 1>> >>

PedalFinds ==
  << <<"PT", 3>>, <<"DA", 0>>, <<"SL", 0>>, <<"SC", 20>>, <<"SSM", 5>>, <<"SDN", 20>>,
     <<"WM", 0>>, <<"TS", 25>>, <<"CD", 8>>, <<"SD", 20>>, <<"KC", 20>> >>

ThrottleFinds ==
  << <<"SV", 11>>, <<"EV", 35>>, <<"MODE", 0>>, <<"DA", 4>>, <<"SL", 3>>, <<"SC", 20>> >>

Finds(t) == IF t = General THEN GeneralFinds
            ELSE IF t = Basic THEN BasicFinds
            ELSE IF t = Pedal THEN PedalFinds
            ELSE ThrottleFinds

(* What these calls return ... *)
Found(t, profile) ==
  LET finds == Finds(t)
  IN  [i \in DOMAIN finds |-> Find(profile, <<t, finds[i][1]>>, finds[i][2])]

(* ... and what they leave in the profile *)
Touched(t, profile) == FindAll(profile, Tabulated(t, Finds(t)))

(* Mutant: the two bits of the meter model are shifted by five *)
SpeedMeterByFive(smm, sms) == (smm * 32 + sms) % 256
SpeedMeter(smm, sms)       == (smm * 64 + sms) % 256

(* The payload of the response. Every member of the config sections is a   *)
(* uint8_t; wheels is indexed with whatever WD says                        *)
BuildGeneral(profile) ==
  LET v == Found(General, profile)
  IN  <<v[1], v[2], v[3] % 65536, v[4], v[5] % 256, v[6] % 256>>

BuildBasic(profile) ==
  LET v == Found(Basic, profile)
  IN  [i \in 1..24 |-> IF i = 23 THEN Wheels[v[23] + 1]
                      ELSE IF i = 24 THEN SpeedMeter(v[24], v[25])
                      ELSE v[i] % 256]

Build(t, profile) ==
  IF t = General THEN BuildGeneral(profile)
  ELSE IF t = Basic THEN BuildBasic(profile)
  ELSE LET v == Found(t, profile) IN [i \in DOMAIN v |-> v[i] % 256]

(* The index into wheels that build uses is within bounds *)
WheelInRange(profile) == Find(profile, <<Basic, "WD">>, 10) \in 0..15

-----------------------------------------------------------------------------
(* parse *)

Percent          == 1..100
UpToOr255(limit) == 0..limit \union {255}

(* The lambda find of the parse of a basic write *)
WheelIndex(b) == IF b \in Range(Wheels)
                 THEN (CHOOSE i \in DOMAIN Wheels : Wheels[i] = b) - 1
                 ELSE -1

(* The checks and the calls of add of the three functions parse, in order: *)
(* the name, the value to add, the values that pass the check, and the     *)
(* status if it does not pass. The checks of LBP and WM test for values    *)
(* above one bound and below a smaller one; they are written here as they  *)
(* are in the code                                                         *)
BasicSteps(b) ==
  << <<"LBP", b[1], {v \in Byte : ~(v > 55 /\ v < 18)}, 0>>,
     <<"LC", b[2], Byte \ {0}, 1>> >>
  \o [i \in 1..10 |-> <<ALC[i], b[i + 2], Percent, 2 * i>>]
  \o [i \in 1..10 |-> <<ALBP[i], b[i + 12], Percent, 2 * i + 1>>]
  \o << <<"WD", WheelIndex(b[23]), 0..15, 22>>,
        <<"SMM", b[24] \div 64, 0..2, 23>>,
        <<"SMS", b[24] % 64, 1..36, 23>> >>

PedalSteps(b) ==
  << <<"PT", b[1], 0..4, 0>>,
     <<"DA", b[2], UpToOr255(9), 1>>,
     <<"SL", b[3], UpToOr255(99), 2>>,
     <<"SC", b[4], 1..20, 3>>,
     <<"SSM", b[5], 1..8, 4>>,
     <<"SDN", b[6], Percent, 5>>,
     <<"WM", b[7], {v \in Byte : ~(v > 80 /\ v < 10 /\ v # 255)}, 6>>,
     <<"TS", b[8], Byte, 7>>,
     <<"CD", b[9], 1..8, 8>>,
     <<"SD", b[10], Byte, 9>>,
     <<"KC", b[11], Percent, 10>> >>

ThrottleSteps(b) ==
  << <<"SV", b[1], 0..50, 0>>,
     <<"EV", b[2], 0..50, 1>>,
     <<"MODE", b[3], 0..1, 2>>,
     <<"DA", b[4], UpToOr255(9), 3>>,
     <<"SL", b[5], UpToOr255(99), 4>>,
     <<"SC", b[6], Percent, 5>> >>

Steps(t, b) == IF t = Basic THEN BasicSteps(b)
               ELSE IF t = Pedal THEN PedalSteps(b)
               ELSE ThrottleSteps(b)

(* The last member of response_status_basic, _pedal and _throttle *)
Success(t) == CASE t = Basic -> 24 [] t = Pedal -> 11 [] t = Throttle -> 6

(* Mutant: the result of the lambda find is not looked at *)
FailingButWheel(t, b) == LET steps == Steps(t, b)
                         IN  {i \in DOMAIN steps : /\ steps[i][2] \notin steps[i][3]
                                                   /\ steps[i][1] # "WD"}

Failing(t, b) == LET steps == Steps(t, b)
                 IN  {i \in DOMAIN steps : steps[i][2] \notin steps[i][3]}

Accepted(t, b) == Failing(t, b) = {}

(* Mutant: the statuses are numbered like the checks *)
StatusOfRow(t, b) ==
  IF Accepted(t, b) THEN Success(t)
  ELSE (CHOOSE i \in Failing(t, b) : \A j \in Failing(t, b) : i <= j) - 1

(* The status parse returns: it stops at the first check that fails *)
Status(t, b) ==
  IF Accepted(t, b) THEN Success(t)
  ELSE LET first == CHOOSE i \in Failing(t, b) : \A j \in Failing(t, b) : i <= j
       IN  Steps(t, b)[first][4]

(* The settings of a profile pass the checks of the writes they could have *)
(* come from. The checks are the same for all payloads, so that any one    *)
(* payload shows them; a profile that was edited by hand may fail some     *)
SettingsPass(profile) ==
  \A t \in ConfigType :
    LET steps == Steps(t, [i \in 1..RequestPayloadSize(t) |-> 0])
    IN  \A i \in DOMAIN steps :
          LET k == <<t, steps[i][1]>>
          IN  k \in DOMAIN profile.data => profile.data[k] \in steps[i][3]

(* temp at the end of an accepted write: a copy of config with the         *)
(* settings of the request                                                 *)
Adding(t, b, config) == AddAll(config, Tabulated(t, Steps(t, b)))

=============================================================================
