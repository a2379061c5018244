--------------------------- MODULE ShippedProfiles ---------------------------
(***************************************************************************)
(* The config file the emulator is started with by default, as the         *)
(* constructor of profile reads it                                         *)
(***************************************************************************)
EXTENDS PacketBuilder

LOCAL Rows(names, values) == [i \in DOMAIN names |-> <<names[i], values[i]>>]

LOCAL Sections(basic, pedal, throttle) ==
  Merge(Tabulated(Basic, basic), Merge(Tabulated(Pedal, pedal), Tabulated(Throttle, throttle)))

(* config.el *)
ConfigEl ==
  Sections(Rows(ALBP, [i \in 1..10 |-> 10 * i]) \o Rows(ALC, [i \in 1..10 |-> 10 * i])
             \o << <<"LBP", 20>>, <<"LC", 18>>, <<"SMM", 0>>, <<"SMS", 1>>, <<"WD", 1>> >>,
           << <<"CD", 8>>, <<"DA", 255>>, <<"KC", 20>>, <<"PT", 3>>, <<"SC", 20>>, <<"SD", 20>>,
              <<"SDN", 20>>, <<"SL", 40>>, <<"SSM", 6>>, <<"TS", 25>>, <<"WM", 10>> >>,
           << <<"DA", 9>>, <<"EV", 42>>, <<"MODE", 0>>, <<"SC", 20>>, <<"SL", 40>>, <<"SV", 11>> >>)

=============================================================================
