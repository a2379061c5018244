------------------------ MODULE PacketBuilder_proofs ------------------------
(***************************************************************************)
(* Lemmas about the operators of Packet, Profile and PacketBuilder: what   *)
(* they return for all profiles and all payloads                           *)
(***************************************************************************)
EXTENDS PacketBuilder, FiniteSetTheorems, SequenceTheorems, WellFoundedInduction, TLAPS

(* The names of settings; rows of the tables of build and of parse. A row  *)
(* for the wheel holds an index into wheels, in parse if the check lets it *)
(* pass                                                                    *)
Name ==
  {"ALC0", "ALC1", "ALC2", "ALC3", "ALC4", "ALC5", "ALC6", "ALC7", "ALC8", "ALC9",
   "ALBP0", "ALBP1", "ALBP2", "ALBP3", "ALBP4", "ALBP5", "ALBP6", "ALBP7", "ALBP8", "ALBP9",
   "LBP", "LC", "WD", "SMM", "SMS", "PT", "DA", "SL", "SC", "SSM", "SDN", "WM", "TS", "CD",
   "SD", "KC", "SV", "EV", "MODE",
   "MANUFACTURER", "MODEL", "HARDWARD", "FIRMWARD", "VOLTS", "LIMIT"}

FindRow == {r \in Name \X Int : r[1] = "WD" => r[2] \in 0..15}
ValueSet == SUBSET Int
StepRow == {r \in Name \X Int \X ValueSet \X Nat : r[1] = "WD" => r[3] = 0..15}

PayloadOf(t) == [1..RequestPayloadSize(t) -> Byte]

-----------------------------------------------------------------------------
(* Profiles *)

(* Replacing and extending settings leaves settings *)
LEMMA MergeType ==
  ASSUME NEW d, NEW e, IsData(d), IsData(e)
  PROVE  IsData(Merge(d, e))
BY DEF IsData, Merge

(* The data of a file that is cut short are settings, too *)
LEMMA CutsType ==
  ASSUME NEW d, IsData(d), NEW order, NEW c \in Cuts(d, order)
  PROVE  IsData(c) /\ DOMAIN c \subseteq DOMAIN d /\ \A k \in DOMAIN c : c[k] = d[k]
<1>1. PICK n \in 0..Len(order) : c = Restrict(d, DOMAIN d \intersect Range(SubSeq(order, 1, n)))
  BY DEF Cuts
<1> QED BY <1>1 DEF IsData, Restrict

(* The constructor of profile makes a profile of whatever is on disk, if   *)
(* it gets to the end of it                                                *)
LEMMA LoadType ==
  ASSUME NEW f, IsFile(f), Readable(f)
  PROVE  IsProfile(Load(f))
<1>1. CASE f = NoFile
  BY <1>1 DEF Load, IsProfile, IsData, NoData
<1>2. CASE f # NoFile
  <2>1. PICK d \in f : f = Holding(d) /\ IsData(d)
    BY <1>2 DEF IsFile, Readable
  <2>2. (CHOOSE e \in f : TRUE) = d
    BY <2>1 DEF Holding
  <2> QED BY <1>2, <2>1, <2>2 DEF Load, IsProfile
<1> QED BY <1>1, <1>2

(* Settings are not taken for a file with a bad line *)
LEMMA HoldingType ==
  ASSUME NEW c, IsData(c)
  PROVE  /\ IsFile(Holding(c)) /\ Readable(Holding(c)) /\ Holding(c) # NoFile
         /\ Load(Holding(c)) = [exists |-> TRUE, data |-> c]
<1>1. c \in Holding(c) /\ Holding(c) # NoFile
  BY DEF Holding, NoFile
<1>2. (CHOOSE d \in Holding(c) : TRUE) = c
  BY DEF Holding
<1>3. Holding(c) # Garbled
  <2> DEFINE g == [k \in {BadLine} |-> 0]
  <2>1. BadLine \in DOMAIN g
    OBVIOUS
  <2>2. c # g
    BY <2>1 DEF IsData
  <2> HIDE DEF g
  <2> QED BY <2>2 DEF Holding, Garbled, g
<1> QED BY <1>1, <1>2, <1>3 DEF IsFile, Readable, Load

(* The rows of a table become settings of its section *)
LEMMA TabulatedType ==
  ASSUME NEW t, NEW S, NEW table \in Seq(S), \A r \in S : r[2] \in Int
  PROVE  IsData(Tabulated(t, table))
<1> DEFINE Row(name) == CHOOSE i \in DOMAIN table : table[i][1] = name
           Keys == {t} \X {table[i][1] : i \in DOMAIN table}
<1>1. ASSUME NEW k \in Keys PROVE table[Row(k[2])][2] \in Int
  <2>1. PICK i \in DOMAIN table : table[i][1] = k[2]
    OBVIOUS
  <2>2. Row(k[2]) \in DOMAIN table
    BY <2>1
  <2> QED BY <2>2
<1>2. Tabulated(t, table) = [k \in Keys |-> table[Row(k[2])][2]]
  BY DEF Tabulated
<1>3. ASSUME NEW k \in Keys PROVE k # BadLine
  <2>1. PICK n \in {table[i][1] : i \in DOMAIN table} : k = <<t, n>>
    OBVIOUS
  <2>2. Len(<<t, n>>) = 2 /\ Len(<<>>) = 0
    OBVIOUS
  <2> QED BY <2>1, <2>2 DEF BadLine
<1> QED BY <1>1, <1>2, <1>3 DEF IsData

-----------------------------------------------------------------------------
(* build *)

(* Two tables put together *)
LEMMA TwoTables ==
  ASSUME NEW S, NEW a \in Seq(S), NEW b \in Seq(S), NEW c, c = a \o b
  PROVE  /\ c \in Seq(S)
         /\ Len(c) = Len(a) + Len(b)
         /\ \A i \in 1..Len(a) : c[i] = a[i]
         /\ \A i \in 1..Len(b) : c[Len(a) + i] = b[i]
BY SMT

(* w is the table of the basic section, put together of two, ten, ten and  *)
(* three rows; and every row is found behind those of the parts before it  *)
FourParts(S, w, a, b, c, d) ==
  /\ a \in Seq(S) /\ b \in Seq(S) /\ c \in Seq(S) /\ d \in Seq(S)
  /\ w = a \o b \o c \o d
  /\ Len(a) <= 2 /\ 2 <= Len(a) /\ Len(b) <= 10 /\ 10 <= Len(b)
  /\ Len(c) <= 10 /\ 10 <= Len(c) /\ Len(d) <= 3 /\ 3 <= Len(d)

RowsOf(S, w, a, b, c, d) ==
  /\ w \in Seq(S)
  /\ Len(w) = 25
  /\ w[1] = a[1] /\ w[2] = a[2]
  /\ \A i \in 1..10 : w[i + 2] = b[i]
  /\ \A i \in 1..10 : w[i + 12] = c[i]
  /\ w[23] = d[1] /\ w[24] = d[2] /\ w[25] = d[3]

(* Every row of the four parts is found in the table                       *)
LEMMA BasicTable ==
  ASSUME NEW S, NEW w, NEW a, NEW b, NEW c, NEW d, FourParts(S, w, a, b, c, d)
  PROVE  RowsOf(S, w, a, b, c, d)
<1> USE DEF FourParts
<1> DEFINE x == a \o b
           y == x \o c
<1>1. w = y \o d
  OBVIOUS
<1>2. /\ x \in Seq(S) /\ Len(x) = Len(a) + Len(b)
      /\ \A i \in 1..Len(a) : x[i] = a[i]
      /\ \A i \in 1..Len(b) : x[Len(a) + i] = b[i]
  BY TwoTables
<1> HIDE DEF x
<1>3. /\ y \in Seq(S) /\ Len(y) = Len(x) + Len(c)
      /\ \A i \in 1..Len(x) : y[i] = x[i]
      /\ \A i \in 1..Len(c) : y[Len(x) + i] = c[i]
  BY <1>2, TwoTables
<1> HIDE DEF y
<1>4. /\ w \in Seq(S) /\ Len(w) = Len(y) + Len(d)
      /\ \A i \in 1..Len(y) : w[i] = y[i]
      /\ \A i \in 1..Len(d) : w[Len(y) + i] = d[i]
  BY <1>1, <1>3, TwoTables
<1>5. Len(x) = 12 /\ Len(y) = 22
  BY <1>2, <1>3
<1>6. w[1] = a[1] /\ w[2] = a[2]
  BY <1>2, <1>3, <1>4, <1>5
<1>7. \A i \in 1..10 : w[i + 2] = b[i]
  BY <1>2, <1>3, <1>4, <1>5
<1>8. \A i \in 1..10 : w[i + 12] = c[i]
  BY <1>3, <1>4, <1>5
<1>9. w[Len(y) + 1] = d[1] /\ w[Len(y) + 2] = d[2] /\ w[Len(y) + 3] = d[3]
  BY <1>4
<1>10. w[23] = d[1] /\ w[24] = d[2] /\ w[25] = d[3]
  BY <1>5, <1>9
<1>11. w \in Seq(S) /\ Len(w) = 25
  BY <1>4, <1>5
<1> QED BY <1>6, <1>7, <1>8, <1>10, <1>11, Zenon DEF RowsOf

(* The names of the assist levels are names, and none is the wheel's       *)
LEMMA NamesType == /\ ALC \in [1..10 -> Name \ {"WD"}]
                    /\ ALBP \in [1..10 -> Name \ {"WD"}]
BY DEF ALC, ALBP, Name

(* The rows of the basic section, as the table of build has them *)
BasicFindsRows ==
  /\ Len(BasicFinds) = 25
  /\ BasicFinds[1] = <<"LBP", 20>> /\ BasicFinds[2] = <<"LC", 25>>
  /\ \A i \in 1..10 : /\ BasicFinds[i + 2] = <<ALC[i], 10 * i>>
                      /\ BasicFinds[i + 12] = <<ALBP[i], 10 * i>>
  /\ BasicFinds[23] = <<"WD", 10>> /\ BasicFinds[24] = <<"SMM", 0>>
  /\ BasicFinds[25] = <<"SMS", 1>>

(* The table of build has a name and a number in every row *)
LEMMA FindsType ==
  /\ \A t \in PacketType : Finds(t) \in Seq(FindRow)
  /\ BasicFindsRows
<1>1. GeneralFinds \in Seq(FindRow)
  BY SMT DEF FindRow, Name, GeneralFinds
<1>2. BasicFinds \in Seq(FindRow) /\ BasicFindsRows
  <2>1. [i \in 1..10 |-> <<ALC[i], 10 * i>>] \in Seq(FindRow)
    BY NamesType, SMT DEF FindRow
  <2>2. [i \in 1..10 |-> <<ALBP[i], 10 * i>>] \in Seq(FindRow)
    BY NamesType, SMT DEF FindRow
  <2>3. << <<"LBP", 20>>, <<"LC", 25>> >> \in Seq(FindRow)
    BY SMT DEF FindRow, Name
  <2>4. << <<"WD", 10>>, <<"SMM", 0>>, <<"SMS", 1>> >> \in Seq(FindRow)
    BY SMT DEF FindRow, Name
  <2> DEFINE a == << <<"LBP", 20>>, <<"LC", 25>> >>
             b == [i \in 1..10 |-> <<ALC[i], 10 * i>>]
             c == [i \in 1..10 |-> <<ALBP[i], 10 * i>>]
             d == << <<"WD", 10>>, <<"SMM", 0>>, <<"SMS", 1>> >>
  <2>5. BasicFinds = a \o b \o c \o d
    BY DEF BasicFinds
  <2>6. FourParts(FindRow, BasicFinds, a, b, c, d)
    <3>1. Len(a) = 2 /\ Len(b) = 10 /\ Len(c) = 10 /\ Len(d) = 3
      BY SMT
    <3>2. /\ a \in Seq(FindRow) /\ b \in Seq(FindRow)
          /\ c \in Seq(FindRow) /\ d \in Seq(FindRow)
      BY <2>1, <2>2, <2>3, <2>4
    <3> HIDE DEF a, b, c, d
    <3>3. /\ Len(a) <= 2 /\ 2 <= Len(a) /\ Len(b) <= 10 /\ 10 <= Len(b)
          /\ Len(c) <= 10 /\ 10 <= Len(c) /\ Len(d) <= 3 /\ 3 <= Len(d)
      BY <3>1
    <3> QED BY <2>5, <3>2, <3>3, Zenon DEF FourParts
  <2>7. RowsOf(FindRow, BasicFinds, a, b, c, d)
    BY <2>6, BasicTable, Zenon
  <2>8. BasicFinds \in Seq(FindRow)
    BY <2>7 DEF RowsOf
  <2>9. /\ Len(BasicFinds) = 25
        /\ BasicFinds[1] = a[1] /\ BasicFinds[2] = a[2]
        /\ \A i \in 1..10 : BasicFinds[i + 2] = b[i] /\ BasicFinds[i + 12] = c[i]
        /\ BasicFinds[23] = d[1] /\ BasicFinds[24] = d[2] /\ BasicFinds[25] = d[3]
    <3> HIDE DEF a, b, c, d
    <3> QED BY <2>7, Zenon DEF RowsOf
  <2> DEFINE w == BasicFinds
  <2> HIDE DEF w
  <2> QED BY <2>8, <2>9, Zenon DEF BasicFindsRows, a, b, c, d
<1>3. PedalFinds \in Seq(FindRow)
  BY SMT DEF FindRow, Name, PedalFinds
<1>4. ThrottleFinds \in Seq(FindRow)
  BY SMT DEF FindRow, Name, ThrottleFinds
<1> QED BY <1>1, <1>2, <1>3, <1>4 DEF Finds

(* The settings a table makes are right for the wheel if its rows are *)
LEMMA TabulatedWheel ==
  ASSUME NEW t, NEW S, NEW table \in Seq(S),
         \A r \in S : r[1] = "WD" => r[2] \in 0..15,
         <<Basic, "WD">> \in DOMAIN Tabulated(t, table)
  PROVE  Tabulated(t, table)[<<Basic, "WD">>] \in 0..15
<1> DEFINE Row(name) == CHOOSE i \in DOMAIN table : table[i][1] = name
           Keys == {t} \X {table[i][1] : i \in DOMAIN table}
<1>1. Tabulated(t, table) = [k \in Keys |-> table[Row(k[2])][2]]
  BY DEF Tabulated
<1>2. <<Basic, "WD">> \in Keys
  BY <1>1
<1>3. PICK i \in DOMAIN table : table[i][1] = "WD"
  BY <1>2
<1>4. Row("WD") \in DOMAIN table /\ table[Row("WD")][1] = "WD"
  BY <1>3
<1>5. table[Row("WD")] \in S
  BY <1>4
<1> QED BY <1>1, <1>2, <1>4, <1>5

(* What find leaves in a profile is a profile, and its wheel is in range *)
LEMMA TouchedType ==
  ASSUME NEW t \in PacketType, NEW p, IsProfile(p)
  PROVE  /\ IsProfile(Touched(t, p))
         /\ Touched(t, p).exists = p.exists
         /\ p.exists => Touched(t, p) = p
         /\ WheelInRange(p) => WheelInRange(Touched(t, p))
<1> DEFINE T == Tabulated(t, Finds(t))
<1>0. \A r \in FindRow : r[2] \in Int /\ (r[1] = "WD" => r[2] \in 0..15)
  BY SMT DEF FindRow
<1>1. IsData(T)
  BY <1>0, FindsType, TabulatedType
<1>2. <<Basic, "WD">> \in DOMAIN T => T[<<Basic, "WD">>] \in 0..15
  BY <1>0, FindsType, TabulatedWheel
<1> HIDE DEF T
<1>3. Touched(t, p) = IF p.exists THEN p ELSE [p EXCEPT !.data = Merge(T, @)]
  BY DEF Touched, FindAll, T
<1>4. CASE p.exists
  BY <1>3, <1>4
<1>5. CASE ~p.exists
  <2>1. Touched(t, p) = [exists |-> p.exists, data |-> Merge(T, p.data)]
    BY <1>3, <1>5 DEF IsProfile
  <2>2. IsProfile(Touched(t, p))
    BY <2>1, <1>1, MergeType DEF IsProfile
  <2>3. ASSUME WheelInRange(p) PROVE WheelInRange(Touched(t, p))
    BY <2>1, <2>3, <1>2 DEF WheelInRange, Find, Merge
  <2> QED BY <1>5, <2>1, <2>2, <2>3
<1> QED BY <1>4, <1>5

-----------------------------------------------------------------------------
(* The payload of a response *)

(* What build finds is a table of numbers, one for each call of find       *)
LEMMA FoundType ==
  ASSUME NEW t \in PacketType, NEW p, IsProfile(p)
  PROVE  /\ DOMAIN Found(t, p) = 1..Len(Finds(t))
         /\ \A i \in 1..Len(Finds(t)) : Found(t, p)[i] \in Int
<1> DEFINE F == Finds(t)
<1>0. \A r \in FindRow : r[2] \in Int
  BY SMT DEF FindRow
<1>1. F \in Seq(FindRow)
  BY FindsType
<1>2. Found(t, p) = [i \in DOMAIN F |-> Find(p, <<t, F[i][1]>>, F[i][2])]
  BY DEF Found
<1>3. DOMAIN F = 1..Len(F) /\ \A i \in DOMAIN F : F[i] \in FindRow
  BY <1>1, ElementOfSeq, LenProperties
<1> HIDE DEF F
<1>4. \A i \in DOMAIN F : Find(p, <<t, F[i][1]>>, F[i][2]) \in Int
  BY <1>0, <1>3 DEF Find, IsProfile, IsData
<1> QED BY <1>2, <1>3, <1>4 DEF F

(* The tables of build are as long as the payloads, two settings making up *)
(* the last byte of the basic one, and the last but two is the wheel       *)
LEMMA FindsLength ==
  /\ Len(Finds(General)) = 6 /\ Len(Finds(Pedal)) = 11 /\ Len(Finds(Throttle)) = 6
  /\ Len(Finds(Basic)) = 25 /\ Finds(Basic)[23] = <<"WD", 10>>
<1>1. Len(GeneralFinds) = 6 /\ Len(PedalFinds) = 11 /\ Len(ThrottleFinds) = 6
  BY SMT DEF GeneralFinds, PedalFinds, ThrottleFinds
<1>2. Len(BasicFinds) = 25 /\ BasicFinds[23] = <<"WD", 10>>
  BY FindsType DEF BasicFindsRows
<1> QED BY <1>1, <1>2 DEF Finds, General, Basic, Pedal, Throttle

(* What build puts into a response are numbers, if the wheel is in range *)
LEMMA BuildType ==
  ASSUME NEW t \in PacketType, NEW p, IsProfile(p), t = Basic => WheelInRange(p)
  PROVE  Build(t, p) \in Seq(Int)
<1> DEFINE v == Found(t, p)
<1>1. CASE t = General
  <2>1. \A i \in 1..6 : v[i] \in Int
    BY <1>1, FoundType, FindsLength
  <2> QED BY <1>1, <2>1 DEF Build, BuildGeneral
<1>2. CASE t = Basic
  <2>1. \A i \in 1..25 : v[i] \in Int
    BY <1>2, FoundType, FindsLength
  <2>2. v[23] = Find(p, <<Basic, "WD">>, 10)
    BY <1>2, FindsLength, FoundType DEF Found
  <2>3. Wheels[v[23] + 1] \in Int
    BY <1>2, <2>2 DEF WheelInRange, Wheels
  <2>4. SpeedMeter(v[24], v[25]) \in Int
    BY <2>1 DEF SpeedMeter
  <2> HIDE DEF v
  <2>5. Build(t, p) = [i \in 1..24 |-> IF i = 23 THEN Wheels[v[23] + 1]
                                      ELSE IF i = 24 THEN SpeedMeter(v[24], v[25])
                                      ELSE v[i] % 256]
    BY <1>2 DEF Build, BuildBasic, General, Basic, v
  <2> QED BY <2>1, <2>3, <2>4, <2>5
<1>3. CASE t = Pedal \/ t = Throttle
  <2>1. \A i \in 1..Len(Finds(t)) : v[i] \in Int
    BY FoundType
  <2>2. DOMAIN v = 1..Len(Finds(t)) /\ Len(Finds(t)) \in Nat
    BY <1>3, FoundType, FindsLength
  <2>3. Build(t, p) = [i \in DOMAIN v |-> v[i] % 256]
    BY <1>3 DEF Build, General, Basic, Pedal, Throttle
  <2> HIDE DEF v
  <2> QED BY <2>1, <2>2, <2>3
<1> QED BY <1>1, <1>2, <1>3 DEF PacketType, ConfigType

-----------------------------------------------------------------------------
(* parse *)

(* The lambda find of parse returns an index into wheels, or -1            *)
LEMMA WheelIndexType ==
  ASSUME NEW w
  PROVE  WheelIndex(w) \in -1..15
<1>1. CASE w \in Range(Wheels)
  <2>1. PICK i \in DOMAIN Wheels : Wheels[i] = w
    BY <1>1 DEF Range
  <2>2. DOMAIN Wheels = 1..16
    BY DEF Wheels
  <2>3. (CHOOSE j \in DOMAIN Wheels : Wheels[j] = w) \in 1..16
    BY <2>1, <2>2
  <2> QED BY <1>1, <2>3 DEF WheelIndex
<1>2. CASE w \notin Range(Wheels)
  BY <1>2 DEF WheelIndex
<1> QED BY <1>1, <1>2

(* The values that pass a check are numbers *)
LEMMA PassingType ==
  /\ UpToOr255(9) \in ValueSet /\ UpToOr255(99) \in ValueSet
  /\ Percent \in ValueSet
  /\ Byte \in ValueSet
BY SMT DEF ValueSet, UpToOr255, Percent, Byte

(* A row for a setting other than the wheel is a row of the table of       *)
(* parse                                                                   *)
LEMMA RowType ==
  ASSUME NEW n \in Name, n # "WD", NEW v \in Int, NEW A \in ValueSet, NEW s \in Nat
  PROVE  <<n, v, A, s>> \in StepRow
BY SMT DEF StepRow

(* Eleven rows make a table                                                *)
LEMMA ElevenRows ==
  ASSUME NEW S, NEW a \in S, NEW b \in S, NEW c \in S, NEW d \in S, NEW e \in S, NEW f \in S,
         NEW g \in S, NEW h \in S, NEW i \in S, NEW j \in S, NEW k \in S
  PROVE  <<a, b, c, d, e, f, g, h, i, j, k>> \in Seq(S)
BY SMT

(* Six rows make a table                                                   *)
LEMMA SixRows ==
  ASSUME NEW S, NEW a \in S, NEW b \in S, NEW c \in S, NEW d \in S, NEW e \in S, NEW f \in S
  PROVE  <<a, b, c, d, e, f>> \in Seq(S)
BY SMT

(* The table of the parse of a throttle write has rows of the right form   *)
LEMMA ThrottleStepsType ==
  ASSUME NEW b \in [1..6 -> Byte]
  PROVE  ThrottleSteps(b) \in Seq(StepRow)
<1>1. 0..50 \in ValueSet /\ 0..1 \in ValueSet
  BY SMT DEF ValueSet
<1>2. /\ b[1] \in Int /\ b[2] \in Int /\ b[3] \in Int /\ b[4] \in Int /\ b[5] \in Int /\ b[6] \in Int
  <2>1. \A i \in 1..6 : b[i] \in Int
    BY DEF Byte
  <2> QED BY <2>1
<1>3. /\ "SV" \in Name /\ "SV" # "WD"
      /\ "EV" \in Name /\ "EV" # "WD"
      /\ "MODE" \in Name /\ "MODE" # "WD"
      /\ "DA" \in Name /\ "DA" # "WD"
      /\ "SL" \in Name /\ "SL" # "WD"
      /\ "SC" \in Name /\ "SC" # "WD"
  BY SMT DEF Name
<1>4. /\ <<"SV", b[1], 0..50, 0>> \in StepRow
      /\ <<"EV", b[2], 0..50, 1>> \in StepRow
      /\ <<"MODE", b[3], 0..1, 2>> \in StepRow
      /\ <<"DA", b[4], UpToOr255(9), 3>> \in StepRow
      /\ <<"SL", b[5], UpToOr255(99), 4>> \in StepRow
      /\ <<"SC", b[6], Percent, 5>> \in StepRow
  BY <1>1, <1>2, <1>3, PassingType, RowType, Zenon
<1> QED BY <1>4, SixRows DEF ThrottleSteps

(* The table of the parse of a pedal write has rows of the right form      *)
LEMMA PedalStepsType ==
  ASSUME NEW b \in [1..11 -> Byte]
  PROVE  PedalSteps(b) \in Seq(StepRow)
<1> DEFINE W == {v \in Byte : ~(v > 80 /\ v < 10 /\ v # 255)}
<1>0. W \in ValueSet
  BY SMT DEF Byte, ValueSet
<1> HIDE DEF W
<1>1. 0..4 \in ValueSet /\ 1..20 \in ValueSet /\ 1..8 \in ValueSet
  BY SMT DEF ValueSet
<1>2. /\ b[1] \in Int /\ b[2] \in Int /\ b[3] \in Int /\ b[4] \in Int /\ b[5] \in Int /\ b[6] \in Int
      /\ b[7] \in Int /\ b[8] \in Int /\ b[9] \in Int /\ b[10] \in Int /\ b[11] \in Int
  <2>1. \A i \in 1..11 : b[i] \in Int
    BY DEF Byte
  <2> QED BY <2>1
<1>3. /\ "PT" \in Name /\ "PT" # "WD"
      /\ "DA" \in Name /\ "DA" # "WD"
      /\ "SL" \in Name /\ "SL" # "WD"
      /\ "SC" \in Name /\ "SC" # "WD"
      /\ "SSM" \in Name /\ "SSM" # "WD"
      /\ "SDN" \in Name /\ "SDN" # "WD"
      /\ "WM" \in Name /\ "WM" # "WD"
      /\ "TS" \in Name /\ "TS" # "WD"
      /\ "CD" \in Name /\ "CD" # "WD"
      /\ "SD" \in Name /\ "SD" # "WD"
      /\ "KC" \in Name /\ "KC" # "WD"
  BY SMT DEF Name
<1>4. /\ <<"PT", b[1], 0..4, 0>> \in StepRow
      /\ <<"DA", b[2], UpToOr255(9), 1>> \in StepRow
      /\ <<"SL", b[3], UpToOr255(99), 2>> \in StepRow
      /\ <<"SC", b[4], 1..20, 3>> \in StepRow
      /\ <<"SSM", b[5], 1..8, 4>> \in StepRow
      /\ <<"SDN", b[6], Percent, 5>> \in StepRow
      /\ <<"WM", b[7], W, 6>> \in StepRow
      /\ <<"TS", b[8], Byte, 7>> \in StepRow
      /\ <<"CD", b[9], 1..8, 8>> \in StepRow
      /\ <<"SD", b[10], Byte, 9>> \in StepRow
      /\ <<"KC", b[11], Percent, 10>> \in StepRow
  BY <1>0, <1>1, <1>2, <1>3, PassingType, RowType, Zenon
<1> QED BY <1>4, ElevenRows DEF PedalSteps, W

(* The rows of the basic section, as the table of parse has them: two of   *)
(* the battery, ten currents, ten speeds, the wheel and the meter          *)
BasicStepsRows(w, b) ==
  /\ Len(w) = 25
  /\ w[1] = <<"LBP", b[1], {v \in Byte : ~(v > 55 /\ v < 18)}, 0>>
  /\ w[2] = <<"LC", b[2], Byte \ {0}, 1>>
  /\ \A i \in 1..10 : /\ w[i + 2] = <<ALC[i], b[i + 2], Percent, 2 * i>>
                      /\ w[i + 12] = <<ALBP[i], b[i + 12], Percent, 2 * i + 1>>
  /\ w[23] = <<"WD", WheelIndex(b[23]), 0..15, 22>>
  /\ w[24] = <<"SMM", b[24] \div 64, 0..2, 23>>
  /\ w[25] = <<"SMS", b[24] % 64, 1..36, 23>>

(* The table of the parse of a basic write has rows of the right form      *)
LEMMA BasicStepsType ==
  ASSUME NEW b \in [1..24 -> Byte]
  PROVE  BasicSteps(b) \in Seq(StepRow) /\ BasicStepsRows(BasicSteps(b), b)
<1> DEFINE r == << <<"LBP", b[1], {v \in Byte : ~(v > 55 /\ v < 18)}, 0>>,
                   <<"LC", b[2], Byte \ {0}, 1>> >>
           s == [i \in 1..10 |-> <<ALC[i], b[i + 2], Percent, 2 * i>>]
           t == [i \in 1..10 |-> <<ALBP[i], b[i + 12], Percent, 2 * i + 1>>]
           u == << <<"WD", WheelIndex(b[23]), 0..15, 22>>,
                   <<"SMM", b[24] \div 64, 0..2, 23>>,
                   <<"SMS", b[24] % 64, 1..36, 23>> >>
<1>1. r \in Seq(StepRow)
  <2> DEFINE A == {v \in Byte : ~(v > 55 /\ v < 18)}
             B == Byte \ {0}
  <2>1. A \in ValueSet /\ B \in ValueSet
    BY SMT DEF Byte, ValueSet
  <2>2. b[1] \in Int /\ b[2] \in Int
    <3>1. \A i \in 1..24 : b[i] \in Int
      BY DEF Byte
    <3> QED BY <3>1
  <2>3. "LBP" \in Name /\ "LC" \in Name
    BY DEF Name
  <2> HIDE DEF A, B
  <2>4. <<"LBP", b[1], A, 0>> \in StepRow /\ <<"LC", b[2], B, 1>> \in StepRow
    BY <2>1, <2>2, <2>3, RowType
  <2> QED BY <2>4 DEF A, B
<1>2. s \in Seq(StepRow)
  <2>1. ASSUME NEW i \in 1..10 PROVE s[i] \in StepRow
    <3>1. ALC[i] \in Name /\ ALC[i] # "WD"
      BY NamesType
    <3>2. b[i + 2] \in Int /\ 2 * i \in Nat
      BY SMT DEF Byte
    <3> QED BY <3>1, <3>2, PassingType, RowType
  <2> QED BY <2>1
<1>3. t \in Seq(StepRow)
  <2>1. ASSUME NEW i \in 1..10 PROVE t[i] \in StepRow
    <3>1. ALBP[i] \in Name /\ ALBP[i] # "WD"
      BY NamesType
    <3>2. b[i + 12] \in Int /\ 2 * i + 1 \in Nat
      BY SMT DEF Byte
    <3> QED BY <3>1, <3>2, PassingType, RowType
  <2> QED BY <2>1
<1>4. u \in Seq(StepRow)
  <2>1. WheelIndex(b[23]) \in Int
    BY WheelIndexType
  <2>2. b[24] \div 64 \in Int /\ b[24] % 64 \in Int
    BY SMT DEF Byte
  <2>3. <<"WD", WheelIndex(b[23]), 0..15, 22>> \in StepRow
    BY <2>1, SMT DEF StepRow, ValueSet, Name
  <2>4. "SMM" \in Name /\ "SMS" \in Name
    BY DEF Name
  <2>5. 0..2 \in ValueSet /\ 1..36 \in ValueSet
    BY SMT DEF ValueSet
  <2>6. <<"SMM", b[24] \div 64, 0..2, 23>> \in StepRow
    BY <2>2, <2>4, <2>5, RowType
  <2>7. <<"SMS", b[24] % 64, 1..36, 23>> \in StepRow
    BY <2>2, <2>4, <2>5, RowType
  <2> QED BY <2>3, <2>6, <2>7
<1>5. BasicSteps(b) = r \o s \o t \o u
  BY DEF BasicSteps
<1>6. Len(r) = 2 /\ Len(s) = 10 /\ Len(t) = 10 /\ Len(u) = 3
  BY SMT
<1> DEFINE w == BasicSteps(b)
<1>7. /\ w \in Seq(StepRow) /\ Len(w) = 25
      /\ w[1] = r[1] /\ w[2] = r[2]
      /\ \A i \in 1..10 : w[i + 2] = s[i] /\ w[i + 12] = t[i]
      /\ w[23] = u[1] /\ w[24] = u[2] /\ w[25] = u[3]
  <2>1. w = r \o s \o t \o u
    BY <1>5
  <2> HIDE DEF r, s, t, u, w
  <2>2. /\ Len(r) <= 2 /\ 2 <= Len(r) /\ Len(s) <= 10 /\ 10 <= Len(s)
        /\ Len(t) <= 10 /\ 10 <= Len(t) /\ Len(u) <= 3 /\ 3 <= Len(u)
    BY <1>6
  <2>3. FourParts(StepRow, w, r, s, t, u)
    BY <1>1, <1>2, <1>3, <1>4, <2>1, <2>2, Zenon DEF FourParts
  <2>4. RowsOf(StepRow, w, r, s, t, u)
    BY <2>3, BasicTable, Zenon
  <2> QED BY <2>4, Zenon DEF RowsOf
<1> HIDE DEF w
<1>9. w[1] = <<"LBP", b[1], {v \in Byte : ~(v > 55 /\ v < 18)}, 0>>
  BY <1>7, Zenon DEF r
<1>10. w[2] = <<"LC", b[2], Byte \ {0}, 1>>
  BY <1>7, Zenon DEF r
<1>11. \A i \in 1..10 : /\ w[i + 2] = <<ALC[i], b[i + 2], Percent, 2 * i>>
                       /\ w[i + 12] = <<ALBP[i], b[i + 12], Percent, 2 * i + 1>>
  BY <1>7, Zenon DEF s, t
<1>12. /\ w[23] = <<"WD", WheelIndex(b[23]), 0..15, 22>>
       /\ w[24] = <<"SMM", b[24] \div 64, 0..2, 23>>
       /\ w[25] = <<"SMS", b[24] % 64, 1..36, 23>>
  BY <1>7, Zenon DEF u
<1> QED BY <1>7, <1>9, <1>10, <1>11, <1>12, Zenon DEF w, BasicStepsRows

(* The table of parse has a name, a number, the set of numbers that pass   *)
(* the check and a status in every row                                     *)
LEMMA StepsType ==
  ASSUME NEW t \in ConfigType, NEW b \in PayloadOf(t)
  PROVE  Steps(t, b) \in Seq(StepRow)
<1>1. CASE t = Basic
  BY <1>1, BasicStepsType DEF Steps, PayloadOf, RequestPayloadSize, General, Basic, Pedal, Throttle
<1>2. CASE t = Pedal
  BY <1>2, PedalStepsType DEF Steps, PayloadOf, RequestPayloadSize, General, Basic, Pedal, Throttle
<1>3. CASE t = Throttle
  BY <1>3, ThrottleStepsType DEF Steps, PayloadOf, RequestPayloadSize, General, Basic, Pedal, Throttle
<1> QED BY <1>1, <1>2, <1>3 DEF ConfigType

(* A set of rows of a table has a first one *)
LEMMA FirstOf ==
  ASSUME NEW I, I \subseteq Nat, I # {}
  PROVE  \E i \in I : \A j \in I : i <= j
<1>1. IsWellFoundedOn(OpToRel(<, Nat), Nat)
  BY NatLessThanWellFounded
<1>2. PICK i \in I : \A j \in I : ~(<<j, i>> \in OpToRel(<, Nat))
  BY <1>1, WFMin
<1>3. \A j \in I : ~(j < i)
  BY <1>2 DEF OpToRel
<1> QED BY <1>3

(* parse returns the status of a row, or the one for success *)
LEMMA StatusType ==
  ASSUME NEW t \in ConfigType, NEW b \in PayloadOf(t)
  PROVE  Status(t, b) \in Nat
<1>1. CASE Accepted(t, b)
  BY <1>1 DEF Status, Success, ConfigType, Basic, Pedal, Throttle
<1>2. CASE ~Accepted(t, b)
  <2> DEFINE steps == Steps(t, b)
             first == CHOOSE i \in Failing(t, b) : \A j \in Failing(t, b) : i <= j
  <2>1. steps \in Seq(StepRow)
    BY StepsType
  <2>2. Failing(t, b) \subseteq DOMAIN steps /\ DOMAIN steps \subseteq Nat
    BY <2>1 DEF Failing
  <2>3. first \in DOMAIN steps
    BY <1>2, <2>2, FirstOf DEF Accepted
  <2>4. steps[first] \in StepRow
    BY <2>1, <2>3
  <2>5. \A r \in StepRow : r[4] \in Nat
    BY SMT DEF StepRow
  <2> QED BY <1>2, <2>4, <2>5 DEF Status
<1> QED BY <1>1, <1>2

(* temp of an accepted write is a profile, on disk if config is, and its   *)
(* wheel is in range                                                       *)
LEMMA AddingType ==
  ASSUME NEW t \in ConfigType, NEW b \in PayloadOf(t), NEW p, IsProfile(p)
  PROVE  /\ IsProfile(Adding(t, b, p))
         /\ Adding(t, b, p).exists = p.exists
         /\ Accepted(t, b) /\ WheelInRange(p) => WheelInRange(Adding(t, b, p))
<1> DEFINE steps == Steps(t, b)
           T == Tabulated(t, steps)
           Passed == {r \in StepRow : r[2] \in r[3]}
<1>1. steps \in Seq(StepRow)
  BY StepsType
<1>2. \A r \in StepRow : r[2] \in Int /\ (r[1] = "WD" => r[3] = 0..15)
  BY SMT DEF StepRow
<1>3. IsData(T)
  BY <1>1, <1>2, TabulatedType
<1>4. Adding(t, b, p) = [exists |-> p.exists, data |-> Merge(p.data, T)]
  BY DEF Adding, AddAll, IsProfile
<1>5. IsProfile(Adding(t, b, p))
  BY <1>3, <1>4, MergeType DEF IsProfile
<1>6. ASSUME Accepted(t, b), WheelInRange(p)
      PROVE  WheelInRange(Adding(t, b, p))
  <2>1. \A i \in DOMAIN steps : steps[i] \in Passed
    <3>1. \A i \in DOMAIN steps : steps[i] \in StepRow
      BY <1>1
    <3>2. \A i \in DOMAIN steps : steps[i][2] \in steps[i][3]
      BY <1>6 DEF Accepted, Failing
    <3> QED BY <3>1, <3>2
  <2>2. steps \in Seq(Passed)
    <3>1. Len(steps) \in Nat /\ DOMAIN steps = 1..Len(steps)
      BY <1>1
    <3>2. steps = [i \in 1..Len(steps) |-> steps[i]]
      BY <1>1
    <3> HIDE DEF steps, Passed
    <3> QED BY <2>1, <3>1, <3>2
  <2>3. \A r \in Passed : r[1] = "WD" => r[2] \in 0..15
    BY <1>2
  <2>4. <<Basic, "WD">> \in DOMAIN T => T[<<Basic, "WD">>] \in 0..15
    BY <2>2, <2>3, TabulatedWheel
  <2> HIDE DEF T
  <2> QED BY <1>4, <1>6, <2>4 DEF WheelInRange, Find, Merge
<1> QED BY <1>4, <1>5, <1>6

-----------------------------------------------------------------------------
(* The tables of build and of parse name the same settings in the same     *)
(* order                                                                   *)

(* No two assist levels share a name *)
LEMMA LevelsDiffer ==
  \A i, j \in 1..10 : /\ ALC[i] = ALC[j] => i = j
                      /\ ALBP[i] = ALBP[j] => i = j
                      /\ ALC[i] # ALBP[j]
                      /\ ALC[i] \notin {"LBP", "LC", "WD", "SMM", "SMS"}
                      /\ ALBP[i] \notin {"LBP", "LC", "WD", "SMM", "SMS"}
<1>1. \A i, j \in 1..10 : ALC[i] = ALC[j] => i = j
  BY SMT DEF ALC
<1>2. \A i, j \in 1..10 : ALBP[i] = ALBP[j] => i = j
  BY SMT DEF ALBP
<1>3. \A i, j \in 1..10 : ALC[i] # ALBP[j]
  BY SMT DEF ALC, ALBP
<1>4. \A i \in 1..10 : /\ ALC[i] \notin {"LBP", "LC", "WD", "SMM", "SMS"}
                      /\ ALBP[i] \notin {"LBP", "LC", "WD", "SMM", "SMS"}
  BY SMT DEF ALC, ALBP
<1> QED BY <1>1, <1>2, <1>3, <1>4

(* The names of the basic section, by position *)
LEMMA BasicNames ==
  ASSUME NEW i \in 1..25
  PROVE  /\ i = 1 => BasicFinds[i][1] = "LBP"
         /\ i = 2 => BasicFinds[i][1] = "LC"
         /\ i \in 3..12 => BasicFinds[i][1] = ALC[i - 2] /\ i - 2 \in 1..10
         /\ i \in 13..22 => BasicFinds[i][1] = ALBP[i - 12] /\ i - 12 \in 1..10
         /\ i = 23 => BasicFinds[i][1] = "WD"
         /\ i = 24 => BasicFinds[i][1] = "SMM"
         /\ i = 25 => BasicFinds[i][1] = "SMS"
         /\ \/ i \in {1, 2, 23, 24, 25} \/ i \in 3..12 \/ i \in 13..22
<1>1. ASSUME i \in 3..12 PROVE BasicFinds[i][1] = ALC[i - 2] /\ i - 2 \in 1..10
  <2>1. i - 2 \in 1..10 /\ (i - 2) + 2 = i
    BY <1>1
  <2>2. BasicFinds[(i - 2) + 2] = <<ALC[i - 2], 10 * (i - 2)>>
    BY <2>1, FindsType DEF BasicFindsRows
  <2> QED BY <2>1, <2>2
<1>2. ASSUME i \in 13..22 PROVE BasicFinds[i][1] = ALBP[i - 12] /\ i - 12 \in 1..10
  <2>1. i - 12 \in 1..10 /\ (i - 12) + 12 = i
    BY <1>2
  <2>2. BasicFinds[(i - 12) + 12] = <<ALBP[i - 12], 10 * (i - 12)>>
    BY <2>1, FindsType DEF BasicFindsRows
  <2> QED BY <2>1, <2>2
<1>3. /\ BasicFinds[1][1] = "LBP" /\ BasicFinds[2][1] = "LC" /\ BasicFinds[23][1] = "WD"
      /\ BasicFinds[24][1] = "SMM" /\ BasicFinds[25][1] = "SMS"
  BY FindsType DEF BasicFindsRows
<1> QED BY <1>1, <1>2, <1>3

(* No two rows of a table of build have the same name *)
LEMMA NamesDiffer ==
  ASSUME NEW t \in PacketType, NEW i \in DOMAIN Finds(t), NEW j \in DOMAIN Finds(t),
         Finds(t)[i][1] = Finds(t)[j][1]
  PROVE  i = j
<1>1. CASE t = General
  BY <1>1, SMT DEF Finds, GeneralFinds
<1>2. CASE t = Pedal
  BY <1>2, SMT DEF Finds, PedalFinds, General, Basic, Pedal
<1>3. CASE t = Throttle
  BY <1>3, SMT DEF Finds, ThrottleFinds, General, Basic, Pedal, Throttle
<1>4. CASE t = Basic
  <2>1. Finds(t) = BasicFinds /\ i \in 1..25 /\ j \in 1..25
    BY <1>4, FindsType DEF Finds, General, Basic, BasicFindsRows
  <2>2. BasicFinds[i][1] = BasicFinds[j][1]
    BY <2>1
  <2> DEFINE Others == {"LBP", "LC", "WD", "SMM", "SMS"}
             Five == {1, 2, 23, 24, 25}
             n(k) == BasicFinds[k][1]
  <2>3. \A k \in 1..25 : k \in Five \/ k \in 3..12 \/ k \in 13..22
    BY SMT
  <2>4. \A k \in 3..12 : n(k) = ALC[k - 2] /\ k - 2 \in 1..10
    BY BasicNames
  <2>5. \A k \in 13..22 : n(k) = ALBP[k - 12] /\ k - 12 \in 1..10
    BY BasicNames
  <2>6. /\ n(1) = "LBP" /\ n(2) = "LC" /\ n(23) = "WD" /\ n(24) = "SMM" /\ n(25) = "SMS"
    BY BasicNames
  <2>7. \A k \in Five : n(k) \in Others
    BY <2>6
  <2>8. \A k, l \in Five : n(k) = n(l) => k = l
    BY <2>6
  <2>9. \A k \in 3..12 \union 13..22 : n(k) \notin Others
    BY <2>4, <2>5, LevelsDiffer
  <2>10. \A k, l \in 3..12 : n(k) = n(l) => k = l
    <3> SUFFICES ASSUME NEW k \in 3..12, NEW l \in 3..12, n(k) = n(l) PROVE k - 2 = l - 2
      OBVIOUS
    <3> QED BY <2>4, LevelsDiffer
  <2>11. \A k, l \in 13..22 : n(k) = n(l) => k = l
    <3> SUFFICES ASSUME NEW k \in 13..22, NEW l \in 13..22, n(k) = n(l) PROVE k - 12 = l - 12
      OBVIOUS
    <3> QED BY <2>5, LevelsDiffer
  <2>12. \A k \in 3..12, l \in 13..22 : n(k) # n(l)
    BY <2>4, <2>5, LevelsDiffer
  <2>13. n(i) = n(j)
    BY <2>2
  <2> HIDE DEF n, Others, Five
  <2> QED BY <2>1, <2>3, <2>7, <2>8, <2>9, <2>10, <2>11, <2>12, <2>13
<1> QED BY <1>1, <1>2, <1>3, <1>4 DEF PacketType, ConfigType

(* parse checks the settings that build looks up, in the same order *)
LEMMA StepsMatch ==
  ASSUME NEW t \in ConfigType, NEW b \in PayloadOf(t)
  PROVE  /\ DOMAIN Steps(t, b) = DOMAIN Finds(t)
         /\ \A i \in DOMAIN Finds(t) : Steps(t, b)[i][1] = Finds(t)[i][1]
<1>1. CASE t = Pedal
  BY <1>1, SMT DEF Steps, Finds, PedalSteps, PedalFinds, General, Basic, Pedal
<1>2. CASE t = Throttle
  BY <1>2, SMT DEF Steps, Finds, ThrottleSteps, ThrottleFinds, General, Basic, Pedal, Throttle
<1>3. CASE t = Basic
  <2> DEFINE w == BasicSteps(b)
  <2>0. b \in [1..24 -> Byte]
    BY <1>3 DEF PayloadOf, RequestPayloadSize, General, Basic, Pedal, Throttle
  <2>1. Steps(t, b) = w /\ Finds(t) = BasicFinds
    BY <1>3 DEF Steps, Finds, General, Basic
  <2>2. w \in Seq(StepRow) /\ BasicStepsRows(w, b)
    BY <2>0, BasicStepsType
  <2> HIDE DEF w
  <2>3. /\ w[1][1] = "LBP" /\ w[2][1] = "LC" /\ w[23][1] = "WD" /\ w[24][1] = "SMM"
        /\ w[25][1] = "SMS"
    BY <2>2 DEF BasicStepsRows
  <2>4. ASSUME NEW i \in 1..10 PROVE w[i + 2][1] = ALC[i] /\ w[i + 12][1] = ALBP[i]
    <3>1. /\ w[i + 2] = <<ALC[i], b[i + 2], Percent, 2 * i>>
          /\ w[i + 12] = <<ALBP[i], b[i + 12], Percent, 2 * i + 1>>
      BY <2>2, Zenon DEF BasicStepsRows
    <3> QED BY <3>1
  <2>6. BasicFinds \in Seq(FindRow)
    BY <1>3, <2>1, FindsType DEF PacketType, ConfigType
  <2>7. DOMAIN w = 1..25 /\ DOMAIN BasicFinds = 1..25
    <3>1. DOMAIN w = 1..Len(w) /\ DOMAIN BasicFinds = 1..Len(BasicFinds)
      BY <2>2, <2>6, LenProperties
    <3> QED BY <2>2, <3>1, FindsType, Zenon DEF BasicStepsRows, BasicFindsRows
  <2>5. ASSUME NEW i \in 1..25 PROVE w[i][1] = BasicFinds[i][1]
    <3>1. CASE i \in 3..12
      <4>1. i - 2 \in 1..10 /\ (i - 2) + 2 = i
        BY <3>1
      <4>2. w[(i - 2) + 2][1] = ALC[i - 2]
        BY <2>4, <4>1
      <4> QED BY <3>1, <4>1, <4>2, BasicNames
    <3>2. CASE i \in 13..22
      <4>1. i - 12 \in 1..10 /\ (i - 12) + 12 = i
        BY <3>2
      <4>2. w[(i - 12) + 12][1] = ALBP[i - 12]
        BY <2>4, <4>1
      <4> QED BY <3>2, <4>1, <4>2, BasicNames
    <3>3. CASE i \in {1, 2, 23, 24, 25}
      BY <2>3, <3>3, BasicNames
    <3> QED BY <3>1, <3>2, <3>3
  <2> QED BY <2>1, <2>5, <2>7
<1> QED BY <1>1, <1>2, <1>3 DEF ConfigType

-----------------------------------------------------------------------------
(* Settings out of tables *)

(* A table without double names gives every name the value of its row, and *)
(* says nothing of other sections                                          *)
LEMMA TabulatedRow ==
  ASSUME NEW t, NEW table,
         \A i, j \in DOMAIN table : table[i][1] = table[j][1] => i = j
  PROVE  /\ \A i \in DOMAIN table : /\ <<t, table[i][1]>> \in DOMAIN Tabulated(t, table)
                                     /\ Tabulated(t, table)[<<t, table[i][1]>>] = table[i][2]
         /\ \A u, n : u # t => <<u, n>> \notin DOMAIN Tabulated(t, table)
<1> DEFINE Row(name) == CHOOSE i \in DOMAIN table : table[i][1] = name
           Keys == {t} \X {table[i][1] : i \in DOMAIN table}
           T == [k \in Keys |-> table[Row(k[2])][2]]
<1>1. Tabulated(t, table) = T
  BY DEF Tabulated
<1>2. ASSUME NEW i \in DOMAIN table
      PROVE  <<t, table[i][1]>> \in Keys /\ T[<<t, table[i][1]>>] = table[i][2]
  <2>1. Row(table[i][1]) \in DOMAIN table /\ table[Row(table[i][1])][1] = table[i][1]
    OBVIOUS
  <2>2. Row(table[i][1]) = i
    BY <2>1
  <2>3. <<t, table[i][1]>> \in Keys
    OBVIOUS
  <2> QED BY <2>2, <2>3
<1>3. ASSUME NEW u, NEW n, u # t PROVE <<u, n>> \notin Keys
  BY <1>3
<1>4. DOMAIN T = Keys
  OBVIOUS
<1> HIDE DEF T, Keys
<1> QED BY <1>1, <1>2, <1>3, <1>4, Zenon

(* What find returns after find and add have touched the profile           *)

(* The defaults that the reads of a section leave in a profile are those   *)
(* that later reads would fall back to anyway                              *)
LEMMA FindTouched ==
  ASSUME NEW t \in PacketType, NEW u \in PacketType, NEW p, IsProfile(p),
         NEW i \in DOMAIN Finds(u)
  PROVE  Find(Touched(t, p), <<u, Finds(u)[i][1]>>, Finds(u)[i][2])
           = Find(p, <<u, Finds(u)[i][1]>>, Finds(u)[i][2])
<1> DEFINE T == Tabulated(t, Finds(t))
           k == <<u, Finds(u)[i][1]>>
           default == Finds(u)[i][2]
<1>1. k \in DOMAIN T => T[k] = default
  BY NamesDiffer, TabulatedRow
<1>2. Touched(t, p) = IF p.exists THEN p ELSE [p EXCEPT !.data = Merge(T, @)]
  BY DEF Touched, FindAll
<1> HIDE DEF T, k, default
<1>3. CASE p.exists
  BY <1>2, <1>3 DEF k, default
<1>4. CASE ~p.exists
  <2>1. Touched(t, p) = [exists |-> p.exists, data |-> Merge(T, p.data)]
    BY <1>2, <1>4 DEF IsProfile
  <2>2. Find(Touched(t, p), k, default) = Find(p, k, default)
    BY <1>1, <2>1 DEF Find, Merge
  <2> QED BY <2>2 DEF k, default
<1> QED BY <1>3, <1>4

(* A write replaces every setting of its section by the one of the         *)
(* request, and none of another section                                    *)
LEMMA FindAdded ==
  ASSUME NEW t \in ConfigType, NEW b \in PayloadOf(t), NEW p, IsProfile(p)
  PROVE  /\ \A i \in DOMAIN Finds(t) : \A d :
              Find(Adding(t, b, p), <<t, Finds(t)[i][1]>>, d) = Steps(t, b)[i][2]
         /\ \A u, n, d : u # t => Find(Adding(t, b, p), <<u, n>>, d) = Find(p, <<u, n>>, d)
<1> DEFINE steps == Steps(t, b)
           T == Tabulated(t, steps)
<1>1. \A i, j \in DOMAIN steps : steps[i][1] = steps[j][1] => i = j
  BY StepsMatch, NamesDiffer DEF PacketType
<1>2. /\ \A i \in DOMAIN steps : /\ <<t, steps[i][1]>> \in DOMAIN T
                                 /\ T[<<t, steps[i][1]>>] = steps[i][2]
      /\ \A u, n : u # t => <<u, n>> \notin DOMAIN T
  <2> HIDE DEF steps
  <2> QED BY <1>1, TabulatedRow
<1>3. Adding(t, b, p) = [exists |-> p.exists, data |-> Merge(p.data, T)]
  BY DEF Adding, AddAll, IsProfile
<1> HIDE DEF T
<1>4. ASSUME NEW i \in DOMAIN Finds(t), NEW d
      PROVE  Find(Adding(t, b, p), <<t, Finds(t)[i][1]>>, d) = steps[i][2]
  <2>1. i \in DOMAIN steps /\ steps[i][1] = Finds(t)[i][1]
    BY StepsMatch
  <2> HIDE DEF steps
  <2>2. <<t, Finds(t)[i][1]>> \in DOMAIN T /\ T[<<t, Finds(t)[i][1]>>] = steps[i][2]
    BY <1>2, <2>1
  <2> QED BY <1>3, <2>2 DEF Find, Merge
<1>5. ASSUME NEW u, NEW n, NEW d, u # t
      PROVE  Find(Adding(t, b, p), <<u, n>>, d) = Find(p, <<u, n>>, d)
  BY <1>2, <1>3, <1>5 DEF Find, Merge
<1> QED BY <1>4, <1>5

-----------------------------------------------------------------------------
(* What a read serves after what has been read and written                 *)

(* A response has nothing in it but what find returned *)
LEMMA BuildFromFound ==
  ASSUME NEW t, NEW p, NEW q, Found(t, p) = Found(t, q)
  PROVE  Build(t, p) = Build(t, q)
<1>1. CASE t = General
  <2>1. Found(General, p) = Found(General, q)
    BY <1>1
  <2>2. BuildGeneral(p) = BuildGeneral(q)
    BY <2>1 DEF BuildGeneral
  <2> QED BY <1>1, <2>2, Zenon DEF Build
<1>2. CASE t = Basic /\ t # General
  <2>1. Found(Basic, p) = Found(Basic, q)
    BY <1>2
  <2>2. BuildBasic(p) = BuildBasic(q)
    BY <2>1, Zenon DEF BuildBasic
  <2> QED BY <1>2, <2>2, Zenon DEF Build
<1>3. CASE t # General /\ t # Basic
  BY <1>3, Zenon DEF Build
<1> QED BY <1>1, <1>2, <1>3

(* Whether a profile is on disk makes no difference to a response *)
LEMMA BuildFromSettings ==
  ASSUME NEW t, NEW p, NEW q, p.data = q.data
  PROVE  Build(t, p) = Build(t, q)
<1>1. Found(t, p) = Found(t, q)
  BY Zenon DEF Found, Find
<1> QED BY <1>1, BuildFromFound

(* Reading a section leaves every section as later reads see it *)
LEMMA ReadsMoveNothing ==
  ASSUME NEW t \in PacketType, NEW u \in PacketType, NEW p, IsProfile(p)
  PROVE  Build(u, Touched(t, p)) = Build(u, p)
<1> DEFINE F(q) == [i \in DOMAIN Finds(u) |-> Find(q, <<u, Finds(u)[i][1]>>, Finds(u)[i][2])]
<1>1. \A q : Found(u, q) = F(q)
  BY DEF Found
<1>2. F(Touched(t, p)) = F(p)
  BY FindTouched, Zenon
<1>3. Found(u, Touched(t, p)) = Found(u, p)
  <2> HIDE DEF F
  <2> QED BY <1>1, <1>2, Zenon
<1> QED BY <1>3, BuildFromFound, Zenon

(* Writing a section leaves the other sections as later reads see them *)
LEMMA WritesMoveTheirSection ==
  ASSUME NEW t \in ConfigType, NEW b \in PayloadOf(t), NEW u, u # t, NEW p, IsProfile(p)
  PROVE  Build(u, Adding(t, b, p)) = Build(u, p)
<1> DEFINE F(q) == [i \in DOMAIN Finds(u) |-> Find(q, <<u, Finds(u)[i][1]>>, Finds(u)[i][2])]
<1>1. \A q : Found(u, q) = F(q)
  BY DEF Found
<1>2. F(Adding(t, b, p)) = F(p)
  <2>1. \A n, d : Find(Adding(t, b, p), <<u, n>>, d) = Find(p, <<u, n>>, d)
    BY FindAdded
  <2> QED BY <2>1, Zenon
<1>3. Found(u, Adding(t, b, p)) = Found(u, p)
  <2> HIDE DEF F
  <2> QED BY <1>1, <1>2, Zenon
<1> QED BY <1>3, BuildFromFound, Zenon

(* The value of a row of parse is the byte of its place, but for the last  *)
(* rows of the basic section: the index of the wheel and the two parts of  *)
(* the speed meter                                                         *)
LEMMA StepValues ==
  ASSUME NEW t \in ConfigType, NEW b \in PayloadOf(t)
  PROVE  /\ t = Pedal => \A i \in 1..11 : Steps(t, b)[i][2] = b[i]
         /\ t = Throttle => \A i \in 1..6 : Steps(t, b)[i][2] = b[i]
         /\ t = Basic => /\ \A i \in 1..22 : Steps(t, b)[i][2] = b[i]
                         /\ Steps(t, b)[23][2] = WheelIndex(b[23])
                         /\ Steps(t, b)[24][2] = b[24] \div 64
                         /\ Steps(t, b)[25][2] = b[24] % 64
<1>1. CASE t = Pedal
  BY <1>1, SMT DEF Steps, PedalSteps, Basic, Pedal, Throttle
<1>2. CASE t = Throttle
  BY <1>2, SMT DEF Steps, ThrottleSteps, Basic, Pedal, Throttle
<1>3. CASE t = Basic
  <2> DEFINE w == BasicSteps(b)
  <2>0. b \in [1..24 -> Byte]
    BY <1>3 DEF PayloadOf, RequestPayloadSize, General, Basic, Pedal, Throttle
  <2>1. Steps(t, b) = w
    BY <1>3 DEF Steps, General, Basic
  <2>2. BasicStepsRows(w, b)
    BY <2>0, BasicStepsType
  <2> HIDE DEF w
  <2>3. /\ w[1][2] = b[1] /\ w[2][2] = b[2] /\ w[23][2] = WheelIndex(b[23])
        /\ w[24][2] = b[24] \div 64 /\ w[25][2] = b[24] % 64
    BY <2>2 DEF BasicStepsRows
  <2>4. ASSUME NEW i \in 1..10 PROVE w[i + 2][2] = b[i + 2] /\ w[i + 12][2] = b[i + 12]
    <3>1. /\ w[i + 2] = <<ALC[i], b[i + 2], Percent, 2 * i>>
          /\ w[i + 12] = <<ALBP[i], b[i + 12], Percent, 2 * i + 1>>
      BY <2>2, Zenon DEF BasicStepsRows
    <3> QED BY <3>1
  <2>5. ASSUME NEW i \in 1..22 PROVE w[i][2] = b[i]
    <3>1. CASE i \in 1..2
      BY <2>3, <3>1
    <3>2. CASE i \in 3..12
      <4>1. i - 2 \in 1..10 /\ (i - 2) + 2 = i
        BY <3>2
      <4> QED BY <2>4, <4>1
    <3>3. CASE i \in 13..22
      <4>1. i - 12 \in 1..10 /\ (i - 12) + 12 = i
        BY <3>3
      <4> QED BY <2>4, <4>1
    <3> QED BY <3>1, <3>2, <3>3
  <2> QED BY <1>3, <2>1, <2>3, <2>5 DEF Basic, Pedal, Throttle
<1> QED BY <1>1, <1>2, <1>3 DEF ConfigType, Basic, Pedal, Throttle

(* The wheel of an accepted write is found again behind its index *)
LEMMA WheelOfIndex ==
  ASSUME NEW w, WheelIndex(w) \in 0..15
  PROVE  Wheels[WheelIndex(w) + 1] = w
<1>1. w \in Range(Wheels)
  BY DEF WheelIndex
<1>2. PICK n \in DOMAIN Wheels : Wheels[n] = w
  BY <1>1 DEF Range
<1> DEFINE j == CHOOSE i \in DOMAIN Wheels : Wheels[i] = w
<1>3. j \in DOMAIN Wheels /\ Wheels[j] = w
  BY <1>2
<1>4. WheelIndex(w) = j - 1
  BY <1>1 DEF WheelIndex
<1>5. DOMAIN Wheels = 1..16
  BY DEF Wheels
<1> HIDE DEF j
<1>6. j \in Int
  BY <1>3, <1>5
<1>7. WheelIndex(w) + 1 = j
  BY <1>4, <1>6
<1> QED BY <1>3, <1>7, Zenon

(* What was written, and accepted, is what is read back, byte for byte:    *)
(* what parse takes apart, build puts together again                       *)
LEMMA ReadBack ==
  ASSUME NEW t \in ConfigType, NEW b \in PayloadOf(t), Accepted(t, b), NEW p, IsProfile(p)
  PROVE  Build(t, Adding(t, b, p)) = b
<1> DEFINE v == Found(t, Adding(t, b, p))
           steps == Steps(t, b)
<1>1. DOMAIN v = DOMAIN Finds(t) /\ \A i \in DOMAIN Finds(t) : v[i] = steps[i][2]
  <2>1. \A i \in DOMAIN Finds(t) : v[i] = Find(Adding(t, b, p), <<t, Finds(t)[i][1]>>, Finds(t)[i][2])
    BY DEF Found
  <2>2. DOMAIN v = DOMAIN Finds(t)
    BY DEF Found
  <2>3. \A i \in DOMAIN Finds(t) : \A d :
          Find(Adding(t, b, p), <<t, Finds(t)[i][1]>>, d) = steps[i][2]
    BY FindAdded
  <2> HIDE DEF v, steps
  <2> QED BY <2>1, <2>2, <2>3, Zenon
<1>2. \A x \in Byte : x % 256 = x
  BY SMT DEF Byte
<1> HIDE DEF v
<1>3. CASE t = Pedal
  <2>1. b \in [1..11 -> Byte]
    BY <1>3 DEF PayloadOf, RequestPayloadSize, General, Basic, Pedal, Throttle
  <2>2. DOMAIN v = 1..11 /\ \A i \in 1..11 : v[i] = b[i]
    <3>1. DOMAIN Finds(t) = 1..11
      BY <1>3, SMT DEF Finds, PedalFinds, General, Basic, Pedal
    <3> QED BY <1>1, <1>3, <3>1, StepValues
  <2>3. Build(t, Adding(t, b, p)) = [i \in DOMAIN v |-> v[i] % 256]
    BY <1>3 DEF Build, General, Basic, Pedal, v
  <2> QED BY <1>2, <2>1, <2>2, <2>3
<1>4. CASE t = Throttle
  <2>1. b \in [1..6 -> Byte]
    BY <1>4 DEF PayloadOf, RequestPayloadSize, General, Basic, Pedal, Throttle
  <2>2. DOMAIN v = 1..6 /\ \A i \in 1..6 : v[i] = b[i]
    <3>1. DOMAIN Finds(t) = 1..6
      BY <1>4, SMT DEF Finds, ThrottleFinds, General, Basic, Pedal, Throttle
    <3> QED BY <1>1, <1>4, <3>1, StepValues
  <2>3. Build(t, Adding(t, b, p)) = [i \in DOMAIN v |-> v[i] % 256]
    BY <1>4 DEF Build, General, Basic, Throttle, v
  <2> QED BY <1>2, <2>1, <2>2, <2>3
<1>5. CASE t = Basic
  <2>1. b \in [1..24 -> Byte]
    BY <1>5 DEF PayloadOf, RequestPayloadSize, General, Basic, Pedal, Throttle
  <2>2. DOMAIN Finds(t) = 1..25
    <3>1. Finds(t) = BasicFinds /\ BasicFinds \in Seq(FindRow)
      BY <1>5, FindsType DEF Finds, PacketType, ConfigType, General, Basic
    <3>2. DOMAIN BasicFinds = 1..Len(BasicFinds)
      BY <3>1, LenProperties
    <3> QED BY <3>1, <3>2, FindsType, Zenon DEF BasicFindsRows
  <2>3. /\ \A i \in 1..22 : v[i] = b[i]
        /\ v[23] = WheelIndex(b[23]) /\ v[24] = b[24] \div 64 /\ v[25] = b[24] % 64
    BY <1>1, <1>5, <2>2, StepValues
  <2>4. Wheels[v[23] + 1] = b[23]
    <3>1. steps[23][2] \in steps[23][3]
      <4>1. 23 \in DOMAIN steps
        BY <2>2, StepsMatch
      <4> QED BY <4>1 DEF Accepted, Failing
    <3>2. BasicStepsRows(steps, b)
      BY <1>5, <2>1, BasicStepsType DEF Steps
    <3>3. steps[23] = <<"WD", WheelIndex(b[23]), 0..15, 22>>
      BY <3>2, Zenon DEF BasicStepsRows
    <3> HIDE DEF steps
    <3>4. WheelIndex(b[23]) \in 0..15
      BY <3>1, <3>3
    <3> QED BY <2>3, <3>4, WheelOfIndex
  <2>5. SpeedMeter(v[24], v[25]) = b[24]
    <3>1. b[24] \in Byte
      BY <2>1
    <3>2. \A x \in Byte : ((x \div 64) * 64 + (x % 64)) % 256 = x
      BY SMT DEF Byte
    <3> QED BY <2>3, <3>1, <3>2 DEF SpeedMeter
  <2>6. Build(t, Adding(t, b, p)) =
          [i \in 1..24 |-> IF i = 23 THEN Wheels[v[23] + 1]
                           ELSE IF i = 24 THEN SpeedMeter(v[24], v[25])
                           ELSE v[i] % 256]
    BY <1>5 DEF Build, BuildBasic, General, Basic, v
  <2>7. \A i \in 1..22 : v[i] % 256 = b[i]
    BY <1>2, <2>1, <2>3
  <2> QED BY <2>1, <2>4, <2>5, <2>6, <2>7
<1> QED BY <1>3, <1>4, <1>5 DEF ConfigType

-----------------------------------------------------------------------------
(* Checks and statuses                                                     *)

(* What the checks of the basic section let pass, row by row; and the      *)
(* status if one does not, which takes turns between currents and speeds   *)
BasicChecks(w) ==
  /\ w[1][3] = {v \in Byte : ~(v > 55 /\ v < 18)} /\ w[2][3] = Byte \ {0}
  /\ \A i \in 3..22 : w[i][3] = Percent
  /\ w[23][3] = 0..15 /\ w[24][3] = 0..2 /\ w[25][3] = 1..36

BasicStatus(i) == IF i <= 2 THEN i - 1
                  ELSE IF i <= 12 THEN 2 * (i - 2)
                  ELSE IF i <= 22 THEN 2 * (i - 12) + 1
                  ELSE IF i = 23 THEN 22 ELSE 23

(* They are the same for all payloads *)
LEMMA StepChecks ==
  ASSUME NEW t \in ConfigType, NEW b \in PayloadOf(t)
  PROVE  /\ t = Basic => /\ BasicChecks(Steps(t, b))
                         /\ \A i \in 1..25 : Steps(t, b)[i][4] = BasicStatus(i)
         /\ t # Basic => \A i \in DOMAIN Finds(t) : Steps(t, b)[i][4] = i - 1
<1>1. CASE t = Pedal
  BY <1>1, SMT DEF Steps, Finds, PedalSteps, PedalFinds, General, Basic, Pedal, Throttle
<1>2. CASE t = Throttle
  BY <1>2, SMT DEF Steps, Finds, ThrottleSteps, ThrottleFinds, General, Basic, Pedal, Throttle
<1>3. CASE t = Basic
  <2> DEFINE w == BasicSteps(b)
  <2>0. b \in [1..24 -> Byte]
    BY <1>3 DEF PayloadOf, RequestPayloadSize, General, Basic, Pedal, Throttle
  <2>1. Steps(t, b) = w
    BY <1>3 DEF Steps, General, Basic
  <2>2. BasicStepsRows(w, b)
    BY <2>0, BasicStepsType
  <2> HIDE DEF w
  <2>3. /\ w[1] = <<"LBP", b[1], {v \in Byte : ~(v > 55 /\ v < 18)}, 0>>
        /\ w[2] = <<"LC", b[2], Byte \ {0}, 1>>
        /\ w[23] = <<"WD", WheelIndex(b[23]), 0..15, 22>>
        /\ w[24] = <<"SMM", b[24] \div 64, 0..2, 23>>
        /\ w[25] = <<"SMS", b[24] % 64, 1..36, 23>>
    BY <2>2, Zenon DEF BasicStepsRows
  <2>4. ASSUME NEW i \in 1..10
        PROVE  /\ w[i + 2][3] = Percent /\ w[i + 2][4] = 2 * i
               /\ w[i + 12][3] = Percent /\ w[i + 12][4] = 2 * i + 1
    <3>1. /\ w[i + 2] = <<ALC[i], b[i + 2], Percent, 2 * i>>
          /\ w[i + 12] = <<ALBP[i], b[i + 12], Percent, 2 * i + 1>>
      BY <2>2, Zenon DEF BasicStepsRows
    <3> QED BY <3>1
  <2>5. ASSUME NEW i \in 3..12 PROVE w[i][3] = Percent /\ w[i][4] = 2 * (i - 2)
    <3>1. i - 2 \in 1..10 /\ (i - 2) + 2 = i
      OBVIOUS
    <3> QED BY <2>4, <3>1
  <2>6. ASSUME NEW i \in 13..22 PROVE w[i][3] = Percent /\ w[i][4] = 2 * (i - 12) + 1
    <3>1. i - 12 \in 1..10 /\ (i - 12) + 12 = i
      OBVIOUS
    <3> QED BY <2>4, <3>1
  <2>7. /\ w[1][4] = 0 /\ w[2][4] = 1 /\ w[23][4] = 22 /\ w[24][4] = 23 /\ w[25][4] = 23
    BY <2>3
  <2>8. ASSUME NEW i \in 1..25
        PROVE  w[i][4] = BasicStatus(i)
    <3>1. \/ i \in {1, 2, 23, 24, 25} \/ i \in 3..12 \/ i \in 13..22
      OBVIOUS
    <3> QED BY <2>5, <2>6, <2>7, <3>1 DEF BasicStatus
  <2>9. ASSUME NEW i \in 3..22 PROVE w[i][3] = Percent
    BY <2>5, <2>6
  <2>10. /\ w[1][3] = {v \in Byte : ~(v > 55 /\ v < 18)} /\ w[2][3] = Byte \ {0}
         /\ w[23][3] = 0..15 /\ w[24][3] = 0..2 /\ w[25][3] = 1..36
    <3> DEFINE A == {v \in Byte : ~(v > 55 /\ v < 18)}
               B == Byte \ {0}
               C == 0..15
               D == 0..2
               E == 1..36
    <3>1. /\ w[1] = <<"LBP", b[1], A, 0>> /\ w[2] = <<"LC", b[2], B, 1>>
          /\ w[23] = <<"WD", WheelIndex(b[23]), C, 22>>
          /\ w[24] = <<"SMM", b[24] \div 64, D, 23>>
          /\ w[25] = <<"SMS", b[24] % 64, E, 23>>
      BY <2>3, Zenon
    <3> HIDE DEF A, B, C, D, E
    <3>2. w[1][3] = A /\ w[2][3] = B /\ w[23][3] = C /\ w[24][3] = D /\ w[25][3] = E
      BY <3>1
    <3> QED BY <3>2, Zenon DEF A, B, C, D, E
  <2>11. BasicChecks(w)
    BY <2>9, <2>10, Zenon DEF BasicChecks
  <2> QED BY <1>3, <2>1, <2>8, <2>11, Zenon
<1> QED BY <1>1, <1>2, <1>3 DEF ConfigType, Basic, Pedal, Throttle

(* A write that is refused is answered with a status below the one for     *)
(* success                                                                 *)
LEMMA RefusedStatus ==
  ASSUME NEW t \in ConfigType, NEW b \in PayloadOf(t), ~Accepted(t, b)
  PROVE  \E i \in Failing(t, b) :
           /\ i \in DOMAIN Finds(t)
           /\ Status(t, b) = Steps(t, b)[i][4]
           /\ Status(t, b) \in 0..(Success(t) - 1)
<1> DEFINE first == CHOOSE i \in Failing(t, b) : \A j \in Failing(t, b) : i <= j
<1>1. Failing(t, b) \subseteq DOMAIN Finds(t) /\ DOMAIN Finds(t) \subseteq Nat
  <2>1. DOMAIN Finds(t) \subseteq Nat
    BY FindsType, LenProperties DEF PacketType
  <2> QED BY <2>1, StepsMatch DEF Failing
<1>2. first \in Failing(t, b)
  BY <1>1, FirstOf DEF Accepted
<1>3. Status(t, b) = Steps(t, b)[first][4]
  BY DEF Status
<1> HIDE DEF first
<1>4. Steps(t, b)[first][4] \in 0..(Success(t) - 1)
  <2>1. CASE t = Basic
    <3>1. first \in 1..25
      <4>1. Finds(t) = BasicFinds /\ BasicFinds \in Seq(FindRow)
        BY <2>1, FindsType DEF Finds, PacketType, ConfigType, General, Basic
      <4>2. DOMAIN BasicFinds = 1..Len(BasicFinds)
        BY <4>1, LenProperties
      <4>3. DOMAIN Finds(t) = 1..25
        BY <4>1, <4>2, FindsType, Zenon DEF BasicFindsRows
      <4> QED BY <1>1, <1>2, <4>3
    <3>2. Success(t) = 24
      BY <2>1, SMT DEF Success, Basic, Pedal, Throttle
    <3>3. Steps(t, b)[first][4] = BasicStatus(first)
      BY <2>1, <3>1, StepChecks
    <3> QED BY <3>1, <3>2, <3>3 DEF BasicStatus
  <2>2. CASE t = Pedal
    <3>1. DOMAIN Finds(t) = 1..11 /\ Success(t) = 11 /\ t # Basic
      BY <2>2, SMT DEF Finds, PedalFinds, General, Basic, Pedal, Throttle, Success
    <3>2. Steps(t, b)[first][4] = first - 1
      BY <1>1, <1>2, <3>1, StepChecks
    <3> QED BY <1>1, <1>2, <3>1, <3>2
  <2>3. CASE t = Throttle
    <3>1. DOMAIN Finds(t) = 1..6 /\ Success(t) = 6 /\ t # Basic
      BY <2>3, SMT DEF Finds, ThrottleFinds, General, Basic, Pedal, Throttle, Success
    <3>2. Steps(t, b)[first][4] = first - 1
      BY <1>1, <1>2, <3>1, StepChecks
    <3> QED BY <1>1, <1>2, <3>1, <3>2
  <2> QED BY <2>1, <2>2, <2>3 DEF ConfigType
<1> QED BY <1>1, <1>2, <1>3, <1>4

-----------------------------------------------------------------------------
(* Profiles whose settings pass the checks                                 *)

(* The tables of the three config sections have eleven, six and 25 rows    *)
LEMMA FindsDomain ==
  /\ DOMAIN Finds(Pedal) = 1..11
  /\ DOMAIN Finds(Throttle) = 1..6
  /\ DOMAIN Finds(Basic) = 1..25
<1>1. DOMAIN Finds(Pedal) = 1..11
  BY SMT DEF Finds, PedalFinds, General, Basic, Pedal
<1>2. DOMAIN Finds(Throttle) = 1..6
  BY SMT DEF Finds, ThrottleFinds, General, Basic, Pedal, Throttle
<1>3. DOMAIN Finds(Basic) = 1..25
  <2>1. Finds(Basic) = BasicFinds /\ BasicFinds \in Seq(FindRow)
    BY FindsType DEF Finds, PacketType, ConfigType, General, Basic
  <2>2. DOMAIN BasicFinds = 1..Len(BasicFinds)
    BY <2>1, LenProperties
  <2> QED BY <2>1, <2>2, FindsType, Zenon DEF BasicFindsRows
<1> QED BY <1>1, <1>2, <1>3

(* What the checks of the other two let pass *)
PedalChecks(w) ==
  /\ w[1][3] = 0..4 /\ w[2][3] = UpToOr255(9) /\ w[3][3] = UpToOr255(99)
  /\ w[4][3] = 1..20 /\ w[5][3] = 1..8 /\ w[6][3] = Percent
  /\ w[7][3] = {v \in Byte : ~(v > 80 /\ v < 10 /\ v # 255)} /\ w[8][3] = Byte
  /\ w[9][3] = 1..8 /\ w[10][3] = Byte /\ w[11][3] = Percent

ThrottleChecks(w) ==
  /\ w[1][3] = 0..50 /\ w[2][3] = 0..50 /\ w[3][3] = 0..1
  /\ w[4][3] = UpToOr255(9) /\ w[5][3] = UpToOr255(99) /\ w[6][3] = Percent

(* Rows with these checks *)
LEMMA OtherChecks ==
  ASSUME NEW b
  PROVE  PedalChecks(Steps(Pedal, b)) /\ ThrottleChecks(Steps(Throttle, b))
<1>1. PedalChecks(Steps(Pedal, b))
  <2> DEFINE A == 0..4
             B == UpToOr255(9)
             C == UpToOr255(99)
             D == 1..20
             E == 1..8
             F == Percent
             G == {v \in Byte : ~(v > 80 /\ v < 10 /\ v # 255)}
             w == Steps(Pedal, b)
  <2>1. w = << <<"PT", b[1], A, 0>>, <<"DA", b[2], B, 1>>, <<"SL", b[3], C, 2>>,
               <<"SC", b[4], D, 3>>, <<"SSM", b[5], E, 4>>, <<"SDN", b[6], F, 5>>,
               <<"WM", b[7], G, 6>>, <<"TS", b[8], Byte, 7>>, <<"CD", b[9], E, 8>>,
               <<"SD", b[10], Byte, 9>>, <<"KC", b[11], F, 10>> >>
    BY DEF Steps, PedalSteps, Basic, Pedal
  <2> HIDE DEF A, B, C, D, E, F, G, w
  <2>2. /\ w[1][3] = A /\ w[2][3] = B /\ w[3][3] = C /\ w[4][3] = D /\ w[5][3] = E
        /\ w[6][3] = F /\ w[7][3] = G /\ w[8][3] = Byte /\ w[9][3] = E /\ w[10][3] = Byte
        /\ w[11][3] = F
    BY <2>1
  <2> QED BY <2>2, Zenon DEF PedalChecks, A, B, C, D, E, F, G, w
<1>2. ThrottleChecks(Steps(Throttle, b))
  <2> DEFINE A == 0..50
             B == 0..1
             C == UpToOr255(9)
             D == UpToOr255(99)
             E == Percent
             w == Steps(Throttle, b)
  <2>1. w = << <<"SV", b[1], A, 0>>, <<"EV", b[2], A, 1>>, <<"MODE", b[3], B, 2>>,
               <<"DA", b[4], C, 3>>, <<"SL", b[5], D, 4>>, <<"SC", b[6], E, 5>> >>
    BY DEF Steps, ThrottleSteps, Basic, Pedal, Throttle
  <2> HIDE DEF A, B, C, D, E, w
  <2>2. /\ w[1][3] = A /\ w[2][3] = A /\ w[3][3] = B /\ w[4][3] = C /\ w[5][3] = D
        /\ w[6][3] = E
    BY <2>1
  <2> QED BY <2>2, Zenon DEF ThrottleChecks, A, B, C, D, E, w
<1> QED BY <1>1, <1>2

(* The check of a row is the same for all payloads *)
LEMMA ChecksAgree ==
  ASSUME NEW t \in ConfigType, NEW b \in PayloadOf(t), NEW c \in PayloadOf(t),
         NEW i \in DOMAIN Finds(t)
  PROVE  Steps(t, b)[i][3] = Steps(t, c)[i][3]
<1> DEFINE v == Steps(t, b)
           w == Steps(t, c)
<1>1. CASE t = Pedal
  <2>1. i \in 1..11
    BY <1>1, FindsDomain
  <2>2. PedalChecks(v) /\ PedalChecks(w)
    BY <1>1, OtherChecks
  <2> HIDE DEF v, w
  <2>3. /\ v[1][3] = w[1][3] /\ v[2][3] = w[2][3] /\ v[3][3] = w[3][3] /\ v[4][3] = w[4][3]
        /\ v[5][3] = w[5][3] /\ v[6][3] = w[6][3] /\ v[7][3] = w[7][3] /\ v[8][3] = w[8][3]
        /\ v[9][3] = w[9][3] /\ v[10][3] = w[10][3] /\ v[11][3] = w[11][3]
    BY <2>2, Zenon DEF PedalChecks
  <2> QED BY <2>1, <2>3 DEF v, w
<1>2. CASE t = Throttle
  <2>1. i \in 1..6
    BY <1>2, FindsDomain
  <2>2. ThrottleChecks(v) /\ ThrottleChecks(w)
    BY <1>2, OtherChecks
  <2> HIDE DEF v, w
  <2>3. /\ v[1][3] = w[1][3] /\ v[2][3] = w[2][3] /\ v[3][3] = w[3][3] /\ v[4][3] = w[4][3]
        /\ v[5][3] = w[5][3] /\ v[6][3] = w[6][3]
    BY <2>2, Zenon DEF ThrottleChecks
  <2> QED BY <2>1, <2>3 DEF v, w
<1>3. CASE t = Basic
  <2>1. i \in {1, 2, 23, 24, 25} \/ i \in 3..22
    BY <1>3, FindsDomain
  <2>2. BasicChecks(v) /\ BasicChecks(w)
    BY <1>3, StepChecks
  <2> HIDE DEF v, w
  <2>3. /\ v[1][3] = w[1][3] /\ v[2][3] = w[2][3]
        /\ v[23][3] = w[23][3] /\ v[24][3] = w[24][3] /\ v[25][3] = w[25][3]
    BY <2>2, Zenon DEF BasicChecks
  <2>4. ASSUME i \in 3..22 PROVE v[i][3] = Percent /\ w[i][3] = Percent
    BY <2>2, <2>4, Zenon DEF BasicChecks
  <2> QED BY <2>1, <2>3, <2>4 DEF v, w
<1> QED BY <1>1, <1>2, <1>3 DEF ConfigType

(* The values that pass a check are bytes, and the default of build is one *)
(* of them                                                                 *)
LEMMA ChecksLetPass ==
  ASSUME NEW t \in ConfigType, NEW b \in PayloadOf(t), NEW i \in DOMAIN Finds(t)
  PROVE  /\ Steps(t, b)[i][3] \subseteq Byte
         /\ Finds(t)[i][2] \in Steps(t, b)[i][3]
<1> DEFINE Good(d, A) == A \subseteq Byte /\ d \in A
<1>0. /\ \A d \in {0, 255, 4, 3} : Good(d, UpToOr255(9))
      /\ \A d \in {0, 3} : Good(d, UpToOr255(99))
      /\ \A d \in 1..100 : Good(d, Percent)
      /\ \A d \in 0..255 : Good(d, Byte)
  <2>1. UpToOr255(9) \subseteq Byte /\ UpToOr255(99) \subseteq Byte
    BY SMTT(20) DEF UpToOr255, Byte
  <2>2. \A d \in {0, 255, 4, 3} : d \in UpToOr255(9)
    BY SMTT(20) DEF UpToOr255
  <2>3. \A d \in {0, 3} : d \in UpToOr255(99)
    BY SMTT(20) DEF UpToOr255
  <2>4. \A d \in 1..100 : Good(d, Percent)
    BY SMTT(20) DEF Percent, Byte
  <2>5. \A d \in 0..255 : Good(d, Byte)
    BY Zenon DEF Byte
  <2> QED BY <2>1, <2>2, <2>3, <2>4, <2>5, Zenon
<1>1. CASE t = Pedal
  <2> DEFINE W == {v \in Byte : ~(v > 80 /\ v < 10 /\ v # 255)}
  <2>1. /\ Good(3, 0..4) /\ Good(0, UpToOr255(9)) /\ Good(0, UpToOr255(99)) /\ Good(20, 1..20)
        /\ Good(5, 1..8) /\ Good(20, Percent) /\ Good(0, W) /\ Good(25, Byte)
        /\ Good(8, 1..8) /\ Good(20, Byte) /\ Good(20, Percent)
    BY <1>0, SMT DEF Byte
  <2>2. PedalChecks(Steps(t, b))
    BY <1>1, OtherChecks
  <2>3. Finds(t) = PedalFinds /\ i \in 1..11
    BY <1>1, FindsDomain DEF Finds, General, Basic, Pedal
  <2>5. /\ PedalFinds[1][2] = 3 /\ PedalFinds[2][2] = 0 /\ PedalFinds[3][2] = 0
        /\ PedalFinds[4][2] = 20 /\ PedalFinds[5][2] = 5 /\ PedalFinds[6][2] = 20
        /\ PedalFinds[7][2] = 0 /\ PedalFinds[8][2] = 25 /\ PedalFinds[9][2] = 8
        /\ PedalFinds[10][2] = 20 /\ PedalFinds[11][2] = 20
    BY SMT DEF PedalFinds
  <2> DEFINE v == PedalFinds
             w == Steps(t, b)
  <2> HIDE DEF Good, v, w
  <2>6. /\ Good(v[1][2], w[1][3]) /\ Good(v[2][2], w[2][3]) /\ Good(v[3][2], w[3][3])
        /\ Good(v[4][2], w[4][3]) /\ Good(v[5][2], w[5][3]) /\ Good(v[6][2], w[6][3])
        /\ Good(v[7][2], w[7][3]) /\ Good(v[8][2], w[8][3]) /\ Good(v[9][2], w[9][3])
        /\ Good(v[10][2], w[10][3]) /\ Good(v[11][2], w[11][3])
    BY <2>1, <2>2, <2>5, Zenon DEF PedalChecks, v, w
  <2>4. Good(v[i][2], w[i][3])
    BY <2>3, <2>6
  <2> QED BY <2>3, <2>4 DEF Good, v, w
<1>2. CASE t = Throttle
  <2>1. /\ Good(11, 0..50) /\ Good(35, 0..50) /\ Good(0, 0..1) /\ Good(4, UpToOr255(9))
        /\ Good(3, UpToOr255(99)) /\ Good(20, Percent)
    BY <1>0, SMT DEF Byte
  <2>2. ThrottleChecks(Steps(t, b))
    BY <1>2, OtherChecks
  <2>3. Finds(t) = ThrottleFinds /\ i \in 1..6
    BY <1>2, FindsDomain DEF Finds, General, Basic, Pedal, Throttle
  <2>5. /\ ThrottleFinds[1][2] = 11 /\ ThrottleFinds[2][2] = 35 /\ ThrottleFinds[3][2] = 0
        /\ ThrottleFinds[4][2] = 4 /\ ThrottleFinds[5][2] = 3 /\ ThrottleFinds[6][2] = 20
    BY SMT DEF ThrottleFinds
  <2> DEFINE v == ThrottleFinds
             w == Steps(t, b)
  <2> HIDE DEF Good, v, w
  <2>6. /\ Good(v[1][2], w[1][3]) /\ Good(v[2][2], w[2][3]) /\ Good(v[3][2], w[3][3])
        /\ Good(v[4][2], w[4][3]) /\ Good(v[5][2], w[5][3]) /\ Good(v[6][2], w[6][3])
    BY <2>1, <2>2, <2>5, Zenon DEF ThrottleChecks, v, w
  <2>4. Good(v[i][2], w[i][3])
    BY <2>3, <2>6
  <2> QED BY <2>3, <2>4 DEF Good, v, w
<1>3. CASE t = Basic
  <2> DEFINE A == {v \in Byte : ~(v > 55 /\ v < 18)}
             B == Byte \ {0}
  <2>1. /\ Steps(t, b)[1][3] = A /\ Steps(t, b)[2][3] = B
        /\ \A j \in 3..22 : Steps(t, b)[j][3] = Percent
        /\ Steps(t, b)[23][3] = 0..15 /\ Steps(t, b)[24][3] = 0..2
        /\ Steps(t, b)[25][3] = 1..36
    <3>1. BasicChecks(Steps(t, b))
      BY <1>3, StepChecks
    <3> QED BY <3>1, Zenon DEF BasicChecks
  <2>2. Good(20, A) /\ Good(25, B) /\ Good(10, 0..15) /\ Good(0, 0..2) /\ Good(1, 1..36)
    BY SMT DEF Byte
  <2>3. /\ Finds(t) = BasicFinds /\ i \in 1..25
        /\ i \in {1, 2, 23, 24, 25} \/ i \in 3..12 \/ i \in 13..22
    BY <1>3, FindsDomain DEF Finds, General, Basic
  <2>4. ASSUME i \in 3..12 PROVE BasicFinds[i][2] \in 1..100
    <3>1. i - 2 \in 1..10 /\ (i - 2) + 2 = i
      BY <2>4
    <3>2. BasicFinds[(i - 2) + 2] = <<ALC[i - 2], 10 * (i - 2)>>
      BY <3>1, FindsType DEF BasicFindsRows
    <3>3. 10 * (i - 2) \in 1..100
      BY <3>1
    <3> QED BY <3>1, <3>2, <3>3
  <2>5. ASSUME i \in 13..22 PROVE BasicFinds[i][2] \in 1..100
    <3>1. i - 12 \in 1..10 /\ (i - 12) + 12 = i
      BY <2>5
    <3>2. BasicFinds[(i - 12) + 12] = <<ALBP[i - 12], 10 * (i - 12)>>
      BY <3>1, FindsType DEF BasicFindsRows
    <3>3. 10 * (i - 12) \in 1..100
      BY <3>1
    <3> QED BY <3>1, <3>2, <3>3
  <2>6. /\ BasicFinds[1][2] = 20 /\ BasicFinds[2][2] = 25 /\ BasicFinds[23][2] = 10
        /\ BasicFinds[24][2] = 0 /\ BasicFinds[25][2] = 1
    BY FindsType DEF BasicFindsRows
  <2> HIDE DEF A, B, Good
  <2>7. CASE i \in 3..22
    <3>1. Steps(t, b)[i][3] = Percent /\ Finds(t)[i][2] \in 1..100
      BY <2>1, <2>3, <2>4, <2>5, <2>7
    <3>2. Good(Finds(t)[i][2], Steps(t, b)[i][3])
      BY <1>0, <3>1
    <3> QED BY <3>2 DEF Good
  <2>8. CASE i \in {1, 2, 23, 24, 25}
    <3>1. Good(Finds(t)[i][2], Steps(t, b)[i][3])
      BY <2>1, <2>2, <2>3, <2>6, <2>8
    <3> QED BY <3>1 DEF Good
  <2> QED BY <2>3, <2>7, <2>8
<1> QED BY <1>1, <1>2, <1>3 DEF ConfigType

(* What the checks let pass is all that find returns, if the settings pass *)
LEMMA FoundPasses ==
  ASSUME NEW t \in ConfigType, NEW b \in PayloadOf(t), NEW p, SettingsPass(p),
         NEW i \in DOMAIN Finds(t)
  PROVE  Found(t, p)[i] \in Steps(t, b)[i][3]
<1> DEFINE zeros == [j \in 1..RequestPayloadSize(t) |-> 0]
           k == <<t, Finds(t)[i][1]>>
           default == Finds(t)[i][2]
<1>1. zeros \in PayloadOf(t)
  BY DEF PayloadOf, Byte
<1>2. k \in DOMAIN p.data => p.data[k] \in Steps(t, zeros)[i][3]
  <2> DEFINE steps == Steps(t, zeros)
  <2>1. i \in DOMAIN steps /\ steps[i][1] = Finds(t)[i][1]
    BY <1>1, StepsMatch
  <2>2. \A j \in DOMAIN steps :
          <<t, steps[j][1]>> \in DOMAIN p.data => p.data[<<t, steps[j][1]>>] \in steps[j][3]
    BY DEF SettingsPass
  <2> HIDE DEF steps
  <2>3. k \in DOMAIN p.data => p.data[k] \in steps[i][3]
    BY <2>1, <2>2
  <2> QED BY <2>3 DEF steps
<1>3. Steps(t, zeros)[i][3] = Steps(t, b)[i][3]
  BY <1>1, ChecksAgree
<1>4. default \in Steps(t, b)[i][3]
  BY ChecksLetPass
<1>5. Found(t, p)[i] = Find(p, k, default)
  BY DEF Found
<1> HIDE DEF zeros, k, default
<1> QED BY <1>2, <1>3, <1>4, <1>5 DEF Find

(* A profile whose settings pass is one whose settings pass for any        *)
(* payload                                                                 *)
LEMMA PassingSettings ==
  ASSUME NEW p,
         \A t \in ConfigType : \E b \in PayloadOf(t) : \A i \in DOMAIN Finds(t) :
           <<t, Finds(t)[i][1]>> \in DOMAIN p.data =>
             p.data[<<t, Finds(t)[i][1]>>] \in Steps(t, b)[i][3]
  PROVE  SettingsPass(p)
<1> SUFFICES ASSUME NEW t \in ConfigType
             PROVE  LET steps == Steps(t, [j \in 1..RequestPayloadSize(t) |-> 0])
                    IN  \A i \in DOMAIN steps :
                          <<t, steps[i][1]>> \in DOMAIN p.data =>
                            p.data[<<t, steps[i][1]>>] \in steps[i][3]
  BY DEF SettingsPass
<1> DEFINE zeros == [j \in 1..RequestPayloadSize(t) |-> 0]
           steps == Steps(t, zeros)
<1>1. zeros \in PayloadOf(t)
  BY DEF PayloadOf, Byte
<1>2. PICK b \in PayloadOf(t) : \A i \in DOMAIN Finds(t) :
           <<t, Finds(t)[i][1]>> \in DOMAIN p.data =>
             p.data[<<t, Finds(t)[i][1]>>] \in Steps(t, b)[i][3]
  OBVIOUS
<1>3. DOMAIN steps = DOMAIN Finds(t) /\ \A i \in DOMAIN Finds(t) : steps[i][1] = Finds(t)[i][1]
  BY <1>1, StepsMatch
<1>4. \A i \in DOMAIN Finds(t) : steps[i][3] = Steps(t, b)[i][3]
  BY <1>1, ChecksAgree
<1> HIDE DEF steps
<1>5. \A i \in DOMAIN steps : <<t, steps[i][1]>> \in DOMAIN p.data =>
                              p.data[<<t, steps[i][1]>>] \in steps[i][3]
  BY <1>2, <1>3, <1>4
<1> QED BY <1>5 DEF steps

(* ... and of any payload there is one                                     *)
LEMMA SettingPasses ==
  ASSUME NEW p, SettingsPass(p), NEW t \in ConfigType, NEW b \in PayloadOf(t),
         NEW i \in DOMAIN Finds(t), <<t, Finds(t)[i][1]>> \in DOMAIN p.data
  PROVE  p.data[<<t, Finds(t)[i][1]>>] \in Steps(t, b)[i][3]
<1>1. Found(t, p)[i] = p.data[<<t, Finds(t)[i][1]>>]
  BY DEF Found, Find
<1> QED BY <1>1, FoundPasses

(* Wheels and indices, the other way round *)
LEMMA IndexOfWheel ==
  ASSUME NEW k \in 0..15
  PROVE  Wheels[k + 1] \in Byte /\ WheelIndex(Wheels[k + 1]) \in 0..15
<1>1. DOMAIN Wheels = 1..16 /\ \A j \in 1..16 : Wheels[j] \in Byte
  BY SMT DEF Wheels, Byte
<1>2. k + 1 \in DOMAIN Wheels
  BY <1>1
<1> DEFINE w == Wheels[k + 1]
           j == CHOOSE i \in DOMAIN Wheels : Wheels[i] = w
<1>3. w \in Range(Wheels)
  BY <1>2 DEF Range
<1>4. j \in DOMAIN Wheels
  BY <1>2
<1>5. WheelIndex(w) = j - 1
  BY <1>3 DEF WheelIndex
<1> HIDE DEF j
<1> QED BY <1>1, <1>2, <1>4, <1>5

(* build finds bytes, and what it packs into the wheel and the speed meter *)
(* are an index and two small numbers                                      *)
BytesFound(t, v) ==
  /\ \A i \in DOMAIN Finds(t) : v[i] \in Byte
  /\ t = Basic => v[23] \in 0..15 /\ v[24] \in 0..2 /\ v[25] \in 1..36

(* Then parse would look at the numbers that build has found *)
LEMMA ServedValues ==
  ASSUME NEW t \in ConfigType, NEW p, BytesFound(t, Found(t, p))
  PROVE  /\ Build(t, p) \in PayloadOf(t)
         /\ \A i \in DOMAIN Finds(t) : Steps(t, Build(t, p))[i][2] = Found(t, p)[i]
<1> DEFINE v == Found(t, p)
           b == Build(t, p)
<1>2. DOMAIN v = DOMAIN Finds(t)
  BY DEF Found
<1>4. \A i \in DOMAIN Finds(t) : v[i] \in Byte
  BY DEF BytesFound
<1>3. t = Basic => v[23] \in 0..15 /\ v[24] \in 0..2 /\ v[25] \in 1..36
  BY DEF BytesFound
<1>5. \A x \in Byte : x % 256 = x
  BY SMT DEF Byte
<1> HIDE DEF v
<1>6. (\A i \in DOMAIN Finds(t) : Steps(t, b)[i][2] = v[i])
        => \A i \in DOMAIN Finds(t) : Steps(t, Build(t, p))[i][2] = Found(t, p)[i]
  <2> HIDE DEF b
  <2> QED BY Zenon DEF b, v
<1>7. CASE t = Pedal
  <2>1. DOMAIN v = 1..11
    BY <1>2, <1>7, FindsDomain
  <2>2. b = [i \in DOMAIN v |-> v[i] % 256]
    BY <1>7 DEF Build, General, Basic, Pedal, v
  <2>3. b \in [1..11 -> Byte] /\ \A i \in 1..11 : b[i] = v[i]
    BY <1>2, <1>4, <1>5, <2>1, <2>2
  <2>4. b \in PayloadOf(t)
    BY <1>7, <2>3 DEF PayloadOf, RequestPayloadSize, General, Basic, Pedal, Throttle
  <2> HIDE DEF b
  <2>5. \A i \in 1..11 : Steps(t, b)[i][2] = v[i]
    BY <1>7, <2>3, <2>4, StepValues
  <2> QED BY <1>2, <1>6, <2>1, <2>4, <2>5 DEF b
<1>8. CASE t = Throttle
  <2>1. DOMAIN v = 1..6
    BY <1>2, <1>8, FindsDomain
  <2>2. b = [i \in DOMAIN v |-> v[i] % 256]
    BY <1>8 DEF Build, General, Basic, Throttle, v
  <2>3. b \in [1..6 -> Byte] /\ \A i \in 1..6 : b[i] = v[i]
    BY <1>2, <1>4, <1>5, <2>1, <2>2
  <2>4. b \in PayloadOf(t)
    BY <1>8, <2>3 DEF PayloadOf, RequestPayloadSize, General, Basic, Pedal, Throttle
  <2> HIDE DEF b
  <2>5. \A i \in 1..6 : Steps(t, b)[i][2] = v[i]
    BY <1>8, <2>3, <2>4, StepValues
  <2> QED BY <1>2, <1>6, <2>1, <2>4, <2>5 DEF b
<1>9. CASE t = Basic
  <2>1. DOMAIN v = 1..25 /\ DOMAIN Finds(t) = 1..25
    BY <1>2, <1>9, FindsDomain
  <2>2. v[23] \in 0..15 /\ v[24] \in 0..2 /\ v[25] \in 1..36
    BY <1>3, <1>9
  <2>3. b = [i \in 1..24 |-> IF i = 23 THEN Wheels[v[23] + 1]
                             ELSE IF i = 24 THEN SpeedMeter(v[24], v[25])
                             ELSE v[i] % 256]
    BY <1>9 DEF Build, BuildBasic, General, Basic, v
  <2>4. \A i \in 1..22 : v[i] \in Byte /\ v[i] % 256 = v[i]
    BY <1>4, <1>5, <2>1
  <2>5. Wheels[v[23] + 1] \in Byte /\ WheelIndex(Wheels[v[23] + 1]) = v[23]
    <3>1. WheelIndex(Wheels[v[23] + 1]) \in 0..15
      BY <2>2, IndexOfWheel
    <3>2. Wheels[WheelIndex(Wheels[v[23] + 1]) + 1] = Wheels[v[23] + 1]
      BY <3>1, WheelOfIndex
    <3>3. \A k, l \in 0..15 : Wheels[k + 1] = Wheels[l + 1] => k = l
      BY SMT DEF Wheels
    <3> QED BY <2>2, <3>1, <3>2, <3>3, IndexOfWheel
  <2>6. /\ SpeedMeter(v[24], v[25]) \in Byte
        /\ SpeedMeter(v[24], v[25]) \div 64 = v[24]
        /\ SpeedMeter(v[24], v[25]) % 64 = v[25]
    <3>1. \A x \in 0..2, y \in 1..36 : /\ (x * 64 + y) % 256 \in Byte
                                       /\ ((x * 64 + y) % 256) \div 64 = x
                                       /\ ((x * 64 + y) % 256) % 64 = y
      BY SMT DEF Byte
    <3> QED BY <2>2, <3>1 DEF SpeedMeter
  <2>7. /\ b \in [1..24 -> Byte] /\ \A i \in 1..22 : b[i] = v[i]
        /\ b[23] = Wheels[v[23] + 1] /\ b[24] = SpeedMeter(v[24], v[25])
    BY <2>3, <2>4, <2>5, <2>6
  <2>8. b \in PayloadOf(t)
    BY <1>9, <2>7 DEF PayloadOf, RequestPayloadSize, General, Basic, Pedal, Throttle
  <2> HIDE DEF b
  <2>9. /\ \A i \in 1..22 : Steps(t, b)[i][2] = v[i]
        /\ Steps(t, b)[23][2] = v[23] /\ Steps(t, b)[24][2] = v[24] /\ Steps(t, b)[25][2] = v[25]
    BY <1>9, <2>5, <2>6, <2>7, <2>8, StepValues
  <2>10. \A i \in 1..25 : Steps(t, b)[i][2] = v[i]
    BY <2>9
  <2> QED BY <1>6, <2>1, <2>8, <2>10 DEF b
<1> QED BY <1>7, <1>8, <1>9 DEF ConfigType

(* What is served of a profile whose settings pass could be written back   *)
LEMMA ServedPasses ==
  ASSUME NEW t \in ConfigType, NEW p, SettingsPass(p)
  PROVE  Build(t, p) \in PayloadOf(t) /\ Accepted(t, Build(t, p))
<1> DEFINE v == Found(t, p)
           zeros == [j \in 1..RequestPayloadSize(t) |-> 0]
           b == Build(t, p)
<1>1. zeros \in PayloadOf(t)
  BY DEF PayloadOf, Byte
<1>2. \A c \in PayloadOf(t), i \in DOMAIN Finds(t) : v[i] \in Steps(t, c)[i][3]
  BY FoundPasses
<1>3. BytesFound(t, v)
  <2>1. \A i \in DOMAIN Finds(t) : v[i] \in Byte
    BY <1>1, <1>2, ChecksLetPass
  <2>2. ASSUME t = Basic PROVE v[23] \in 0..15 /\ v[24] \in 0..2 /\ v[25] \in 1..36
    <3>1. BasicChecks(Steps(t, zeros))
      BY <1>1, <2>2, StepChecks
    <3>2. DOMAIN Finds(t) = 1..25
      BY <2>2, FindsDomain
    <3>3. /\ v[23] \in Steps(t, zeros)[23][3]
          /\ v[24] \in Steps(t, zeros)[24][3]
          /\ v[25] \in Steps(t, zeros)[25][3]
      BY <1>1, <1>2, <3>2
    <3> HIDE DEF zeros, v
    <3> QED BY <3>1, <3>3, Zenon DEF BasicChecks
  <2> HIDE DEF v
  <2> QED BY <2>1, <2>2 DEF BytesFound
<1>4. b \in PayloadOf(t) /\ \A i \in DOMAIN Finds(t) : Steps(t, b)[i][2] = v[i]
  BY <1>3, ServedValues
<1> HIDE DEF v, b
<1>5. DOMAIN Steps(t, b) = DOMAIN Finds(t)
  BY <1>4, StepsMatch
<1>6. \A i \in DOMAIN Steps(t, b) : Steps(t, b)[i][2] \in Steps(t, b)[i][3]
  BY <1>2, <1>4, <1>5
<1> QED BY <1>4, <1>6 DEF Accepted, Failing, b

(* The settings that a saved file is left with after a cut still pass      *)
LEMMA FewerPass ==
  ASSUME NEW p, SettingsPass(p), NEW q,
         \A k \in DOMAIN q.data : k \in DOMAIN p.data /\ q.data[k] = p.data[k]
  PROVE  SettingsPass(q)
BY Zenon DEF SettingsPass

(* There is a payload of every type *)
LEMMA SomePayload ==
  ASSUME NEW t
  PROVE  [j \in 1..RequestPayloadSize(t) |-> 0] \in PayloadOf(t)
BY DEF PayloadOf, Byte

(* ... and the defaults that find leaves in a profile pass *)
LEMMA TouchedPasses ==
  ASSUME NEW t \in PacketType, NEW p, IsProfile(p), SettingsPass(p)
  PROVE  SettingsPass(Touched(t, p))
<1> DEFINE T == Tabulated(t, Finds(t))
           q == Touched(t, p)
<1>1. CASE p.exists
  BY <1>1 DEF Touched, FindAll
<1>2. CASE ~p.exists
  <2>1. q.data = Merge(T, p.data)
    BY <1>2 DEF Touched, FindAll, IsProfile
  <2>2. ASSUME NEW u \in ConfigType, NEW b \in PayloadOf(u), NEW i \in DOMAIN Finds(u),
               <<u, Finds(u)[i][1]>> \in DOMAIN q.data
        PROVE  q.data[<<u, Finds(u)[i][1]>>] \in Steps(u, b)[i][3]
    <3> DEFINE k == <<u, Finds(u)[i][1]>>
               default == Finds(u)[i][2]
    <3>1. k \in DOMAIN T => T[k] = default
      BY NamesDiffer, TabulatedRow DEF PacketType
    <3>2. default \in Steps(u, b)[i][3]
      BY ChecksLetPass
    <3>3. k \in DOMAIN p.data => p.data[k] \in Steps(u, b)[i][3]
      BY SettingPasses
    <3> HIDE DEF k, default, T, q
    <3>4. /\ k \in DOMAIN T \/ k \in DOMAIN p.data
          /\ q.data[k] = IF k \in DOMAIN p.data THEN p.data[k] ELSE T[k]
      BY <2>1, <2>2 DEF Merge, k
    <3> QED BY <3>1, <3>2, <3>3, <3>4 DEF k
  <2> HIDE DEF q
  <2>3. SettingsPass(q)
    BY <2>2, SomePayload, PassingSettings
  <2> QED BY <2>3 DEF q
<1> QED BY <1>1, <1>2

(* ... and so do the settings of an accepted write                         *)
LEMMA AddingPasses ==
  ASSUME NEW t \in ConfigType, NEW b \in PayloadOf(t), Accepted(t, b),
         NEW p, IsProfile(p), SettingsPass(p)
  PROVE  SettingsPass(Adding(t, b, p))
<1> DEFINE steps == Steps(t, b)
           T == Tabulated(t, steps)
           q == Adding(t, b, p)
<1>1. \A i, j \in DOMAIN steps : steps[i][1] = steps[j][1] => i = j
  BY StepsMatch, NamesDiffer DEF PacketType
<1>2. /\ \A i \in DOMAIN steps : /\ <<t, steps[i][1]>> \in DOMAIN T
                                 /\ T[<<t, steps[i][1]>>] = steps[i][2]
      /\ \A u, n : u # t => <<u, n>> \notin DOMAIN T
  <2> HIDE DEF steps
  <2> QED BY <1>1, TabulatedRow
<1>3. q.data = Merge(p.data, T)
  BY DEF Adding, AddAll, IsProfile
<1>4. DOMAIN steps = DOMAIN Finds(t) /\ \A i \in DOMAIN Finds(t) : steps[i][1] = Finds(t)[i][1]
  BY StepsMatch
<1>5. \A i \in DOMAIN steps : steps[i][2] \in steps[i][3]
  BY DEF Accepted, Failing
<1> HIDE DEF steps, T, q
<1>6. ASSUME NEW u \in ConfigType, NEW c \in PayloadOf(u), NEW i \in DOMAIN Finds(u),
             <<u, Finds(u)[i][1]>> \in DOMAIN q.data
      PROVE  q.data[<<u, Finds(u)[i][1]>>] \in Steps(u, c)[i][3]
  <2> DEFINE k == <<u, Finds(u)[i][1]>>
  <2>1. k \in DOMAIN T => T[k] \in Steps(u, c)[i][3]
    <3>1. CASE u = t
      <4>1. T[k] = steps[i][2] /\ steps[i][2] \in steps[i][3]
        BY <1>2, <1>4, <1>5, <3>1
      <4>2. Steps(u, c)[i][3] = steps[i][3]
        BY <3>1, ChecksAgree DEF steps
      <4> QED BY <4>1, <4>2
    <3>2. CASE u # t
      BY <1>2, <3>2
    <3> QED BY <3>1, <3>2
  <2>2. k \in DOMAIN p.data => p.data[k] \in Steps(u, c)[i][3]
    BY SettingPasses
  <2> HIDE DEF k
  <2>3. /\ k \in DOMAIN T \/ k \in DOMAIN p.data
        /\ q.data[k] = IF k \in DOMAIN T THEN T[k] ELSE p.data[k]
    BY <1>3, <1>6 DEF Merge, k
  <2> QED BY <2>1, <2>2, <2>3 DEF k
<1>7. SettingsPass(q)
  BY <1>6, SomePayload, PassingSettings
<1> QED BY <1>7 DEF q

-----------------------------------------------------------------------------
(* Files that a full disk has cut inside a line                            *)

(* Settings that are left of d: some of them, some only in part *)
Worn(c, d) == /\ IsData(c)
              /\ DOMAIN c \subseteq DOMAIN d
              /\ \A k \in DOMAIN c : c[k] = d[k] \/ c[k] \in Fragments(k, d[k])

(* The file has a bad line, or settings that are left of those saved *)
LEMMA TornType ==
  ASSUME NEW d, IsData(d), NEW f \in TornFiles(d)
  PROVE  f = Garbled \/ \E c : f = Holding(c) /\ Worn(c, d)
<1> DEFINE Before(n) == DOMAIN d \intersect Range(SubSeq(KeyOrder, 1, n - 1))
           Torn(n, v) == Merge(Restrict(d, Before(n)), [l \in {KeyOrder[n]} |-> v])
<1>1. f = Garbled \/ \E n \in DOMAIN KeyOrder : /\ KeyOrder[n] \in DOMAIN d
                                                /\ \E v \in Fragments(KeyOrder[n], d[KeyOrder[n]]) :
                                                     f = Holding(Torn(n, v))
  BY DEF TornFiles
<1>2. ASSUME NEW n, KeyOrder[n] \in DOMAIN d,
             NEW v \in Fragments(KeyOrder[n], d[KeyOrder[n]])
      PROVE  Worn(Torn(n, v), d)
  <2> DEFINE k == KeyOrder[n]
             r == Restrict(d, Before(n))
             e == [l \in {k} |-> v]
  <2>1. d[k] \in Int /\ k # BadLine
    BY <1>2 DEF IsData
  <2>2. v \in Int
    BY <1>2, <2>1 DEF Fragments
  <2>3. IsData(r) /\ DOMAIN r \subseteq DOMAIN d /\ \A l \in DOMAIN r : r[l] = d[l]
    BY DEF IsData, Restrict
  <2>4. IsData(e)
    BY <2>1, <2>2 DEF IsData
  <2>5. Torn(n, v) = Merge(r, e)
    OBVIOUS
  <2> HIDE DEF r, k
  <2>6. IsData(Merge(r, e))
    BY <2>3, <2>4, MergeType
  <2>7. /\ DOMAIN Merge(r, e) \subseteq DOMAIN d
        /\ \A l \in DOMAIN Merge(r, e) : \/ Merge(r, e)[l] = d[l]
                                         \/ l = k /\ Merge(r, e)[l] = v
    BY <1>2, <2>3 DEF Merge, k
  <2>8. v \in Fragments(k, d[k])
    BY <1>2 DEF k
  <2> HIDE DEF e, Before, Torn
  <2> QED BY <2>5, <2>6, <2>7, <2>8 DEF Worn
<1> HIDE DEF Torn
<1> QED BY <1>1, <1>2

(* What is left of a byte without its last digits *)
Shorter(v, w) == /\ w \in 1..25 /\ w <= v /\ v >= 10
                 /\ v <= 99 => w <= 9
                 /\ v = 255 => w = 25 \/ w = 2

LEMMA Shortened ==
  ASSUME NEW k, k \notin Words, NEW v \in Byte, NEW w \in Fragments(k, v)
  PROVE  Shorter(v, w)
<1>1. PICK n \in {10, 100, 1000, 10000, 100000, 1000000, 10000000, 100000000, 1000000000} :
        w = v \div n
  BY DEF Fragments
<1>2. w # 0 /\ v \in 0..255
  BY DEF Fragments, Byte
<1>3. CASE n = 10
  BY <1>1, <1>2, <1>3 DEF Shorter
<1>4. CASE n = 100
  BY <1>1, <1>2, <1>4 DEF Shorter
<1>5. CASE n \notin {10, 100}
  <2>1. v \div n = 0
    BY <1>1, <1>2, <1>5
  <2> QED BY <1>1, <1>2, <2>1
<1> QED BY <1>3, <1>4, <1>5

(* The index of the wheel keeps its range *)
LEMMA WornWheel ==
  ASSUME NEW d, NEW c, Worn(c, d), WheelInRange([exists |-> TRUE, data |-> d])
  PROVE  WheelInRange([exists |-> TRUE, data |-> c])
<1> DEFINE k == <<Basic, "WD">>
<1>1. CASE k \in DOMAIN c
  <2>1. k \in DOMAIN d /\ (c[k] = d[k] \/ c[k] \in Fragments(k, d[k]))
    BY <1>1 DEF Worn
  <2>2. d[k] \in 0..15
    BY <2>1 DEF WheelInRange, Find
  <2>3. k \notin Words
    BY DEF Words, General, Basic
  <2>4. ASSUME c[k] \in Fragments(k, d[k]) PROVE c[k] \in 0..15
    <3>1. d[k] \in Byte
      BY <2>2 DEF Byte
    <3> HIDE DEF k
    <3>2. Shorter(d[k], c[k])
      BY <2>3, <2>4, <3>1, Shortened
    <3> QED BY <2>2, <3>2 DEF Shorter
  <2>5. c[k] \in 0..15
    BY <2>1, <2>2, <2>4
  <2> QED BY <1>1, <2>5 DEF WheelInRange, Find
<1>2. CASE k \notin DOMAIN c
  BY <1>2 DEF WheelInRange, Find
<1> QED BY <1>1, <1>2

(* What the settings are then: those that pass the checks, or an assist    *)
(* level of 25                                                             *)
Nearly(t, b, i) ==
  Steps(t, b)[i][3] \union (IF Finds(t)[i][1] = "DA" THEN {25} ELSE {})

NearlyPass(p) ==
  \A t \in ConfigType : \A b \in PayloadOf(t), i \in DOMAIN Finds(t) :
    LET k == <<t, Finds(t)[i][1]>>
    IN  k \in DOMAIN p.data => p.data[k] \in Nearly(t, b, i)

LEMMA PassNearly ==
  ASSUME NEW p, SettingsPass(p)
  PROVE  NearlyPass(p)
BY SettingPasses DEF NearlyPass, Nearly

(* Sets that a value does not leave when it loses digits *)
Kept(A) == \A v \in A \intersect Byte : \A w : Shorter(v, w) => w \in A

LEMMA KeptSets ==
  /\ Kept(0..4) /\ Kept(1..20) /\ Kept(1..8) /\ Kept(Percent) /\ Kept(Byte) /\ Kept(0..50)
  /\ Kept(0..1) /\ Kept(0..15) /\ Kept(0..2) /\ Kept(1..36) /\ Kept(Byte \ {0})
  /\ Kept({v \in Byte : ~(v > 80 /\ v < 10 /\ v # 255)})
  /\ Kept({v \in Byte : ~(v > 55 /\ v < 18)})
  /\ Kept(UpToOr255(99)) /\ Kept(UpToOr255(9) \union {25})
<1>1. /\ Kept(0..4) /\ Kept(1..20) /\ Kept(1..8) /\ Kept(0..50)
      /\ Kept(0..1) /\ Kept(0..15) /\ Kept(0..2) /\ Kept(1..36)
  BY DEF Kept, Shorter
<1>2. Kept(Percent) /\ Kept(Byte) /\ Kept(Byte \ {0})
  <2>1. \A w \in 1..25 : w \in 1..100 /\ w \in 0..255 /\ w # 0
    OBVIOUS
  <2>2. \A v, w : Shorter(v, w) => w \in Percent /\ w \in Byte /\ w # 0
    BY <2>1, Zenon DEF Shorter, Percent, Byte
  <2> QED BY <2>2, Zenon DEF Kept
<1>3. /\ Kept({v \in Byte : ~(v > 80 /\ v < 10 /\ v # 255)})
      /\ Kept({v \in Byte : ~(v > 55 /\ v < 18)})
  BY DEF Kept, Shorter, Byte
<1>4. Kept(UpToOr255(99)) /\ Kept(UpToOr255(9) \union {25})
  BY DEF Kept, Shorter, UpToOr255, Byte
<1> QED BY <1>1, <1>2, <1>3, <1>4

(* The rows that are an assist level *)
LEMMA AssistLevels ==
  /\ \A i \in 1..11 : PedalFinds[i][1] = "DA" <=> i = 2
  /\ \A i \in 1..6 : ThrottleFinds[i][1] = "DA" <=> i = 4
  /\ \A i \in 1..25 : BasicFinds[i][1] # "DA"
<1>1. \A i \in 1..11 : PedalFinds[i][1] = "DA" <=> i = 2
  BY SMT DEF PedalFinds
<1>2. \A i \in 1..6 : ThrottleFinds[i][1] = "DA" <=> i = 4
  BY SMT DEF ThrottleFinds
<1>3. ASSUME NEW i \in 1..25 PROVE BasicFinds[i][1] # "DA"
  <2>1. \A j \in 1..10 : ALC[j] # "DA" /\ ALBP[j] # "DA"
    BY SMT DEF ALC, ALBP
  <2> QED BY <2>1, BasicNames
<1> QED BY <1>1, <1>2, <1>3

LEMMA KeptRows ==
  ASSUME NEW t \in ConfigType, NEW b \in PayloadOf(t), NEW i \in DOMAIN Finds(t)
  PROVE  /\ Kept(Nearly(t, b, i))
         /\ Finds(t)[i][1] # "DA" => Nearly(t, b, i) = Steps(t, b)[i][3]
         /\ Finds(t)[i][1] = "DA" => Steps(t, b)[i][3] = UpToOr255(9)
<1> DEFINE w == Steps(t, b)
           name == Finds(t)[i][1]
<1>1. name # "DA" => Nearly(t, b, i) = w[i][3]
  BY DEF Nearly
<1>2. name = "DA" => Nearly(t, b, i) = w[i][3] \union {25}
  BY DEF Nearly
<1>3. SUFFICES /\ name # "DA" => Kept(w[i][3])
               /\ name = "DA" => w[i][3] = UpToOr255(9)
  BY <1>1, <1>2, KeptSets
<1>4. CASE t = Pedal
  <2>1. i \in 1..11 /\ (name = "DA" <=> i = 2)
    BY <1>4, FindsDomain, AssistLevels DEF Finds, General, Basic, Pedal
  <2>2. PedalChecks(w)
    BY <1>4, OtherChecks
  <2> HIDE DEF w, name
  <2>3. /\ Kept(w[1][3]) /\ Kept(w[3][3]) /\ Kept(w[4][3]) /\ Kept(w[5][3])
        /\ Kept(w[6][3]) /\ Kept(w[7][3]) /\ Kept(w[8][3]) /\ Kept(w[9][3])
        /\ Kept(w[10][3]) /\ Kept(w[11][3]) /\ w[2][3] = UpToOr255(9)
    BY <2>2, KeptSets, Zenon DEF PedalChecks
  <2> QED BY <2>1, <2>3
<1>5. CASE t = Throttle
  <2>1. i \in 1..6 /\ (name = "DA" <=> i = 4)
    BY <1>5, FindsDomain, AssistLevels DEF Finds, General, Basic, Pedal, Throttle
  <2>2. ThrottleChecks(w)
    BY <1>5, OtherChecks
  <2> HIDE DEF w, name
  <2>3. /\ Kept(w[1][3]) /\ Kept(w[2][3]) /\ Kept(w[3][3]) /\ Kept(w[5][3])
        /\ Kept(w[6][3]) /\ w[4][3] = UpToOr255(9)
    BY <2>2, KeptSets, Zenon DEF ThrottleChecks
  <2> QED BY <2>1, <2>3
<1>6. CASE t = Basic
  <2>1. name # "DA" /\ (i \in {1, 2, 23, 24, 25} \/ i \in 3..22)
    BY <1>6, FindsDomain, AssistLevels DEF Finds, General, Basic
  <2>2. BasicChecks(w)
    BY <1>6, StepChecks
  <2> HIDE DEF w, name
  <2>3. /\ Kept(w[1][3]) /\ Kept(w[2][3]) /\ Kept(w[23][3]) /\ Kept(w[24][3]) /\ Kept(w[25][3])
        /\ \A j \in 3..22 : Kept(w[j][3])
    BY <2>2, KeptSets, Zenon DEF BasicChecks
  <2> QED BY <2>1, <2>3
<1> QED BY <1>4, <1>5, <1>6 DEF ConfigType

(* What nearly passes is a byte *)
LEMMA NearlyBytes ==
  ASSUME NEW t \in ConfigType, NEW b \in PayloadOf(t), NEW i \in DOMAIN Finds(t)
  PROVE  Nearly(t, b, i) \subseteq Byte /\ Finds(t)[i][2] \in Nearly(t, b, i)
<1>1. 25 \in Byte
  BY DEF Byte
<1> QED BY <1>1, ChecksLetPass DEF Nearly

(* Settings that nearly pass do so with whatever is left of them *)
LEMMA WornNearly ==
  ASSUME NEW p, NEW q, Worn(q.data, p.data), NearlyPass(p)
  PROVE  NearlyPass(q)
<1> SUFFICES ASSUME NEW t \in ConfigType, NEW b \in PayloadOf(t), NEW i \in DOMAIN Finds(t),
                    <<t, Finds(t)[i][1]>> \in DOMAIN q.data
             PROVE  q.data[<<t, Finds(t)[i][1]>>] \in Nearly(t, b, i)
  BY DEF NearlyPass
<1> DEFINE k == <<t, Finds(t)[i][1]>>
<1>1. k \in DOMAIN p.data /\ (q.data[k] = p.data[k] \/ q.data[k] \in Fragments(k, p.data[k]))
  BY DEF Worn
<1>2. p.data[k] \in Nearly(t, b, i)
  BY <1>1 DEF NearlyPass
<1>3. k \notin Words
  BY DEF Words, ConfigType, General, Basic, Pedal, Throttle
<1>4. p.data[k] \in Byte
  BY <1>2, NearlyBytes
<1> HIDE DEF k
<1>5. ASSUME q.data[k] \in Fragments(k, p.data[k]) PROVE q.data[k] \in Nearly(t, b, i)
  <2>1. Shorter(p.data[k], q.data[k])
    BY <1>3, <1>4, <1>5, Shortened
  <2>2. Kept(Nearly(t, b, i))
    BY KeptRows
  <2> QED BY <1>2, <1>4, <2>1, <2>2 DEF Kept
<1>6. q.data[k] \in Nearly(t, b, i)
  BY <1>1, <1>2, <1>5
<1> QED BY <1>6 DEF k

(* ... with the defaults that find leaves in a profile                     *)
LEMMA TouchedNearly ==
  ASSUME NEW t \in PacketType, NEW p, IsProfile(p), NearlyPass(p)
  PROVE  NearlyPass(Touched(t, p))
<1> DEFINE T == Tabulated(t, Finds(t))
           q == Touched(t, p)
<1>1. CASE p.exists
  BY <1>1 DEF Touched, FindAll
<1>2. CASE ~p.exists
  <2>1. q.data = Merge(T, p.data)
    BY <1>2 DEF Touched, FindAll, IsProfile
  <2>2. ASSUME NEW u \in ConfigType, NEW b \in PayloadOf(u), NEW i \in DOMAIN Finds(u),
               <<u, Finds(u)[i][1]>> \in DOMAIN q.data
        PROVE  q.data[<<u, Finds(u)[i][1]>>] \in Nearly(u, b, i)
    <3> DEFINE k == <<u, Finds(u)[i][1]>>
               default == Finds(u)[i][2]
    <3>1. k \in DOMAIN T => T[k] = default
      BY NamesDiffer, TabulatedRow DEF PacketType
    <3>2. default \in Nearly(u, b, i)
      BY NearlyBytes
    <3>3. k \in DOMAIN p.data => p.data[k] \in Nearly(u, b, i)
      BY DEF NearlyPass
    <3> HIDE DEF k, default, T, q
    <3>4. /\ k \in DOMAIN T \/ k \in DOMAIN p.data
          /\ q.data[k] = IF k \in DOMAIN p.data THEN p.data[k] ELSE T[k]
      BY <2>1, <2>2 DEF Merge, k
    <3> QED BY <3>1, <3>2, <3>3, <3>4 DEF k
  <2> HIDE DEF q
  <2>3. NearlyPass(q)
    BY <2>2 DEF NearlyPass
  <2> QED BY <2>3 DEF q
<1> QED BY <1>1, <1>2

(* ... and with those of an accepted write                                 *)
LEMMA AddingNearly ==
  ASSUME NEW t \in ConfigType, NEW b \in PayloadOf(t), Accepted(t, b),
         NEW p, IsProfile(p), NearlyPass(p)
  PROVE  NearlyPass(Adding(t, b, p))
<1> DEFINE T == Tabulated(t, Steps(t, b))
           q == Adding(t, b, p)
           n == [exists |-> FALSE, data |-> NoData]
<1>1. IsProfile(n) /\ SettingsPass(n)
  BY Zenon DEF IsProfile, IsData, NoData, SettingsPass
<1>2. SettingsPass(Adding(t, b, n))
  BY <1>1, AddingPasses
<1>3. Adding(t, b, n).data = Merge(NoData, T) /\ q.data = Merge(p.data, T)
  BY DEF Adding, AddAll, IsProfile
<1> HIDE DEF T, q, n
<1>4. Merge(NoData, T) = [k \in DOMAIN T |-> T[k]]
  BY DEF Merge, NoData
<1>5. NearlyPass(Adding(t, b, n))
  BY <1>2, PassNearly
<1>6. \A k \in DOMAIN q.data : \/ k \in DOMAIN Adding(t, b, n).data /\ q.data[k] = Adding(t, b, n).data[k]
                               \/ k \in DOMAIN p.data /\ q.data[k] = p.data[k]
  BY <1>3, <1>4 DEF Merge
<1>7. NearlyPass(q)
  <2> SUFFICES ASSUME NEW u \in ConfigType, NEW c \in PayloadOf(u), NEW i \in DOMAIN Finds(u),
                      <<u, Finds(u)[i][1]>> \in DOMAIN q.data
               PROVE  q.data[<<u, Finds(u)[i][1]>>] \in Nearly(u, c, i)
    BY DEF NearlyPass
  <2> QED BY <1>5, <1>6 DEF NearlyPass
<1> QED BY <1>7 DEF q

(* Of what is served then all could be written back, but for the assist    *)
(* levels that have become 25                                              *)
LEMMA ServedNearly ==
  ASSUME NEW t \in ConfigType, NEW p, NearlyPass(p)
  PROVE  \A i \in Failing(t, Build(t, p)) :
           Steps(t, Build(t, p))[i][1] = "DA" /\ Steps(t, Build(t, p))[i][2] = 25
<1> DEFINE v == Found(t, p)
           zeros == [j \in 1..RequestPayloadSize(t) |-> 0]
           b == Build(t, p)
<1>1. zeros \in PayloadOf(t)
  BY DEF PayloadOf, Byte
<1>2. ASSUME NEW c \in PayloadOf(t), NEW i \in DOMAIN Finds(t) PROVE v[i] \in Nearly(t, c, i)
  <2> DEFINE k == <<t, Finds(t)[i][1]>>
             default == Finds(t)[i][2]
  <2>1. k \in DOMAIN p.data => p.data[k] \in Nearly(t, c, i)
    BY DEF NearlyPass
  <2>2. default \in Nearly(t, c, i)
    BY NearlyBytes
  <2>3. v[i] = Find(p, k, default)
    BY DEF Found
  <2> HIDE DEF k, default, v
  <2> QED BY <2>1, <2>2, <2>3 DEF Find
<1>3. BytesFound(t, v)
  <2>1. \A i \in DOMAIN Finds(t) : v[i] \in Byte
    BY <1>1, <1>2, NearlyBytes
  <2>2. ASSUME t = Basic PROVE v[23] \in 0..15 /\ v[24] \in 0..2 /\ v[25] \in 1..36
    <3>1. BasicChecks(Steps(t, zeros))
      BY <1>1, <2>2, StepChecks
    <3>2. DOMAIN Finds(t) = 1..25 /\ \A i \in 1..25 : Finds(t)[i][1] # "DA"
      BY <2>2, FindsDomain, AssistLevels DEF Finds, General, Basic
    <3>3. \A i \in 1..25 : v[i] \in Steps(t, zeros)[i][3]
      BY <1>1, <1>2, <3>2, KeptRows
    <3>4. /\ v[23] \in Steps(t, zeros)[23][3]
          /\ v[24] \in Steps(t, zeros)[24][3]
          /\ v[25] \in Steps(t, zeros)[25][3]
      BY <3>3
    <3> HIDE DEF zeros, v
    <3> QED BY <3>1, <3>4, Zenon DEF BasicChecks
  <2> HIDE DEF v
  <2> QED BY <2>1, <2>2 DEF BytesFound
<1>4. b \in PayloadOf(t) /\ \A i \in DOMAIN Finds(t) : Steps(t, b)[i][2] = v[i]
  BY <1>3, ServedValues
<1> HIDE DEF v, b
<1>5. /\ DOMAIN Steps(t, b) = DOMAIN Finds(t)
      /\ \A i \in DOMAIN Finds(t) : Steps(t, b)[i][1] = Finds(t)[i][1]
  BY <1>4, StepsMatch
<1>6. ASSUME NEW i \in Failing(t, b)
      PROVE  Steps(t, b)[i][1] = "DA" /\ Steps(t, b)[i][2] = 25
  <2>1. i \in DOMAIN Finds(t) /\ v[i] \notin Steps(t, b)[i][3]
    BY <1>4, <1>5 DEF Failing
  <2>2. v[i] \in Nearly(t, b, i)
    BY <1>2, <1>4, <2>1
  <2> QED BY <1>4, <1>5, <2>1, <2>2 DEF Nearly
<1> QED BY <1>6 DEF b

-----------------------------------------------------------------------------
(* Packets                                                                 *)

(* The element that the sum over a set takes first; sums with the sums of  *)
(* the subsets of S that have up to n elements                             *)
First(s) == CHOOSE x \in s : TRUE
UpTo(S, n) == {s \in SUBSET S : Cardinality(s) <= n}
Sums(sums, f, S, n) ==
  sums = [s \in UpTo(S, n) |-> IF s = {} THEN 0 ELSE f[First(s)] + sums[s \ {First(s)}]]

LEMMA Smaller ==
  ASSUME NEW S, IsFiniteSet(S), NEW s \in SUBSET S
  PROVE  /\ Cardinality(s) \in Nat
         /\ Cardinality(s) <= Cardinality(S)
         /\ s = {} <=> Cardinality(s) = 0
         /\ s # {} => /\ First(s) \in s
                      /\ s \ {First(s)} \in SUBSET S
                      /\ Cardinality(s \ {First(s)}) = Cardinality(s) - 1
<1>1. IsFiniteSet(s) /\ Cardinality(s) <= Cardinality(S)
  BY FS_Subset
<1>2. Cardinality(s) \in Nat /\ (s = {} <=> Cardinality(s) = 0)
  BY <1>1, FS_CardinalityType, FS_EmptySet
<1>3. s # {} => First(s) \in s
  BY DEF First
<1>4. s # {} => Cardinality(s \ {First(s)}) = Cardinality(s) - 1
  BY <1>1, <1>3, FS_RemoveElement
<1> QED BY <1>1, <1>2, <1>3, <1>4

(* There are such sums: those of n + 1 elements come from those of n *)
LEMMA SumsExist ==
  ASSUME NEW f, NEW S, IsFiniteSet(S), NEW n \in Nat
  PROVE  \E sums : Sums(sums, f, S, n)
<1> DEFINE I == {m \in Nat : ~\E sums : Sums(sums, f, S, m)}
<1> SUFFICES ASSUME I # {} PROVE FALSE
  OBVIOUS
<1>1. PICK m \in I : \A j \in I : m <= j
  BY FirstOf
<1>2. m # 0
  <2> DEFINE none == [s \in UpTo(S, 0) |-> 0]
  <2>1. ASSUME NEW s \in UpTo(S, 0) PROVE s = {}
    <3>1. s \in SUBSET S /\ Cardinality(s) <= 0
      BY DEF UpTo
    <3>2. Cardinality(s) \in Nat /\ (Cardinality(s) = 0 => s = {})
      BY <3>1, Smaller, Zenon
    <3> QED BY <3>1, <3>2
  <2>2. Sums(none, f, S, 0)
    BY <2>1 DEF Sums
  <2> QED BY <2>2
<1>3. PICK less : Sums(less, f, S, m - 1)
  BY <1>1, <1>2
<1> DEFINE more == [s \in UpTo(S, m) |-> IF s = {} THEN 0 ELSE f[First(s)] + less[s \ {First(s)}]]
<1>4. \A s \in UpTo(S, m - 1) : s \in UpTo(S, m) /\ less[s] = more[s]
  <2>1. ASSUME NEW s \in UpTo(S, m - 1) PROVE s \in UpTo(S, m)
    <3>1. s \in SUBSET S /\ Cardinality(s) <= m - 1
      BY DEF UpTo
    <3>2. Cardinality(s) \in Nat
      BY <3>1, Smaller, Zenon
    <3>3. Cardinality(s) <= m
      BY <1>1, <3>1, <3>2
    <3> QED BY <3>1, <3>3 DEF UpTo
  <2> QED BY <1>3, <2>1 DEF Sums
<1>5. \A s \in UpTo(S, m) : s # {} => s \ {First(s)} \in UpTo(S, m - 1)
  BY Smaller DEF UpTo
<1>6. Sums(more, f, S, m)
  BY <1>4, <1>5 DEF Sums
<1> QED BY <1>1, <1>6

(* A sum is what its recursion says *)
LEMMA SumStep ==
  ASSUME NEW f, NEW S, IsFiniteSet(S)
  PROVE  \E sums : Sums(sums, f, S, Cardinality(S)) /\ SumFunctionOnSet(f, S) = sums[S]
<1> DEFINE sums == CHOOSE sums : sums = [s \in SUBSET S |->
                     IF s = {} THEN 0 ELSE f[First(s)] + sums[s \ {First(s)}]]
<1>1. SumFunctionOnSet(f, S) = sums[S]
  BY DEF SumFunctionOnSet, FoldFunctionOnSet, MapThenFoldSet, First
<1>2. UpTo(S, Cardinality(S)) = SUBSET S
  BY Smaller DEF UpTo
<1>3. Cardinality(S) \in Nat
  BY FS_CardinalityType
<1>4. Sums(sums, f, S, Cardinality(S))
  <2>1. PICK some : Sums(some, f, S, Cardinality(S))
    BY <1>3, SumsExist
  <2>2. some = [s \in SUBSET S |-> IF s = {} THEN 0 ELSE f[First(s)] + some[s \ {First(s)}]]
    BY <1>2, <2>1 DEF Sums
  <2>3. sums = [s \in SUBSET S |-> IF s = {} THEN 0 ELSE f[First(s)] + sums[s \ {First(s)}]]
    BY <2>2
  <2> QED BY <1>2, <2>3 DEF Sums
<1> QED BY <1>1, <1>4

(* The sum of numbers is a number; if one of them changes, the sum changes as much *)
LEMMA SumMoves ==
  ASSUME NEW S, IsFiniteSet(S), NEW f, NEW g, \A j \in S : f[j] \in Int /\ g[j] \in Int,
         NEW i \in S, \A j \in S : j # i => f[j] = g[j]
  PROVE  /\ SumFunctionOnSet(f, S) \in Int /\ SumFunctionOnSet(g, S) \in Int
         /\ SumFunctionOnSet(f, S) - f[i] = SumFunctionOnSet(g, S) - g[i]
<1>1. PICK F : Sums(F, f, S, Cardinality(S)) /\ SumFunctionOnSet(f, S) = F[S]
  BY SumStep
<1>2. PICK G : Sums(G, g, S, Cardinality(S)) /\ SumFunctionOnSet(g, S) = G[S]
  BY SumStep
<1>3. UpTo(S, Cardinality(S)) = SUBSET S
  BY Smaller DEF UpTo
<1>4. \A s \in SUBSET S : /\ F[s] = IF s = {} THEN 0 ELSE f[First(s)] + F[s \ {First(s)}]
                          /\ G[s] = IF s = {} THEN 0 ELSE g[First(s)] + G[s \ {First(s)}]
  BY <1>1, <1>2, <1>3 DEF Sums
<1> DEFINE Good(s) == /\ F[s] \in Int /\ G[s] \in Int
                      /\ i \in s => F[s] - f[i] = G[s] - g[i]
                      /\ i \notin s => F[s] = G[s]
           I == {n \in Nat : \E s \in SUBSET S : Cardinality(s) = n /\ ~Good(s)}
<1>5. \A s \in SUBSET S : Good(s)
  <2> SUFFICES ASSUME I # {} PROVE FALSE
    BY Smaller
  <2>1. PICK n \in I : \A j \in I : n <= j
    BY FirstOf
  <2>2. PICK s \in SUBSET S : Cardinality(s) = n /\ ~Good(s)
    BY <2>1
  <2>3. s # {}
    <3>1. ASSUME s = {} PROVE F[s] = 0 /\ G[s] = 0 /\ i \notin s
      BY <1>4, <3>1
    <3> QED BY <2>2, <3>1
  <2> DEFINE x == First(s)
             u == s \ {x}
  <2>4. x \in s /\ u \in SUBSET S /\ Cardinality(u) = n - 1 /\ n # 0
    BY <2>2, <2>3, Smaller
  <2>5. Good(u)
    <3>1. n - 1 \notin I
      BY <2>1, <2>4
    <3>2. n - 1 \in Nat
      BY <2>1, <2>4
    <3> QED BY <2>4, <3>1, <3>2
  <2>6. F[s] = f[x] + F[u] /\ G[s] = g[x] + G[u]
    BY <1>4, <2>3
  <2>7. x \in S /\ (i \in u <=> i \in s /\ i # x) /\ (x # i => f[x] = g[x])
    BY <2>4
  <2>8. f[x] \in Int /\ g[x] \in Int /\ f[i] \in Int /\ g[i] \in Int
    BY <2>7
  <2> HIDE DEF u, x
  <2>9. Good(s)
    BY <2>4, <2>5, <2>6, <2>7, <2>8
  <2> QED BY <2>2, <2>9
<1> QED BY <1>1, <1>2, <1>5

LEMMA SameRest ==
  ASSUME NEW F \in Int, NEW G \in Int, NEW x \in 0..255, NEW y \in 0..255,
         F - x = G - y, F % 256 = G % 256
  PROVE  x = y
<1>1. PICK a \in Int, b \in Int : F = 256 * a + (F % 256) /\ G = 256 * b + (G % 256)
  <2>1. F = 256 * (F \div 256) + (F % 256) /\ G = 256 * (G \div 256) + (G % 256)
    OBVIOUS
  <2>2. F \div 256 \in Int /\ G \div 256 \in Int
    OBVIOUS
  <2> QED BY <2>1, <2>2
<1>2. x - y = 256 * (a - b)
  <2> DEFINE r == F % 256
  <2>1. r \in Int
    OBVIOUS
  <2> HIDE DEF r
  <2>2. F = 256 * a + r /\ G = 256 * b + r
    BY <1>1 DEF r
  <2> QED BY <2>1, <2>2
<1> QED BY <1>2

(* Two packets of n bytes that agree but for byte i *)
OneByte(n, m, d, i) ==
  /\ n \in Nat /\ n >= 3 /\ m \in [1..n -> Byte] /\ d \in [1..n -> Byte]
  /\ i \in 1..n /\ \A j \in 1..n : j # i => m[j] = d[j]

(* The verification of a packet is a byte; it does not look at the command *)
(* and at itself, and it changes with any other byte                       *)
LEMMA VerifyMoves ==
  ASSUME NEW n, NEW m, NEW d, NEW i, OneByte(n, m, d, i), i # 1, i # n
  PROVE  /\ Verify(m) \in Byte /\ Verify(d) \in Byte
         /\ Verify(m) = Verify(d) => m = d
<1>0. /\ n \in Nat /\ n >= 3 /\ m \in [1..n -> Byte] /\ d \in [1..n -> Byte]
      /\ i \in 2..(n - 1) /\ \A j \in 1..n : j # i => m[j] = d[j]
  BY DEF OneByte
<1> DEFINE S == 1..(n - 2)
           f == [j \in S |-> m[j + 1]]
           g == [j \in S |-> d[j + 1]]
           F == SumFunctionOnSet(f, S)
           G == SumFunctionOnSet(g, S)
<1>1. m \in Seq(Byte) /\ Len(m) = n /\ d \in Seq(Byte) /\ Len(d) = n
  BY <1>0
<1>2. SubSeq(m, 2, n - 1) = f /\ SubSeq(d, 2, n - 1) = g
  BY <1>0
<1>3. Verify(m) = F % 256 /\ Verify(d) = G % 256
  <2>1. DOMAIN f = S /\ DOMAIN g = S
    OBVIOUS
  <2>2. Verify(m) = SumFunctionOnSet(f, DOMAIN f) % 256 /\ Verify(d) = SumFunctionOnSet(g, DOMAIN g) % 256
    BY <1>1, <1>2, Zenon DEF Verify, SumFunction
  <2> HIDE DEF f, g
  <2> QED BY <2>1, <2>2, Zenon
<1>4. /\ \A j \in S : j + 1 \in 1..n
      /\ \A j \in S : f[j] \in Int /\ g[j] \in Int
      /\ i - 1 \in S /\ f[i - 1] = m[i] /\ g[i - 1] = d[i]
      /\ \A j \in S : j # i - 1 => f[j] = g[j]
  <2>1. \A x \in Byte : x \in Int
    BY DEF Byte
  <2>2. \A j \in S : j + 1 \in 1..n
    BY <1>0
  <2>3. \A j \in S : f[j] \in Int /\ g[j] \in Int
    BY <1>0, <2>1, <2>2
  <2> QED BY <1>0, <2>2, <2>3
<1>5. IsFiniteSet(S)
  BY <1>0, FS_Interval
<1> HIDE DEF f, g, S
<1>6. F \in Int /\ G \in Int /\ F - m[i] = G - d[i]
  <2>1. F \in Int /\ G \in Int /\ F - f[i - 1] = G - g[i - 1]
    <3>1. \A j \in S : f[j] \in Int /\ g[j] \in Int
      BY <1>4
    <3>2. i - 1 \in S /\ \A j \in S : j # i - 1 => f[j] = g[j]
      BY <1>4
    <3> DEFINE k == i - 1
    <3>3. k \in S /\ \A j \in S : j # k => f[j] = g[j]
      BY <3>2
    <3> HIDE DEF k
    <3>4. /\ SumFunctionOnSet(f, S) \in Int /\ SumFunctionOnSet(g, S) \in Int
          /\ SumFunctionOnSet(f, S) - f[k] = SumFunctionOnSet(g, S) - g[k]
      BY <1>5, <3>1, <3>3, SumMoves
    <3> QED BY <3>4 DEF F, G, k
  <2> QED BY <1>4, <2>1
<1> HIDE DEF F, G
<1>7. m[i] \in 0..255 /\ d[i] \in 0..255
  BY <1>0 DEF Byte
<1>8. Verify(m) = Verify(d) => m[i] = d[i]
  BY <1>3, <1>6, <1>7, SameRest
<1>9. Verify(m) \in Byte /\ Verify(d) \in Byte
  BY <1>3, <1>6 DEF Byte
<1> QED BY <1>0, <1>8, <1>9

LEMMA VerifyType ==
  ASSUME NEW n \in Nat, n >= 3, NEW m \in [1..n -> Byte]
  PROVE  Verify(m) \in Byte
<1>1. OneByte(n, m, m, 2) /\ 2 # 1 /\ 2 # n
  BY DEF OneByte
<1> QED BY <1>1, VerifyMoves, Zenon

(* What a request is made of: its command, its type and its payload, in    *)
(* their places, and a verification that deserialize finds right           *)
LEMMA RequestShape ==
  ASSUME NEW c \in Byte, NEW t \in PacketType, NEW b \in PayloadOf(t),
         NEW m, m = Request(c, t, b)
  PROVE  /\ m \in [1..RequestSize(t) -> Byte] /\ Len(m) = RequestSize(t)
         /\ m[1] = c /\ m[2] = t
         /\ Payload(m, t) = b /\ Deserializes(m, t)
<1> DEFINE n == RequestPayloadSize(t)
           h == <<c, t, Len(b) + 3>>
           u == h \o b \o <<0>>
           v == Verify(u)
<1>1. n \in Nat /\ n >= 1 /\ n <= 24 /\ RequestSize(t) = n + 4
      /\ t \in Byte /\ c \in Byte /\ \A x \in Byte : x \in Int
  BY DEF RequestSize, RequestPayloadSize, PacketType, ConfigType, General, Basic, Pedal, Throttle, Byte
<1>2. m = [u EXCEPT ![Len(u)] = v]
  BY DEF Request
<1>3. b \in [1..n -> Byte]
  BY DEF PayloadOf
<1> HIDE DEF n, v
<1>4. b \in Seq(Byte) /\ Len(b) = n
  BY <1>1, <1>3
<1>5. h \in Seq(Byte) /\ Len(h) <= 3 /\ 3 <= Len(h) /\ h[1] = c /\ h[2] = t
  <2>1. Len(b) + 3 \in Byte
    BY <1>1, <1>4 DEF Byte
  <2> QED BY <1>1, <2>1
<1> HIDE DEF h
<1>6. /\ u \in Seq(Byte) /\ Len(u) = n + 4 /\ u[1] = c /\ u[2] = t
      /\ \A i \in 1..n : u[i + 3] = b[i]
  <2> DEFINE hb == h \o b
             z == <<0>>
  <2>1. /\ hb \in Seq(Byte) /\ Len(hb) = n + 3 /\ hb[1] = c /\ hb[2] = t
        /\ \A i \in 1..n : hb[i + 3] = b[i]
    <3>1. /\ hb \in Seq(Byte) /\ Len(hb) = Len(h) + Len(b)
          /\ \A i \in 1..Len(h) + Len(b) :
               hb[i] = IF i <= Len(h) THEN h[i] ELSE b[i - Len(h)]
      BY <1>4, <1>5, ConcatProperties, Zenon
    <3>2. Len(h) \in Nat
      BY <1>5, LenProperties
    <3> DEFINE k == Len(h)
               l == Len(b)
    <3>3. k \in Nat /\ k <= 3 /\ 3 <= k /\ l = n
      BY <1>4, <1>5, <3>2
    <3>4. /\ Len(hb) = k + l
          /\ \A i \in 1..k + l : hb[i] = IF i <= k THEN h[i] ELSE b[i - k]
      BY <3>1
    <3> HIDE DEF hb, k, l
    <3>5. k = 3
      BY <3>3
    <3>6. Len(hb) = n + 3
      BY <1>1, <3>3, <3>4, <3>5
    <3>7. hb[1] = h[1] /\ hb[2] = h[2]
      BY <1>1, <3>3, <3>4, <3>5
    <3>8. ASSUME NEW i \in 1..n PROVE hb[i + 3] = b[i]
      <4>1. i + 3 \in 1..k + l /\ ~(i + 3 <= k) /\ (i + 3) - k = i
        BY <1>1, <3>3, <3>5
      <4> QED BY <3>4, <4>1
    <3> QED BY <1>5, <3>1, <3>6, <3>7, <3>8
  <2>2. z \in Seq(Byte) /\ Len(z) <= 1 /\ 1 <= Len(z)
    BY DEF Byte
  <2> HIDE DEF hb, z
  <2>3. /\ hb \o z \in Seq(Byte) /\ Len(hb \o z) = n + 4
        /\ \A i \in 1..(n + 3) : (hb \o z)[i] = hb[i]
    <3>1. Len(z) \in Nat
      BY <2>2, LenProperties
    <3>2. /\ hb \o z \in Seq(Byte) /\ Len(hb \o z) = Len(hb) + Len(z)
          /\ \A i \in 1..Len(hb) + Len(z) :
               (hb \o z)[i] = IF i <= Len(hb) THEN hb[i] ELSE z[i - Len(hb)]
      BY <2>1, <2>2, ConcatProperties, Zenon
    <3> QED BY <1>1, <2>1, <2>2, <3>1, <3>2
  <2>4. /\ (hb \o z)[1] = c /\ (hb \o z)[2] = t
        /\ \A i \in 1..n : (hb \o z)[i + 3] = b[i]
    BY <1>1, <2>1, <2>3
  <2> QED BY <2>3, <2>4 DEF hb, z
<1> HIDE DEF u
<1>7. m \in [1..(n + 4) -> Byte] /\ \A i \in 1..(n + 3) : m[i] = u[i]
  <2>1. /\ u \in [1..(n + 4) -> Byte] /\ u \in [1..(n + 4) -> Int]
        /\ n + 4 \in Nat /\ n + 4 >= 3
    BY <1>1, <1>6
  <2>2. v \in Byte
    BY <2>1, VerifyType DEF v
  <2> QED BY <1>1, <1>2, <2>1, <2>2
<1>8. m \in Seq(Byte) /\ Len(m) = n + 4
  BY <1>1, <1>7
<1>9. Payload(m, t) = b
  <2>1. Payload(m, t) = SubSeq(m, 4, n + 3)
    BY <1>1 DEF Payload
  <2>2. SubSeq(m, 4, n + 3) = [i \in 1..n |-> m[i + 3]]
    BY <1>1, <1>8
  <2>3. \A i \in 1..n : m[i + 3] = b[i]
    BY <1>1, <1>6, <1>7
  <2> QED BY <1>3, <2>1, <2>2, <2>3
<1>10. Deserializes(m, t)
  <2>1. ~Truncated(m, t) /\ SubSeq(m, 1, RequestSize(t)) = m
    BY <1>1, <1>8 DEF Truncated
  <2>2. m[n + 4] = v
    BY <1>1, <1>2, <1>6
  <2>3. SubSeq(m, 2, n + 3) = SubSeq(u, 2, n + 3)
    <3>1. SubSeq(m, 2, n + 3) = [i \in 1..(n + 2) |-> m[i + 1]]
      BY <1>1, <1>8
    <3>2. SubSeq(u, 2, n + 3) = [i \in 1..(n + 2) |-> u[i + 1]]
      BY <1>1, <1>6
    <3>3. \A i \in 1..(n + 2) : i + 1 \in 1..(n + 3)
      BY <1>1
    <3> QED BY <1>7, <3>1, <3>2, <3>3
  <2>4. Len(m) - 1 = n + 3 /\ Len(u) - 1 = n + 3
    BY <1>1, <1>6, <1>8
  <2>5. Verify(m) = v
    BY <2>3, <2>4, Zenon DEF Verify, v
  <2> QED BY <1>1, <2>1, <2>2, <2>5 DEF Deserializes
<1> QED BY <1>1, <1>6, <1>7, <1>8, <1>9, <1>10

=============================================================================
