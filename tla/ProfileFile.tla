----------------------------- MODULE ProfileFile -----------------------------
(***************************************************************************)
(* class profile (profile.h, profile.cpp) and the text of its files: what  *)
(* the constructor makes of the lines of a file, what save_as makes of a   *)
(* profile, line by line, and what is left when it is cut short. Profile,  *)
(* which all other modules use, has settings where this module has lines.  *)
(*                                                                         *)
(* A file is NoFile or Holding(lines). A line is a section, a setting (a   *)
(* key, the first '=', a text), empty, or anything else. A text is a       *)
(* sequence of digits and of other characters, which are all the same.     *)
(***************************************************************************)
EXTENDS Profile, SequencesExt

CONSTANTS Path,          \* the file names
          Order,         \* the names of settings, <<section, key>>, in the
                         \* order of the two levels of std::map
          Number,        \* the values that are added
          HandEdited,    \* the files that a user may put in place
          MaxCalls       \* bound: calls of add, find and save_as in a behavior

Digit  == 0..9
Letter == 10             \* a character that is no digit, no blank and no sign

(* std::to_string of a byte *)
ToText(n) == IF n < 10  THEN <<n>>
             ELSE IF n < 100 THEN <<n \div 10, n % 10>>
             ELSE <<n \div 100, (n \div 10) % 10, n % 10>>

(* operator>>: the number at the beginning, 0 if there is none. Texts have *)
(* none of the blanks and signs that it takes in front of the digits       *)
ReadChar(acc, c) == IF acc.reading /\ c \in Digit
                    THEN [n |-> 10 * acc.n + c, reading |-> TRUE]
                    ELSE [n |-> acc.n, reading |-> FALSE]

NoneRead        == [n |-> 0, reading |-> TRUE]
ReadChars(text) == FoldLeft(ReadChar, NoneRead, text)
ToInt(text)     == ReadChars(text).n

(* The texts of settings hold a number of at most nine digits, or none. A  *)
(* number that is too large for its type is not modelled                   *)
Billion == 1000 * 1000 * 1000
Text    == {text \in Seq(Digit \union {Letter}) : ToInt(text) < Billion}

Section(s)       == <<"section", s>>
Setting(k, text) == <<"setting", k, text>>
Empty            == <<"empty">>
Malformed        == <<"malformed">>

NoName      == ""
Name        == Range(Order)
SectionName == {name[1] : name \in Name}
KeyName     == {name[2] : name \in Name}

IsLine(line) ==
  \/ line \in {Empty, Malformed}
  \/ line[1] = "section" /\ \E s \in SectionName \union {NoName} : line = Section(s)
  \/ /\ line[1] = "setting" /\ line[3] \in Text
     /\ \E k \in KeyName \union {NoName} : line = Setting(k, line[3])

ASSUME ProfileFileAssumption ==
  /\ Order \in Seq(Name) /\ Name = SectionName \X KeyName
  /\ \A i, j \in DOMAIN Order : Order[i] = Order[j] => i = j
  /\ NoName \notin SectionName \union KeyName
  /\ \A file \in HandEdited :
       \E lines \in file : file = Holding(lines) /\ lines \in Seq(Range(lines))
                           /\ \A i \in DOMAIN lines : IsLine(lines[i])
  /\ Number \subseteq 0..255 /\ MaxCalls \in Nat

VARIABLES disk,          \* disk[p]: the file under this name
          phase,         \* "ended", "ready" or, in save_as, "saving"
          profile,       \* the members exists_ and data_
          filename,      \* the member filename_
          todo,          \* in save_as: the positions in Order of the settings
                         \* that it has still to write
          head,          \* in save_as: the section it has written last
          calls,         \* number of calls of add, find and save_as
          meant,         \* history: the numbers the profile should hold
          left           \* history: left[p], what the last save under p was to
                         \* leave, and how far it came; "edited" for none

vars == <<disk, phase, profile, filename, todo, head, calls, meant, left>>

(* A map with one key *)
Entry(k, value) == [key \in {k} |-> value]

Numbers(d) == [k \in DOMAIN d |-> ToInt(d[k])]

(* Mutant: a key without a value is a setting *)
ReadLineWithoutValue(acc, line) ==
  IF ~acc.ok \/ line = Empty THEN acc
  ELSE IF line[1] = "section" THEN [acc EXCEPT !.section = line[2]]
  ELSE IF line # Malformed /\ acc.section # NoName /\ line[2] # NoName
  THEN [acc EXCEPT !.data = Merge(@, Entry(<<acc.section, line[2]>>, line[3]))]
  ELSE [acc EXCEPT !.ok = FALSE]

(* One round of the constructor's loop; ~ok once it has thrown *)
ReadLine(acc, line) ==
  IF ~acc.ok \/ line = Empty THEN acc
  ELSE IF line[1] = "section" THEN [acc EXCEPT !.section = line[2]]
  ELSE IF line # Malformed /\ acc.section # NoName /\ line[2] # NoName /\ line[3] # <<>>
  THEN [acc EXCEPT !.data = Merge(@, Entry(<<acc.section, line[2]>>, line[3]))]
  ELSE [acc EXCEPT !.ok = FALSE]

NothingRead      == [section |-> NoName, data |-> NoData, ok |-> TRUE]
ReadLines(lines) == FoldLeft(ReadLine, NothingRead, lines)
Reads(file)      == ReadLines(CHOOSE lines \in file : TRUE)

(* The loops of save_as: the section, and its settings one by one *)
ToWrite(d) == {i \in DOMAIN Order : Order[i] \in DOMAIN d}

NextName == Order[Min(todo)]
NextLine == IF head # NextName[1] THEN Section(NextName[1])
            ELSE Setting(NextName[2], profile.data[NextName])

(* What can be on the disk of a line that did not get there as a whole *)
Torn(line) ==
  {Malformed} \union
  IF line[1] = "setting"
  THEN {Setting(line[2], SubSeq(line[3], 1, n)) : n \in 0..(Len(line[3]) - 1)}
  ELSE {}

-----------------------------------------------------------------------------
Ended == [exists |-> FALSE, data |-> NoData]

Init == /\ disk \in [Path -> {NoFile} \union HandEdited]
        /\ phase = "ended" /\ profile = Ended /\ filename \in Path
        /\ todo = {} /\ head = NoName /\ calls = 0
        /\ meant = NoData
        /\ left = [p \in Path |-> [how |-> "edited", numbers |-> NoData]]

(* The constructor. A file that is there may still fail to open, and is    *)
(* then taken for none; a malformed file throws, and nothing starts        *)
Construct(p) ==
  /\ phase = "ended"
  /\ \/ profile' = Load(NoFile)
     \/ /\ disk[p] # NoFile /\ Reads(disk[p]).ok
        /\ profile' = Load(Holding(Reads(disk[p]).data))
  /\ meant' = IF profile'.exists /\ left[p].how = "whole" THEN left[p].numbers
              ELSE Numbers(profile'.data)
  /\ phase' = "ready" /\ filename' = p
  /\ UNCHANGED <<disk, todo, head, calls, left>>

(* Mutant: std::map::insert, which leaves a key that is there as it is *)
AddInserts(k, n) ==
  /\ phase = "ready" /\ calls < MaxCalls
  /\ calls'   = calls + 1
  /\ profile' = [profile EXCEPT !.data = Merge(Entry(k, ToText(n)), @)]
  /\ meant'   = Merge(meant, Entry(k, n))
  /\ UNCHANGED <<disk, phase, filename, todo, head, left>>

Add(k, n) ==
  /\ phase = "ready" /\ calls < MaxCalls
  /\ calls'   = calls + 1
  /\ profile' = AddAll(profile, Entry(k, ToText(n)))
  /\ meant'   = Merge(meant, Entry(k, n))
  /\ UNCHANGED <<disk, phase, filename, todo, head, left>>

(* The find that is not const, with a default n *)
Look(k, n) ==
  /\ phase = "ready" /\ calls < MaxCalls
  /\ calls'   = calls + 1
  /\ profile' = FindAll(profile, Entry(k, ToText(n)))
  /\ meant'   = IF profile.exists THEN meant ELSE Merge(Entry(k, n), meant)
  /\ UNCHANGED <<disk, phase, filename, todo, head, left>>

(* Mutant: the file is opened for appending *)
OpenAppends(p) ==
  /\ phase = "ready" /\ calls < MaxCalls
  /\ disk'     = [disk EXCEPT ![p] = IF @ = NoFile THEN Holding(<<>>) ELSE @]
  /\ profile'  = [profile EXCEPT !.exists = TRUE]
  /\ filename' = p
  /\ todo'     = ToWrite(profile.data)
  /\ phase'    = "saving"
  /\ calls'    = calls + 1
  /\ left'     = [left EXCEPT ![p] = [how |-> "cut", numbers |-> meant]]
  /\ UNCHANGED <<head, meant>>

(* save_as(p): the ofstream empties the file; save is save_as(filename_) *)
Open(p) ==
  /\ phase = "ready" /\ calls < MaxCalls
  /\ disk'     = [disk EXCEPT ![p] = Holding(<<>>)]
  /\ profile'  = [profile EXCEPT !.exists = TRUE]
  /\ filename' = p
  /\ todo'     = ToWrite(profile.data)
  /\ phase'    = "saving"
  /\ calls'    = calls + 1
  /\ left'     = [left EXCEPT ![p] = [how |-> "cut", numbers |-> meant]]
  /\ UNCHANGED <<head, meant>>

(* Mutant: filename_ is assigned before the file is open *)
OpenFailsRenamed(p) ==
  /\ phase = "ready"
  /\ filename' = p
  /\ UNCHANGED <<disk, phase, profile, todo, head, calls, meant, left>>

(* save_as(p) throws, and its caller goes on *)
OpenFails(p) == phase = "ready" /\ UNCHANGED vars

Written(line) == disk' = [disk EXCEPT ![filename] = {Append(lines, line) : lines \in @}]

(* operator<< and endl *)
WriteLine ==
  /\ phase = "saving" /\ todo # {}
  /\ Written(NextLine)
  /\ IF head # NextName[1]
     THEN head' = NextName[1] /\ UNCHANGED todo
     ELSE todo' = todo \ {Min(todo)} /\ UNCHANGED head
  /\ UNCHANGED <<phase, profile, filename, calls, meant, left>>

Saved ==
  /\ phase = "saving" /\ todo = {}
  /\ phase' = "ready" /\ head' = NoName
  /\ left'  = [left EXCEPT ![filename].how = "whole"]
  /\ UNCHANGED <<disk, profile, filename, todo, calls, meant>>

(* No more than a part gets to the disk of the line that save_as is at, or *)
(* nothing                                                                 *)
LineIsCut ==
  \/ UNCHANGED <<disk, left>>
  \/ /\ todo # {}
     /\ \E line \in Torn(NextLine) : Written(line)
     /\ left' = [left EXCEPT ![filename].how = "torn"]

(* The disk is full before the last line is written: the stream takes no   *)
(* more, and nobody looks at it                                            *)
DiskFull ==
  /\ phase = "saving" /\ todo # {}
  /\ LineIsCut
  /\ todo'  = {} /\ head' = NoName
  /\ phase' = "ready"
  /\ UNCHANGED <<profile, filename, calls, meant>>

(* The process is killed, with whole lines written, or the power fails,    *)
(* with the last line written in part                                      *)
Kill ==
  /\ phase # "ended"
  /\ LineIsCut
  /\ phase' = "ended" /\ profile' = Ended /\ todo' = {} /\ head' = NoName /\ meant' = NoData
  /\ UNCHANGED <<filename, calls>>

Next == \/ WriteLine \/ Saved \/ DiskFull \/ Kill
        \/ \E p \in Path : Construct(p) \/ Open(p) \/ OpenFails(p)
        \/ \E k \in Name, n \in Number : Add(k, n) \/ Look(k, n)

Spec == Init /\ [][Next]_vars

-----------------------------------------------------------------------------
TypeOK ==
  /\ \A p \in Path : disk[p] = NoFile \/ \E lines \in disk[p] : disk[p] = Holding(lines)
  /\ phase \in {"ended", "ready", "saving"}
  /\ profile.exists \in BOOLEAN
  /\ DOMAIN profile.data \subseteq Name
  /\ \A k \in DOMAIN profile.data : profile.data[k] \in Text \ {<<>>}
  /\ filename \in Path
  /\ calls \in 0..MaxCalls
  /\ \A p \in Path : left[p].how \in {"edited", "cut", "torn", "whole"}

(* The numbers that were added or found are the numbers that the profile   *)
(* gives back, through std::to_string, a file, another process that reads  *)
(* the file, and operator>>                                                *)
NumbersSurvive == phase # "ended" => Numbers(profile.data) = meant

(* Between two lines, while save_as runs, after a kill or on a disk that   *)
(* is full, the file is one the constructor accepts, and holds the first   *)
(* settings of the profile; after save_as it holds all of them. This is    *)
(* what Profile's Cuts and SerialHandler's Save take for granted           *)
SavesAreCuts ==
  \A p \in Path :
    LET r == Reads(disk[p])
    IN  /\ left[p].how \in {"cut", "whole"} => r.ok
        /\ left[p].how = "cut"   => Numbers(r.data) \in Cuts(left[p].numbers, Order)
        /\ left[p].how = "whole" => Numbers(r.data) = left[p].numbers

(* n without its last digits *)
Power        == {a * b : a \in {1, 10, 100}, b \in {1, 1000, 1000 * 1000}} \union {Billion}
Shortened(n) == {n \div power : power \in Power}

(* d are the first ones of numbers, the last one of them possibly without  *)
(* its last digits                                                         *)
WithoutTail(d, numbers) ==
  \E c \in Cuts(numbers, Order) :
    /\ DOMAIN d = DOMAIN c
    /\ \A i \in DOMAIN Order : Order[i] \in DOMAIN c =>
         \/ d[Order[i]] = c[Order[i]]
         \/ /\ d[Order[i]] \in Shortened(c[Order[i]])
            /\ \A j \in (i + 1)..Len(Order) : Order[j] \notin DOMAIN c

(* A file that ends in the middle of a line is refused, or it holds the    *)
(* first settings of the profile, only the last one of them possibly       *)
(* without its last digits. This is what PacketBuilder's TornFiles takes   *)
(* for granted                                                             *)
TornFilesLoseTheirTail ==
  \A p \in Path : left[p].how = "torn" /\ Reads(disk[p]).ok
                   => WithoutTail(Numbers(Reads(disk[p]).data), left[p].numbers)

(* profile.h: exists() "returns true if profile exists on disk" - under    *)
(* the name that the profile has by now, whatever save_as was given and    *)
(* whether or not it succeeded                                             *)
ExistsMeansOnDisk == (phase # "ended" /\ profile.exists) => disk[filename] # NoFile

=============================================================================
