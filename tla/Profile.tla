------------------------------- MODULE Profile -------------------------------
(***************************************************************************)
(* class profile (profile.h, profile.cpp): an ini file held in memory.     *)
(*                                                                         *)
(* A profile is a record [exists, data]; data maps keys <<section, name>>  *)
(* to values, a section being named by the packet type it belongs to.      *)
(* Values are integers: every number is stored with std::to_string and     *)
(* read back with operator>>, which returns the same integer, and a four   *)
(* letter word is carried as its four character code.                      *)
(*                                                                         *)
(* A file on disk is the set of the contents found under its name: NoFile, *)
(* {d} for a file whose lines spell the data d, or Garbled.                *)
(***************************************************************************)
EXTENDS Integers, Sequences, Functions

(* Stands for a line that is no section, no key=value and not empty. The   *)
(* constructor throws on such a line: no profile in memory has one         *)
BadLine == <<>>

IsData(d) ==
  /\ d = [k \in DOMAIN d |-> d[k]]
  /\ \A k \in DOMAIN d : k # BadLine /\ d[k] \in Int

NoData == [k \in {} |-> 0]

NoFile     == {}
Holding(d) == {d}

(* A file with such a line; what else is in it is lost all the same *)
Garbled == Holding([k \in {BadLine} |-> 0])

IsFile(file) == \/ file \in {NoFile, Garbled}
                \/ \E d \in file : file = Holding(d) /\ IsData(d)

(* The constructor gets to the end of the file, or does not find it *)
Readable(file) == file # Garbled

IsProfile(p) ==
  /\ p = [exists |-> p.exists, data |-> p.data]
  /\ p.exists \in BOOLEAN
  /\ IsData(p.data)

(* Mutant: exists_ is set whether or not the file could be opened *)
LoadAsExisting(file) ==
  [exists |-> TRUE, data |-> IF file = NoFile THEN NoData ELSE CHOOSE d \in file : TRUE]

(* The constructor, which does not throw: a profile whose file cannot be   *)
(* opened is empty and not an error                                        *)
Load(file) == IF file = NoFile
              THEN [exists |-> FALSE, data |-> NoData]
              ELSE [exists |-> TRUE,  data |-> CHOOSE d \in file : TRUE]

(* Later settings replace or extend earlier ones *)
Merge(old, new) == [k \in DOMAIN old \union DOMAIN new |->
                      IF k \in DOMAIN new THEN new[k] ELSE old[k]]

(* Mutant: the copy starts empty *)
AddAllToNothing(p, settings) == [p EXCEPT !.data = settings]

(* profile::add, once for every key of settings *)
AddAll(p, settings) == [p EXCEPT !.data = Merge(@, settings)]

(* Mutant: a missing value is zero *)
FindOrZero(p, k, default) == IF k \in DOMAIN p.data THEN p.data[k] ELSE 0

(* profile::find: the value it returns ... *)
Find(p, k, default) == IF k \in DOMAIN p.data THEN p.data[k] ELSE default

(* Mutants: defaults are added to a profile that is on disk, too; defaults *)
(* are added whether or not the key is missing                             *)
FindAllAdding(p, defaults) == [p EXCEPT !.data = Merge(defaults, @)]
FindAllOverwriting(p, defaults) == IF p.exists THEN p
                                   ELSE [p EXCEPT !.data = Merge(@, defaults)]

(* ... and what it leaves behind, once for every key of defaults: as long  *)
(* as the profile is not on disk a missing key is added                    *)
FindAll(p, defaults) == IF p.exists THEN p
                        ELSE [p EXCEPT !.data = Merge(defaults, @)]

(* profile::save_as writes a line per key in the order of the std::map and *)
(* flushes each one, so that a process that ends in the middle of it       *)
(* leaves a prefix of the lines. order lists the keys that can occur in    *)
(* map order                                                               *)
Cuts(d, order) ==
  {Restrict(d, DOMAIN d \intersect Range(SubSeq(order, 1, n))) : n \in 0..Len(order)}

=============================================================================
