-------------------------------- MODULE Serial --------------------------------
(***************************************************************************)
(* class serial (serial.h, serial.cpp) with its callbacks (bind.h) and the *)
(* ports of the operating system: every operation that changes something,  *)
(* in any order, on objects that are made, moved, assigned and destroyed.  *)
(* SerialHandler uses one object per worker, and never moves it.           *)
(*                                                                         *)
(* A port is opened exclusively, so the handle of an open port is named by *)
(* the port. The bytes that arrive are numbered.                           *)
(***************************************************************************)
EXTENDS Integers, Sequences, FiniteSets

CONSTANTS Object,        \* the variables of class serial; each has a listener
          Port,          \* the ports of the machine
          None,          \* no handle, no port, no listener
          ReadMax,       \* how much one ReadFile returns at most: 8092
          MaxBytes,      \* bound: bytes that arrive in a behavior
          MaxConnects    \* bound: calls of connect in a behavior

ASSUME SerialAssumption ==
  /\ None \notin Object \union Port
  /\ ReadMax \in Nat \ {0} /\ MaxBytes \in Nat /\ MaxConnects \in Nat

VARIABLES life,          \* life[o]: "absent", "live" or, without impl_, "moved"
          impl,          \* impl[o]: what impl_ points to
          open,          \* the ports that are open
          wire,          \* wire[p]: bytes of an open port, not read yet
          arrived,       \* number of bytes that have arrived
          connects,      \* number of calls of connect
          believes       \* history: believes[l], the port of the last
                         \* "connected" that listener l was told; None if it
                         \* was told "disconnected" after it, or nothing yet

vars == <<life, impl, open, wire, arrived, connects, believes>>

(* A new impl. received and taken are history: the bytes that ReadFile      *)
(* returned, and those that have left the buffer                           *)
NewImpl == [handle |-> None, port |-> None, buffer |-> <<>>, listener |-> None,
            received |-> <<>>, taken |-> <<>>]

Init == /\ life = [o \in Object |-> "absent"]
        /\ impl = [o \in Object |-> NewImpl]
        /\ open = {}
        /\ wire = [p \in Port |-> <<>>]
        /\ arrived = 0 /\ connects = 0
        /\ believes = [l \in Object |-> None]

(* bind::operator bool and operator(): nobody is told when nothing is bound *)
Told(b, listener, port) ==
  [l \in Object |-> IF l = listener THEN port ELSE b[l]]

(* CloseHandle: what has not been read is lost *)
Closed(p) == /\ open' = open \ {p}
             /\ wire' = [q \in Port |-> IF q = p THEN <<>> ELSE wire[q]]

(* Mutant: the destructor only closes the handle *)
DestroyedSilently(i) == Closed(i.handle) /\ UNCHANGED believes

(* disconnect, which ~impl calls too: the handle is closed first, then     *)
(* "disconnected" is told; nothing of the sort without an open handle      *)
Destroyed(i) ==
  /\ Closed(i.handle)
  /\ believes' = IF i.handle = None THEN believes ELSE Told(believes, i.listener, None)

-----------------------------------------------------------------------------
Byte ==
  /\ arrived < MaxBytes
  /\ arrived' = arrived + 1
  /\ \E p \in open : wire' = [wire EXCEPT ![p] = Append(@, arrived')]
  /\ UNCHANGED <<life, impl, open, connects, believes>>

(* serial() *)
Construct(o) ==
  /\ life[o] = "absent"
  /\ life' = [life EXCEPT ![o] = "live"]
  /\ UNCHANGED <<impl, open, wire, arrived, connects, believes>>

(* event, for the three events, with members of a listener of its own, as  *)
(* the constructor of serial_handler does; a listener it had is replaced,  *)
(* and not told so                                                         *)
Event(o) ==
  /\ life[o] = "live"
  /\ \A q \in Object : life[q] = "live" => impl[q].listener # o
  /\ impl' = [impl EXCEPT ![o].listener = o]
  /\ UNCHANGED <<life, open, wire, arrived, connects, believes>>

(* Mutant: the handle that was open is forgotten *)
ConnectLeaks(o, p) ==
  LET i == impl[o]
  IN
  /\ life[o] = "live" /\ connects < MaxConnects
  /\ connects' = connects + 1
  /\ \/ /\ p \notin open
        /\ impl' = [impl EXCEPT ![o].port = p, ![o].handle = p]
        /\ believes' = Told(believes, i.listener, p)
        /\ open' = open \union {p}
     \/ /\ impl' = [impl EXCEPT ![o].port = p, ![o].handle = None]
        /\ UNCHANGED <<open, believes>>
  /\ UNCHANGED <<life, wire, arrived>>

(* connect closes the port it has, without telling, and opens p; that      *)
(* throws when p is open already, and whenever the system refuses it, and  *)
(* then nobody has been told anything. The buffer keeps what it has        *)
Connect(o, p) ==
  LET i == impl[o]
  IN
  /\ life[o] = "live" /\ connects < MaxConnects
  /\ connects' = connects + 1
  /\ wire' = [q \in Port |-> IF q = i.handle THEN <<>> ELSE wire[q]]
  /\ \/ /\ p \notin open \ {i.handle}
        /\ impl' = [impl EXCEPT ![o].port = p, ![o].handle = p]
        /\ believes' = Told(believes, i.listener, p)
        /\ open' = (open \ {i.handle}) \union {p}
     \/ /\ impl' = [impl EXCEPT ![o].port = p, ![o].handle = None]
        /\ open' = open \ {i.handle}
        /\ UNCHANGED believes
  /\ UNCHANGED <<life, arrived>>

Disconnect(o) ==
  /\ life[o] = "live" /\ impl[o].handle # None
  /\ impl' = [impl EXCEPT ![o].handle = None]
  /\ Destroyed(impl[o])
  /\ UNCHANGED <<life, arrived, connects>>

(* poll, as far as data_available; a ReadFile that fails or times out      *)
(* leaves everything as it is                                              *)
Poll(o) ==
  LET p == impl[o].handle
  IN
  /\ life[o] = "live" /\ p # None
  /\ \E n \in 1..Len(wire[p]) :
       /\ n <= ReadMax
       /\ impl' = [impl EXCEPT ![o].buffer = @ \o SubSeq(wire[p], 1, n),
                               ![o].received = @ \o SubSeq(wire[p], 1, n)]
       /\ wire' = [wire EXCEPT ![p] = SubSeq(@, n + 1, Len(@))]
  /\ UNCHANGED <<life, open, arrived, connects, believes>>

(* The first n bytes leave the buffer *)
Taken(o, n) ==
  /\ impl' = [impl EXCEPT ![o].buffer = SubSeq(@, n + 1, Len(@)),
                          ![o].taken  = @ \o SubSeq(impl[o].buffer, 1, n)]
  /\ UNCHANGED <<life, open, wire, arrived, connects, believes>>

(* flush(n) and flush_all: std::string::erase stops at the end *)
Flush(o) ==
  /\ life[o] = "live"
  /\ \E n \in 1..(MaxBytes + 1) :
       Taken(o, IF n < Len(impl[o].buffer) THEN n ELSE Len(impl[o].buffer))

(* Mutant: the buffer has lost its bytes when substr throws *)
ReadErases(o) ==
  /\ life[o] = "live"
  /\ \E n \in 1..(MaxBytes + 1) :
       \/ n <= Len(impl[o].buffer) /\ Taken(o, n)
       \/ /\ n > Len(impl[o].buffer)
          /\ impl' = [impl EXCEPT ![o].buffer = <<>>]
          /\ UNCHANGED <<life, open, wire, arrived, connects, believes>>

(* read(n) and read_all: substr throws when n is beyond the end, and then  *)
(* nothing has been taken                                                  *)
Read(o) ==
  /\ life[o] = "live"
  /\ \E n \in 1..(MaxBytes + 1) :
       \/ n <= Len(impl[o].buffer) /\ Taken(o, n)
       \/ n > Len(impl[o].buffer) /\ UNCHANGED vars

(* Mutant: the object moved from keeps its pointer *)
MoveCopies(o, q) ==
  /\ life[o] # "absent" /\ life[q] = "absent"
  /\ life' = [life EXCEPT ![q] = life[o], ![o] = "moved"]
  /\ impl' = [impl EXCEPT ![q] = impl[o]]
  /\ UNCHANGED <<open, wire, arrived, connects, believes>>

(* serial(serial&&): q takes the impl of o *)
Move(o, q) ==
  /\ life[o] # "absent" /\ life[q] = "absent"
  /\ life' = [life EXCEPT ![q] = life[o], ![o] = "moved"]
  /\ impl' = [impl EXCEPT ![q] = impl[o], ![o] = NewImpl]
  /\ UNCHANGED <<open, wire, arrived, connects, believes>>

(* operator=(serial&&): q takes the impl of o, and the one it had is       *)
(* destroyed after that                                                    *)
Assign(o, q) ==
  /\ o # q /\ life[o] # "absent" /\ life[q] # "absent"
  /\ life' = [life EXCEPT ![q] = life[o], ![o] = "moved"]
  /\ impl' = [impl EXCEPT ![q] = impl[o], ![o] = NewImpl]
  /\ Destroyed(impl[q])
  /\ UNCHANGED <<arrived, connects>>

(* ~serial *)
Destroy(o) ==
  /\ life[o] # "absent"
  /\ life' = [life EXCEPT ![o] = "absent"]
  /\ impl' = [impl EXCEPT ![o] = NewImpl]
  /\ Destroyed(impl[o])
  /\ UNCHANGED <<arrived, connects>>

(* Every operation of an object without impl_ throws "no state" *)
NoState(o) == life[o] = "moved" /\ UNCHANGED vars

Next == \/ Byte
        \/ \E o \in Object :
             \/ Construct(o) \/ Event(o) \/ Disconnect(o) \/ Poll(o)
             \/ Flush(o) \/ Read(o) \/ Destroy(o) \/ NoState(o)
             \/ \E p \in Port : Connect(o, p)
             \/ \E q \in Object : Move(o, q) \/ Assign(o, q)

Spec == Init /\ [][Next]_vars

-----------------------------------------------------------------------------
Impl == [handle : Port \union {None}, port : Port \union {None}, buffer : Seq(Nat),
         listener : Object \union {None}, received : Seq(Nat), taken : Seq(Nat)]

TypeOK ==
  /\ life \in [Object -> {"absent", "live", "moved"}]
  /\ impl \in [Object -> Impl]
  /\ \A o \in Object : life[o] # "live" => impl[o] = NewImpl
  /\ open \subseteq Port
  /\ wire \in [Port -> Seq(Nat)]
  /\ arrived \in 0..MaxBytes /\ connects \in 0..MaxConnects
  /\ believes \in [Object -> Port \union {None}]

Handles(o) == {impl[o].handle} \ {None}

(* Every open port belongs to exactly one object, which can close it; no   *)
(* object has the handle of a port that is closed or another's. connect,   *)
(* which fails or not, disconnect, moves and destructors leak no port and  *)
(* close none twice                                                        *)
PortsAreOwned ==
  /\ open = UNION {Handles(o) : o \in Object}
  /\ \A o, q \in Object : o # q => Handles(o) \intersect Handles(q) = {}

(* No byte is lost, doubled or out of order between ReadFile and the       *)
(* reader, whatever is read, flushed, read in vain or moved; bytes of an   *)
(* earlier connection stay in front of those of the next one               *)
StreamIsKept ==
  \A o \in Object : /\ impl[o].taken \o impl[o].buffer = impl[o].received
                    /\ \A i, j \in DOMAIN impl[o].received :
                         i < j => impl[o].received[i] < impl[o].received[j]

(* What listener l was told last is so: a port that it takes for connected *)
(* is open, and its own                                                    *)
Informed(l) == believes[l] # None =>
  \E o \in Object : impl[o].listener = l /\ impl[o].handle = believes[l]

(* The two steps of an object that tell its listener nothing: it gets      *)
(* another one, or a connect over an open port throws                      *)
Untold(o) == \/ Event(o)
             \/ \E p \in Port : Connect(o, p) /\ impl'[o].handle = None

(* disconnect, connect to another port, moves, destructors and assignments *)
(* over an open port leave no listener with a port that is closed or not   *)
(* its own: only a listener that is replaced, and one whose object fails   *)
(* to connect anew, believes what is not so any more                       *)
BeliefsStayTrue ==
  [][\A l \in Object : Informed(l) /\ ~Informed(l)' =>
       \E o \in Object : impl[o].listener = l /\ impl[o].handle = believes[l] /\ Untold(o)]_vars

=============================================================================
