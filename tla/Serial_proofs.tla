---------------------------- MODULE Serial_proofs ----------------------------
(***************************************************************************)
(* What Serial guarantees for every number of objects and ports, every     *)
(* size of reads and any sequence of operations                            *)
(***************************************************************************)
EXTENDS Serial, SequenceTheorems, TLAPS

(* PortsAreOwned, port by port *)
Owned ==
  /\ \A p \in Port : p \in open <=> \E o \in Object : impl[o].handle = p
  /\ \A o, q \in Object : (impl[o].handle = impl[q].handle /\ impl[o].handle # None) => o = q

IInv == TypeOK /\ Owned

USE SerialAssumption

-----------------------------------------------------------------------------
LEMMA OwnedIsPortsAreOwned == TypeOK => (Owned <=> PortsAreOwned)
<1> SUFFICES ASSUME TypeOK PROVE Owned <=> PortsAreOwned
  OBVIOUS
<1>1. \A o \in Object : impl[o].handle \in Port \union {None}
  BY DEF TypeOK, Impl
<1>2. \A o \in Object, p \in Port : p \in Handles(o) <=> impl[o].handle = p
  BY <1>1 DEF Handles
<1>3. \A o \in Object : Handles(o) \subseteq Port
  BY <1>1 DEF Handles
<1>4. (open = UNION {Handles(o) : o \in Object}) <=>
      \A p \in Port : p \in open <=> \E o \in Object : impl[o].handle = p
  BY <1>2, <1>3 DEF TypeOK
<1>5. (\A o, q \in Object : o # q => Handles(o) \intersect Handles(q) = {}) <=>
      \A o, q \in Object : (impl[o].handle = impl[q].handle /\ impl[o].handle # None) => o = q
  BY <1>1 DEF Handles
<1> QED BY <1>4, <1>5 DEF Owned, PortsAreOwned

LEMMA NewImplType == NewImpl \in Impl
  BY DEF NewImpl, Impl

(* CloseHandle keeps the types of the ports *)
LEMMA ClosedType ==
  ASSUME TypeOK, NEW p \in Port \union {None}, Closed(p)
  PROVE  open' \subseteq Port /\ wire' \in [Port -> Seq(Nat)] /\ open' = open \ {p}
  BY DEF TypeOK, Closed

LEMMA ToldType ==
  ASSUME TypeOK, NEW l \in Object \union {None}, NEW p \in Port \union {None}
  PROVE  Told(believes, l, p) \in [Object -> Port \union {None}]
  BY DEF TypeOK, Told

LEMMA DestroyedType ==
  ASSUME TypeOK, NEW i \in Impl, Destroyed(i)
  PROVE  /\ open' \subseteq Port /\ wire' \in [Port -> Seq(Nat)]
         /\ believes' \in [Object -> Port \union {None}]
         /\ open' = open \ {i.handle}
<1>1. i.handle \in Port \union {None} /\ i.listener \in Object \union {None} /\ Closed(i.handle)
  BY DEF Impl, Destroyed
<1> QED BY <1>1, ClosedType, ToldType DEF Destroyed, TypeOK

LEMMA InitInv == Init => IInv
<1> SUFFICES ASSUME Init PROVE IInv
  OBVIOUS
<1>1. TypeOK
  BY NewImplType DEF Init, TypeOK
<1>2. Owned
  BY DEF Init, Owned, NewImpl
<1> QED BY <1>1, <1>2 DEF IInv

-----------------------------------------------------------------------------
(* One lemma per action, or per group of actions that do the same to the   *)
(* handles                                                                 *)

LEMMA ByteInv == IInv /\ Byte => IInv'
<1> SUFFICES ASSUME IInv, Byte PROVE IInv'
  OBVIOUS
<1> USE DEF IInv
<1>1. arrived' \in 0..MaxBytes /\ arrived' \in Nat
  BY DEF Byte, TypeOK
<1>2. wire' \in [Port -> Seq(Nat)]
  <2>1. PICK p \in open : wire' = [wire EXCEPT ![p] = Append(@, arrived')]
    BY DEF Byte
  <2>2. p \in Port /\ wire[p] \in Seq(Nat)
    BY DEF TypeOK
  <2>3. Append(wire[p], arrived') \in Seq(Nat)
    BY <1>1, <2>2
  <2> QED BY <2>1, <2>2, <2>3 DEF TypeOK
<1>3. TypeOK'
  BY <1>1, <1>2 DEF Byte, TypeOK
<1>4. Owned'
  BY DEF Byte, Owned
<1> QED BY <1>3, <1>4

LEMMA ConstructInv == ASSUME NEW o \in Object PROVE IInv /\ Construct(o) => IInv'
<1> SUFFICES ASSUME IInv, Construct(o) PROVE IInv'
  OBVIOUS
<1>1. TypeOK'
  BY DEF IInv, Construct, TypeOK
<1>2. Owned'
  BY DEF IInv, Construct, Owned
<1> QED BY <1>1, <1>2 DEF IInv

LEMMA EventInv == ASSUME NEW o \in Object PROVE IInv /\ Event(o) => IInv'
<1> SUFFICES ASSUME IInv, Event(o) PROVE IInv'
  OBVIOUS
<1>1. impl \in [Object -> Impl] /\ impl[o] \in Impl
  BY DEF IInv, TypeOK
<1>2. impl' \in [Object -> Impl] /\ \A q \in Object : impl'[q].handle = impl[q].handle
  BY <1>1 DEF Event, Impl
<1>3. believes' \in [Object -> Port \union {None}]
  BY DEF IInv, TypeOK, Event
<1>4. TypeOK'
  BY <1>2, <1>3 DEF IInv, Event, TypeOK
<1>5. Owned'
  BY <1>2 DEF IInv, Event, Owned
<1> QED BY <1>4, <1>5 DEF IInv

LEMMA ConnectInv ==
  ASSUME NEW o \in Object, NEW p \in Port PROVE IInv /\ Connect(o, p) => IInv'
<1> SUFFICES ASSUME IInv, Connect(o, p) PROVE IInv'
  OBVIOUS
<1> DEFINE h == impl[o].handle
<1>1. impl \in [Object -> Impl] /\ impl[o] \in Impl /\ h \in Port \union {None}
  BY DEF IInv, TypeOK, Impl
<1>2. wire' \in [Port -> Seq(Nat)] /\ life' = life /\ life[o] = "live"
  BY DEF IInv, TypeOK, Connect
<1>3. connects' \in 0..MaxConnects /\ arrived' = arrived
  BY DEF IInv, TypeOK, Connect
<1>4. CASE /\ p \notin open \ {h}
           /\ impl' = [impl EXCEPT ![o].port = p, ![o].handle = p]
           /\ believes' = Told(believes, impl[o].listener, p)
           /\ open' = (open \ {h}) \union {p}
  <2>1. impl' \in [Object -> Impl] /\ impl'[o].handle = p
    BY <1>1, <1>4 DEF Impl
  <2>2. \A q \in Object \ {o} : impl'[q] = impl[q]
    BY <1>1, <1>4
  <2>3. believes' \in [Object -> Port \union {None}]
    BY <1>1, <1>4, ToldType DEF IInv, Impl
  <2>4. TypeOK'
    BY <1>2, <1>3, <1>4, <2>1, <2>2, <2>3 DEF IInv, TypeOK
  <2>5. \A q \in Object \ {o} : impl[q].handle # p
    BY <1>4 DEF IInv, Owned
  <2>6. Owned'
    BY <1>1, <1>4, <2>1, <2>2, <2>5 DEF IInv, Owned
  <2> QED BY <2>4, <2>6 DEF IInv
<1>5. CASE /\ impl' = [impl EXCEPT ![o].port = p, ![o].handle = None]
           /\ open' = open \ {h}
           /\ UNCHANGED believes
  <2>1. impl' \in [Object -> Impl] /\ impl'[o].handle = None
    BY <1>1, <1>5 DEF Impl
  <2>2. \A q \in Object \ {o} : impl'[q] = impl[q]
    BY <1>1, <1>5
  <2>3. believes' \in [Object -> Port \union {None}]
    BY <1>5 DEF IInv, TypeOK
  <2>4. TypeOK'
    BY <1>2, <1>3, <1>5, <2>1, <2>2, <2>3 DEF IInv, TypeOK
  <2>6. Owned'
    BY <1>1, <1>5, <2>1, <2>2 DEF IInv, Owned
  <2> QED BY <2>4, <2>6 DEF IInv
<1> QED BY <1>4, <1>5 DEF Connect

(* An object that closes its port gives up one handle and one open port *)
LEMMA OwnedWithout ==
  ASSUME TypeOK, Owned, NEW o \in Object,
         impl'[o].handle = None,
         \A r \in Object \ {o} : impl'[r].handle = impl[r].handle,
         open' = open \ {impl[o].handle}
  PROVE  Owned'
<1>1. None \notin Port
  OBVIOUS
<1>2. \A r \in Object : impl[r].handle = impl[o].handle /\ impl[o].handle # None => r = o
  BY DEF Owned
<1>3. ASSUME NEW p \in Port PROVE p \in open' <=> \E r \in Object : impl'[r].handle = p
  BY <1>1, <1>2, <1>3 DEF Owned
<1>4. ASSUME NEW r \in Object, NEW q \in Object, impl'[r].handle = impl'[q].handle, impl'[r].handle # None
      PROVE  r = q
  BY <1>4 DEF Owned
<1> QED BY <1>3, <1>4 DEF Owned

(* A handle goes from o to q, which has given up its own, if it had one *)
LEMMA OwnedElsewhere ==
  ASSUME TypeOK, Owned, NEW o \in Object, NEW q \in Object, o # q,
         impl'[o].handle = None, impl'[q].handle = impl[o].handle,
         \A r \in Object \ {o, q} : impl'[r].handle = impl[r].handle,
         open' = open \ {impl[q].handle}
  PROVE  Owned'
<1>1. None \notin Port
  OBVIOUS
<1>2. \A r \in Object : impl[r].handle = impl[q].handle /\ impl[q].handle # None => r = q
  BY DEF Owned
<1>3. ASSUME NEW p \in Port PROVE p \in open' <=> \E r \in Object : impl'[r].handle = p
  <2>1. CASE p = impl[q].handle
    BY <1>1, <1>2, <2>1
  <2>2. CASE p # impl[q].handle
    BY <1>1, <2>2 DEF Owned
  <2> QED BY <2>1, <2>2
<1>4. ASSUME NEW r \in Object, NEW t \in Object, impl'[r].handle = impl'[t].handle, impl'[r].handle # None
      PROVE  r = t
  BY <1>4 DEF Owned
<1> QED BY <1>3, <1>4 DEF Owned

LEMMA DisconnectInv == ASSUME NEW o \in Object PROVE IInv /\ Disconnect(o) => IInv'
<1> SUFFICES ASSUME IInv, Disconnect(o) PROVE IInv'
  OBVIOUS
<1>1. impl \in [Object -> Impl] /\ impl[o] \in Impl
  BY DEF IInv, TypeOK
<1>2. impl' \in [Object -> Impl] /\ impl'[o].handle = None
  BY <1>1 DEF Disconnect, Impl
<1>3. \A q \in Object \ {o} : impl'[q] = impl[q]
  BY <1>1 DEF Disconnect
<1>4. /\ open' \subseteq Port /\ wire' \in [Port -> Seq(Nat)]
      /\ believes' \in [Object -> Port \union {None}]
      /\ open' = open \ {impl[o].handle}
  BY <1>1, DestroyedType DEF IInv, Disconnect
<1>5. TypeOK'
  BY <1>2, <1>3, <1>4 DEF IInv, Disconnect, TypeOK
<1>6. Owned'
  BY <1>2, <1>3, <1>4, OwnedWithout DEF IInv
<1> QED BY <1>5, <1>6 DEF IInv

LEMMA PartsType ==
  ASSUME NEW s \in Seq(Nat), NEW n \in 0..Len(s)
  PROVE  SubSeq(s, 1, n) \in Seq(Nat) /\ SubSeq(s, n + 1, Len(s)) \in Seq(Nat)
OBVIOUS

LEMMA PollInv == ASSUME NEW o \in Object PROVE IInv /\ Poll(o) => IInv'
<1> SUFFICES ASSUME IInv, Poll(o) PROVE IInv'
  OBVIOUS
<1> DEFINE p == impl[o].handle
<1>1. impl \in [Object -> Impl] /\ impl[o] \in Impl /\ p \in Port
  BY DEF IInv, TypeOK, Impl, Poll
<1>2. PICK n \in 1..Len(wire[p]) :
        /\ impl' = [impl EXCEPT ![o].buffer = @ \o SubSeq(wire[p], 1, n),
                                ![o].received = @ \o SubSeq(wire[p], 1, n)]
        /\ wire' = [wire EXCEPT ![p] = SubSeq(@, n + 1, Len(@))]
  BY DEF Poll
<1>3. wire[p] \in Seq(Nat)
  BY <1>1 DEF IInv, TypeOK
<1>4. SubSeq(wire[p], 1, n) \in Seq(Nat) /\ SubSeq(wire[p], n + 1, Len(wire[p])) \in Seq(Nat)
  BY <1>3, PartsType
<1>5. /\ impl[o].buffer \o SubSeq(wire[p], 1, n) \in Seq(Nat)
      /\ impl[o].received \o SubSeq(wire[p], 1, n) \in Seq(Nat)
  BY <1>1, <1>4 DEF Impl
<1>6. impl' \in [Object -> Impl] /\ impl'[o].handle = p
  BY <1>1, <1>2, <1>5 DEF Impl
<1>7. \A q \in Object \ {o} : impl'[q] = impl[q]
  BY <1>1, <1>2
<1>8. wire' \in [Port -> Seq(Nat)]
  BY <1>1, <1>2, <1>4 DEF IInv, TypeOK
<1>9. TypeOK'
  <2>1. TypeOK /\ life[o] = "live" /\ UNCHANGED <<life, open, arrived, connects, believes>>
    BY DEF IInv, Poll
  <2>2. \A q \in Object : life[q] # "live" => impl'[q] = NewImpl
    BY <1>7, <2>1 DEF TypeOK
  <2> QED BY <1>6, <1>8, <2>1, <2>2 DEF TypeOK
<1>10. \A q \in Object : impl'[q].handle = impl[q].handle
  BY <1>6, <1>7
<1>11. Owned /\ open' = open
  BY DEF IInv, Poll
<1>12. Owned'
  BY <1>10, <1>11 DEF Owned
<1> QED BY <1>9, <1>12 DEF IInv

LEMMA TakenInv ==
  ASSUME NEW o \in Object, IInv, life[o] = "live", NEW n \in 0..Len(impl[o].buffer), Taken(o, n)
  PROVE  IInv'
<1> DEFINE b == impl[o].buffer
<1>1. impl \in [Object -> Impl] /\ impl[o] \in Impl /\ b \in Seq(Nat)
  BY DEF IInv, TypeOK, Impl
<1>2. SubSeq(b, 1, n) \in Seq(Nat) /\ SubSeq(b, n + 1, Len(b)) \in Seq(Nat)
  BY <1>1, PartsType
<1>3. impl[o].taken \o SubSeq(b, 1, n) \in Seq(Nat)
  BY <1>1, <1>2 DEF Impl
<1>4. impl' \in [Object -> Impl] /\ impl'[o].handle = impl[o].handle
  BY <1>1, <1>2, <1>3 DEF Impl, Taken
<1>5. \A q \in Object \ {o} : impl'[q] = impl[q]
  BY <1>1 DEF Taken
<1>6. TypeOK'
  BY <1>4, <1>5 DEF IInv, TypeOK, Taken
<1>7. Owned'
  BY <1>4, <1>5 DEF IInv, Owned, Taken
<1> QED BY <1>6, <1>7 DEF IInv

LEMMA UnchangedInv == IInv /\ UNCHANGED vars => IInv'
<1> SUFFICES ASSUME IInv, UNCHANGED vars PROVE IInv'
  OBVIOUS
<1>1. TypeOK'
  BY DEF IInv, vars, TypeOK
<1>2. Owned'
  BY DEF IInv, vars, Owned
<1> QED BY <1>1, <1>2 DEF IInv

LEMMA FlushInv == ASSUME NEW o \in Object PROVE IInv /\ (Flush(o) \/ Read(o)) => IInv'
<1> SUFFICES ASSUME IInv, Flush(o) \/ Read(o) PROVE IInv'
  OBVIOUS
<1>1. Len(impl[o].buffer) \in Nat
  BY DEF IInv, TypeOK, Impl
<1>2. CASE Flush(o)
  <2>1. PICK n \in 1..(MaxBytes + 1) :
          Taken(o, IF n < Len(impl[o].buffer) THEN n ELSE Len(impl[o].buffer))
    BY <1>2 DEF Flush
  <2>2. (IF n < Len(impl[o].buffer) THEN n ELSE Len(impl[o].buffer)) \in 0..Len(impl[o].buffer)
    BY <1>1
  <2> QED BY <1>2, <2>1, <2>2, TakenInv DEF Flush
<1>3. CASE Read(o)
  <2>1. PICK n \in 1..(MaxBytes + 1) : \/ n <= Len(impl[o].buffer) /\ Taken(o, n)
                                       \/ UNCHANGED vars
    BY <1>3 DEF Read
  <2>2. CASE n <= Len(impl[o].buffer) /\ Taken(o, n)
    <3>1. n \in 0..Len(impl[o].buffer)
      BY <1>1, <2>2
    <3> QED BY <1>3, <2>2, <3>1, TakenInv DEF Read
  <2>3. CASE UNCHANGED vars
    BY <2>3, UnchangedInv
  <2> QED BY <2>1, <2>2, <2>3
<1> QED BY <1>2, <1>3

LEMMA MoveInv ==
  ASSUME NEW o \in Object, NEW q \in Object PROVE IInv /\ Move(o, q) => IInv'
<1> SUFFICES ASSUME IInv, Move(o, q) PROVE IInv'
  OBVIOUS
<1>1. impl \in [Object -> Impl] /\ o # q /\ impl[q].handle = None
  BY DEF IInv, TypeOK, Move, NewImpl
<1>2. impl' \in [Object -> Impl]
  BY <1>1, NewImplType DEF Move
<1>3. impl'[q] = impl[o] /\ impl'[o] = NewImpl /\ NewImpl.handle = None
  BY <1>1 DEF Move, NewImpl
<1>4. \A r \in Object \ {o, q} : impl'[r] = impl[r]
  BY <1>1 DEF Move
<1>5. TypeOK'
  BY <1>1, <1>2, <1>3, <1>4 DEF IInv, TypeOK, Move
<1>6. open' = open \ {impl[q].handle}
  BY <1>1 DEF IInv, TypeOK, Move
<1>7. Owned'
  BY <1>1, <1>3, <1>4, <1>6, OwnedElsewhere DEF IInv, Move
<1> QED BY <1>5, <1>7 DEF IInv

LEMMA AssignInv ==
  ASSUME NEW o \in Object, NEW q \in Object PROVE IInv /\ Assign(o, q) => IInv'
<1> SUFFICES ASSUME IInv, Assign(o, q) PROVE IInv'
  OBVIOUS
<1>1. impl \in [Object -> Impl] /\ o # q /\ impl[q] \in Impl
  BY DEF IInv, TypeOK, Assign
<1>2. impl' \in [Object -> Impl]
  BY <1>1, NewImplType DEF Assign
<1>3. impl'[q] = impl[o] /\ impl'[o] = NewImpl /\ NewImpl.handle = None
  BY <1>1 DEF Assign, NewImpl
<1>4. \A r \in Object \ {o, q} : impl'[r] = impl[r]
  BY <1>1 DEF Assign
<1>5. /\ open' \subseteq Port /\ wire' \in [Port -> Seq(Nat)]
      /\ believes' \in [Object -> Port \union {None}]
      /\ open' = open \ {impl[q].handle}
  BY <1>1, DestroyedType DEF IInv, Assign
<1>6. TypeOK'
  BY <1>1, <1>2, <1>3, <1>4, <1>5 DEF IInv, TypeOK, Assign
<1>7. Owned'
  BY <1>1, <1>3, <1>4, <1>5, OwnedElsewhere DEF IInv
<1> QED BY <1>6, <1>7 DEF IInv

LEMMA DestroyInv == ASSUME NEW o \in Object PROVE IInv /\ Destroy(o) => IInv'
<1> SUFFICES ASSUME IInv, Destroy(o) PROVE IInv'
  OBVIOUS
<1>1. impl \in [Object -> Impl] /\ impl[o] \in Impl
  BY DEF IInv, TypeOK
<1>2. impl' \in [Object -> Impl] /\ impl'[o] = NewImpl /\ NewImpl.handle = None
  BY <1>1, NewImplType DEF Destroy, NewImpl
<1>3. \A q \in Object \ {o} : impl'[q] = impl[q]
  BY <1>1 DEF Destroy
<1>4. /\ open' \subseteq Port /\ wire' \in [Port -> Seq(Nat)]
      /\ believes' \in [Object -> Port \union {None}]
      /\ open' = open \ {impl[o].handle}
  BY <1>1, DestroyedType DEF IInv, Destroy
<1>5. TypeOK'
  BY <1>2, <1>3, <1>4 DEF IInv, Destroy, TypeOK
<1>6. Owned'
  BY <1>2, <1>3, <1>4, OwnedWithout DEF IInv
<1> QED BY <1>5, <1>6 DEF IInv

LEMMA NextInv == IInv /\ [Next]_vars => IInv'
<1> SUFFICES ASSUME IInv, [Next]_vars PROVE IInv'
  OBVIOUS
<1>1. CASE UNCHANGED vars
  BY <1>1, UnchangedInv
<1>2. CASE Byte
  BY <1>2, ByteInv
<1>3. ASSUME NEW o \in Object,
             Construct(o) \/ Event(o) \/ Disconnect(o) \/ Poll(o) \/ Flush(o) \/ Read(o) \/ Destroy(o)
      PROVE  IInv'
  BY <1>3, ConstructInv, EventInv, DisconnectInv, PollInv, FlushInv, DestroyInv
<1>4. ASSUME NEW o \in Object, NoState(o) PROVE IInv'
  BY <1>4, UnchangedInv DEF NoState
<1>5. ASSUME NEW o \in Object, NEW p \in Port, Connect(o, p) PROVE IInv'
  BY <1>5, ConnectInv
<1>6. ASSUME NEW o \in Object, NEW q \in Object, Move(o, q) \/ Assign(o, q) PROVE IInv'
  BY <1>6, MoveInv, AssignInv
<1> QED BY <1>1, <1>2, <1>3, <1>4, <1>5, <1>6 DEF Next

LEMMA Invariant == Spec => []IInv
<1> QED BY InitInv, NextInv, PTL DEF Spec

-----------------------------------------------------------------------------
(* Numbers that rise and are at most n *)
Rising(s, n) == /\ \A i, j \in DOMAIN s : i < j => s[i] < s[j]
                /\ \A i \in DOMAIN s : s[i] <= n

(* What an object has received, and then what is still to come on its port *)
Coming(h)   == IF h = None THEN <<>> ELSE wire[h]
Upcoming(o) == impl[o].received \o Coming(impl[o].handle)

(* StreamIsKept is not inductive: what ReadFile returns rises only when    *)
(* the bytes on the wire do, and come after those received                 *)
Streams ==
  /\ \A p \in Port : p \notin open => wire[p] = <<>>
  /\ \A o \in Object : /\ impl[o].taken \o impl[o].buffer = impl[o].received
                       /\ Rising(Upcoming(o), arrived)

(* Facts of the library, for sequences of numbers *)
LEMMA Associative ==
  ASSUME NEW s \in Seq(Nat), NEW t \in Seq(Nat), NEW u \in Seq(Nat)
  PROVE  (s \o t) \o u = s \o (t \o u)
OBVIOUS

LEMMA AppendedBehind ==
  ASSUME NEW s \in Seq(Nat), NEW t \in Seq(Nat), NEW n \in Nat
  PROVE  s \o Append(t, n) = Append(s \o t, n)
OBVIOUS

LEMMA Halves ==
  ASSUME NEW s \in Seq(Nat), NEW n \in 0..Len(s)
  PROVE  SubSeq(s, 1, n) \o SubSeq(s, n + 1, Len(s)) = s
<1>1. /\ Len(s) \in Nat /\ 1 \in 1..(Len(s) + 1) /\ n \in (1 - 1)..Len(s)
      /\ Len(s) \in n..Len(s)
  OBVIOUS
<1>2. SubSeq(s, 1, n) \o SubSeq(s, n + 1, Len(s)) = SubSeq(s, 1, Len(s))
  BY <1>1, ConcatAdjacentSubSeq
<1> QED BY <1>2, SubSeqFull

LEMMA RisingPrefix ==
  ASSUME NEW s \in Seq(Nat), NEW t \in Seq(Nat), NEW n \in Nat, Rising(s \o t, n)
  PROVE  Rising(s, n)
<1>1. /\ DOMAIN s = 1..Len(s) /\ DOMAIN (s \o t) = 1..(Len(s) + Len(t))
      /\ Len(s) \in Nat /\ Len(t) \in Nat
  OBVIOUS
<1>2. \A i \in DOMAIN s : i \in DOMAIN (s \o t) /\ (s \o t)[i] = s[i]
  BY <1>1
<1> QED BY <1>2 DEF Rising

LEMMA RisingAppend ==
  ASSUME NEW s \in Seq(Nat), NEW n \in Nat, Rising(s, n)
  PROVE  Rising(Append(s, n + 1), n + 1)
<1> DEFINE t == Append(s, n + 1)
<1>1. Len(s) \in Nat /\ DOMAIN s = 1..Len(s) /\ DOMAIN t = 1..(Len(s) + 1)
  OBVIOUS
<1>2. t[Len(s) + 1] = n + 1 /\ \A i \in 1..Len(s) : t[i] = s[i] /\ s[i] \in Nat
  BY <1>1
<1>3. \A i \in 1..Len(s) : s[i] <= n
  BY <1>1 DEF Rising
<1>4. \A i \in DOMAIN t : t[i] <= n + 1
  <2>1. SUFFICES ASSUME NEW i \in 1..(Len(s) + 1) PROVE t[i] <= n + 1
    BY <1>1
  <2>2. CASE i = Len(s) + 1
    BY <1>2, <2>2
  <2>3. CASE i \in 1..Len(s)
    BY <1>2, <1>3, <2>3
  <2> QED BY <1>1, <2>2, <2>3
<1>5. ASSUME NEW i \in DOMAIN t, NEW j \in DOMAIN t, i < j PROVE t[i] < t[j]
  <2>1. i \in 1..Len(s)
    BY <1>1, <1>5
  <2>2. CASE j = Len(s) + 1
    BY <1>2, <1>3, <2>1, <2>2
  <2>3. CASE j \in 1..Len(s)
    BY <1>1, <1>2, <1>5, <2>1, <2>3 DEF Rising
  <2> QED BY <1>1, <2>2, <2>3
<1> HIDE DEF t
<1>6. Rising(t, n + 1)
  BY <1>4, <1>5 DEF Rising
<1> QED BY <1>6 DEF t

LEMMA RisingBelow ==
  ASSUME NEW s \in Seq(Nat), NEW n \in Nat, Rising(s, n) PROVE Rising(s, n + 1)
<1>1. \A i \in DOMAIN s : s[i] \in Nat
  OBVIOUS
<1> QED BY <1>1 DEF Rising

LEMMA ImplType ==
  ASSUME TypeOK, NEW o \in Object
  PROVE  /\ impl[o].taken \in Seq(Nat) /\ impl[o].buffer \in Seq(Nat) /\ impl[o].received \in Seq(Nat)
         /\ impl[o].handle \in Port \union {None} /\ impl[o].listener \in Object \union {None}
         /\ Coming(impl[o].handle) \in Seq(Nat) /\ arrived \in Nat
<1>1. impl[o] \in Impl
  BY DEF TypeOK
<1>2. impl[o].handle \in Port \union {None}
  BY <1>1 DEF Impl
<1>3. Coming(impl[o].handle) \in Seq(Nat)
  BY <1>2 DEF Coming, TypeOK
<1> QED BY <1>1, <1>2, <1>3 DEF Impl, TypeOK

LEMMA StreamsAtFirst == Init => Streams
<1> SUFFICES ASSUME Init PROVE Streams
  OBVIOUS
<1>1. \A o \in Object : impl[o] = NewImpl
  BY DEF Init
<1>2. \A o \in Object : Upcoming(o) = <<>> /\ impl[o].taken \o impl[o].buffer = impl[o].received
  <2>1. <<>> \o <<>> = <<>>
    OBVIOUS
  <2>2. \A o \in Object : /\ impl[o].handle = None /\ impl[o].received = <<>>
                          /\ impl[o].taken = <<>> /\ impl[o].buffer = <<>>
    BY <1>1 DEF NewImpl
  <2> QED BY <2>1, <2>2 DEF Upcoming, Coming
<1>3. Rising(<<>>, arrived)
  BY DEF Rising
<1> QED BY <1>2, <1>3 DEF Init, Streams

(* Objects get what another one had, or a new impl, and what comes on a    *)
(* port is as before, or lost                                              *)
LEMMA StreamsCarried ==
  ASSUME TypeOK, Streams, TypeOK', arrived' = arrived,
         \A p \in Port : p \notin open' => wire'[p] = <<>>,
         \A q \in Object : \/ impl'[q] = NewImpl
                           \/ \E r \in Object :
                                /\ impl'[q].taken = impl[r].taken
                                /\ impl'[q].buffer = impl[r].buffer
                                /\ impl'[q].received = impl[r].received
                                /\ Coming(impl[q].handle)' \in {Coming(impl[r].handle), <<>>}
  PROVE  Streams'
<1>1. SUFFICES ASSUME NEW q \in Object
               PROVE  /\ impl'[q].taken \o impl'[q].buffer = impl'[q].received
                      /\ Rising(Upcoming(q)', arrived)
  BY DEF Streams, Rising
<1>2. CASE impl'[q] = NewImpl
  <2>1. impl'[q].taken \o impl'[q].buffer = impl'[q].received /\ Upcoming(q)' = <<>>
    BY <1>2 DEF Upcoming, Coming, NewImpl
  <2>2. Rising(<<>>, arrived)
    BY DEF Rising
  <2> QED BY <2>1, <2>2
<1>3. ASSUME NEW r \in Object,
             /\ impl'[q].taken = impl[r].taken
             /\ impl'[q].buffer = impl[r].buffer
             /\ impl'[q].received = impl[r].received
             /\ Coming(impl[q].handle)' \in {Coming(impl[r].handle), <<>>}
      PROVE  /\ impl'[q].taken \o impl'[q].buffer = impl'[q].received
             /\ Rising(Upcoming(q)', arrived)
  <2>1. /\ impl[r].received \in Seq(Nat) /\ Coming(impl[r].handle) \in Seq(Nat) /\ arrived \in Nat
        /\ Rising(impl[r].received \o Coming(impl[r].handle), arrived)
        /\ impl[r].taken \o impl[r].buffer = impl[r].received
    BY ImplType DEF Streams, Upcoming
  <2>2. Rising(impl[r].received, arrived)
    BY <2>1, RisingPrefix
  <2>3. impl[r].received \o <<>> = impl[r].received
    BY <2>1
  <2>4. Upcoming(q)' = impl[r].received \o Coming(impl[q].handle)'
    BY <1>3 DEF Upcoming
  <2> QED BY <1>3, <2>1, <2>2, <2>3, <2>4
<1> QED BY <1>2, <1>3

LEMMA ByteStreams == IInv /\ Streams /\ Byte => Streams'
<1> SUFFICES ASSUME IInv, Streams, Byte PROVE Streams'
  OBVIOUS
<1>1. TypeOK /\ arrived \in Nat /\ arrived' = arrived + 1 /\ impl' = impl /\ open' = open
  BY DEF IInv, TypeOK, Byte
<1>2. PICK p \in open : wire' = [wire EXCEPT ![p] = Append(@, arrived')]
  BY DEF Byte
<1>3. p \in Port /\ wire[p] \in Seq(Nat) /\ wire'[p] = Append(wire[p], arrived + 1)
  BY <1>1, <1>2 DEF TypeOK
<1>4. \A q \in Port \ {p} : wire'[q] = wire[q]
  BY <1>1, <1>2 DEF TypeOK
<1>5. \A q \in Port : q \notin open' => wire'[q] = <<>>
  BY <1>1, <1>4 DEF Streams
<1>6. ASSUME NEW o \in Object PROVE Rising(Upcoming(o)', arrived + 1)
  <2>1. /\ impl[o].received \in Seq(Nat) /\ impl[o].handle \in Port \union {None}
        /\ Coming(impl[o].handle) \in Seq(Nat) /\ Upcoming(o) \in Seq(Nat)
    BY <1>1, ImplType DEF Upcoming
  <2>2. Rising(Upcoming(o), arrived)
    BY DEF Streams
  <2>3. CASE impl[o].handle = p
    <3>1. Upcoming(o)' = impl[o].received \o Append(wire[p], arrived + 1)
      BY <1>1, <1>3, <2>3 DEF Upcoming, Coming
    <3>2. Upcoming(o) = impl[o].received \o wire[p]
      BY <1>3, <2>3 DEF Upcoming, Coming
    <3>3. impl[o].received \o Append(wire[p], arrived + 1)
            = Append(impl[o].received \o wire[p], arrived + 1)
      <4> DEFINE r == impl[o].received
                 w == wire[p]
                 n == arrived + 1
      <4>1. r \in Seq(Nat) /\ w \in Seq(Nat) /\ n \in Nat
        BY <1>1, <1>3, <2>1
      <4> HIDE SerialAssumption DEF r, w, n
      <4>2. r \o Append(w, n) = Append(r \o w, n)
        BY <4>1, AppendedBehind
      <4> QED BY <4>2 DEF r, w, n
    <3> QED BY <1>1, <2>1, <2>2, <3>1, <3>2, <3>3, RisingAppend
  <2>4. CASE impl[o].handle # p
    <3>1. Upcoming(o)' = Upcoming(o)
      BY <1>1, <1>4, <2>1, <2>4 DEF Upcoming, Coming
    <3> QED BY <1>1, <2>1, <2>2, <3>1, RisingBelow
  <2> QED BY <2>3, <2>4
<1> QED BY <1>1, <1>5, <1>6 DEF Streams

LEMMA PollStreams == ASSUME NEW o \in Object PROVE IInv /\ Streams /\ Poll(o) => Streams'
<1> SUFFICES ASSUME IInv, Streams, Poll(o) PROVE Streams'
  OBVIOUS
<1> DEFINE p == impl[o].handle
<1>1. /\ TypeOK /\ impl \in [Object -> Impl] /\ impl[o] \in Impl
      /\ p \in Port /\ p \in open /\ p # None /\ wire[p] \in Seq(Nat)
      /\ arrived' = arrived /\ open' = open
  <2>1. TypeOK /\ Owned /\ p # None /\ arrived' = arrived /\ open' = open
    BY DEF IInv, Poll
  <2>2. impl \in [Object -> Impl] /\ impl[o] \in Impl /\ p \in Port
    BY <2>1 DEF TypeOK, Impl
  <2>3. p \in open
    BY <2>1, <2>2 DEF Owned
  <2> QED BY <2>1, <2>2, <2>3 DEF TypeOK
<1>2. PICK n \in 1..Len(wire[p]) :
        /\ impl' = [impl EXCEPT ![o].buffer = @ \o SubSeq(wire[p], 1, n),
                                ![o].received = @ \o SubSeq(wire[p], 1, n)]
        /\ wire' = [wire EXCEPT ![p] = SubSeq(@, n + 1, Len(@))]
  BY DEF Poll
<1> DEFINE x == SubSeq(wire[p], 1, n)
           y == SubSeq(wire[p], n + 1, Len(wire[p]))
<1>3. /\ impl'[o].handle = p /\ impl'[o].taken = impl[o].taken
      /\ impl'[o].buffer = impl[o].buffer \o x /\ impl'[o].received = impl[o].received \o x
      /\ \A q \in Object \ {o} : impl'[q] = impl[q]
  BY <1>1, <1>2 DEF Impl
<1>4. wire'[p] = y /\ \A q \in Port \ {p} : wire'[q] = wire[q]
  BY <1>1, <1>2 DEF TypeOK
<1>5. x \in Seq(Nat) /\ y \in Seq(Nat)
  BY <1>1, PartsType
<1>6. x \o y = wire[p]
  <2>1. n \in 0..Len(wire[p])
    BY <1>1
  <2> QED BY <1>1, <2>1, Halves
<1> HIDE DEF x, y
<1>7. \A q \in Port : q \notin open' => wire'[q] = <<>>
  BY <1>1, <1>4 DEF Streams
<1>8. /\ impl[o].taken \in Seq(Nat) /\ impl[o].buffer \in Seq(Nat) /\ impl[o].received \in Seq(Nat)
      /\ impl[o].taken \o impl[o].buffer = impl[o].received
  BY <1>1, ImplType DEF Streams
<1>9. impl'[o].taken \o impl'[o].buffer = impl'[o].received
  <2> DEFINE t == impl[o].taken
             b == impl[o].buffer
  <2>1. t \in Seq(Nat) /\ b \in Seq(Nat)
    BY <1>8
  <2> HIDE SerialAssumption DEF t, b
  <2>2. (t \o b) \o x = t \o (b \o x)
    BY <1>5, <2>1, Associative
  <2> QED BY <1>3, <1>8, <2>2 DEF t, b
<1>10. Upcoming(o)' = Upcoming(o)
  <2>1. Upcoming(o)' = (impl[o].received \o x) \o y
    BY <1>1, <1>3, <1>4 DEF Upcoming, Coming
  <2>2. (impl[o].received \o x) \o y = impl[o].received \o (x \o y)
    <3> DEFINE r == impl[o].received
    <3>1. r \in Seq(Nat)
      BY <1>8
    <3> HIDE SerialAssumption DEF r
    <3>2. (r \o x) \o y = r \o (x \o y)
      BY <1>5, <3>1, Associative
    <3> QED BY <3>2 DEF r
  <2> QED BY <1>1, <1>6, <2>1, <2>2 DEF Upcoming, Coming
<1>11. ASSUME NEW q \in Object \ {o} PROVE Upcoming(q)' = Upcoming(q)
  <2>1. impl[q].handle # p /\ impl[q].handle \in Port \union {None}
    BY <1>1, ImplType DEF IInv, Owned
  <2> QED BY <1>3, <1>4, <2>1 DEF Upcoming, Coming
<1>12. ASSUME NEW q \in Object
       PROVE  /\ impl'[q].taken \o impl'[q].buffer = impl'[q].received
              /\ Upcoming(q)' = Upcoming(q)
  BY <1>3, <1>9, <1>10, <1>11 DEF Streams
<1> QED BY <1>1, <1>7, <1>12 DEF Streams

LEMMA TakenStreams ==
  ASSUME NEW o \in Object, IInv, Streams, NEW n \in 0..Len(impl[o].buffer), Taken(o, n)
  PROVE  Streams'
<1> DEFINE b == impl[o].buffer
           x == SubSeq(b, 1, n)
           y == SubSeq(b, n + 1, Len(b))
<1>1. /\ impl \in [Object -> Impl] /\ impl[o] \in Impl /\ impl[o].taken \in Seq(Nat) /\ b \in Seq(Nat)
      /\ impl[o].taken \o b = impl[o].received
  BY ImplType DEF IInv, TypeOK, Streams
<1>2. /\ impl'[o].handle = impl[o].handle /\ impl'[o].received = impl[o].received
      /\ impl'[o].taken = impl[o].taken \o x /\ impl'[o].buffer = y
      /\ \A q \in Object \ {o} : impl'[q] = impl[q]
      /\ wire' = wire /\ open' = open /\ arrived' = arrived
  BY <1>1 DEF Taken, Impl
<1>3. x \in Seq(Nat) /\ y \in Seq(Nat)
  BY <1>1, PartsType
<1>4. x \o y = b
  BY <1>1, Halves
<1> HIDE DEF x, y
<1>5. (impl[o].taken \o x) \o y = impl[o].received
  <2> DEFINE t == impl[o].taken
  <2>1. t \in Seq(Nat)
    BY <1>1
  <2> HIDE SerialAssumption DEF t
  <2>2. (t \o x) \o y = t \o (x \o y)
    BY <1>3, <2>1, Associative
  <2> QED BY <1>1, <1>4, <2>2 DEF t
<1>6. ASSUME NEW q \in Object
      PROVE  /\ impl'[q].taken \o impl'[q].buffer = impl'[q].received
             /\ Upcoming(q)' = Upcoming(q)
  BY <1>2, <1>5 DEF Streams, Upcoming, Coming
<1> QED BY <1>2, <1>6 DEF Streams

(* Objects that close a port: nobody else has it *)
LEMMA OthersComing ==
  ASSUME TypeOK, Owned, NEW o \in Object, NEW q \in Object \ {o},
         wire' = [p \in Port |-> IF p = impl[o].handle THEN <<>> ELSE wire[p]]
  PROVE  LET h == impl[q].handle IN (IF h = None THEN <<>> ELSE wire'[h]) = Coming(h)
<1> DEFINE h == impl[q].handle
<1>1. h \in Port \union {None} /\ (h = impl[o].handle => h = None)
  BY ImplType DEF Owned
<1> QED BY <1>1 DEF Coming

LEMMA ConnectStreams ==
  ASSUME NEW o \in Object, NEW p \in Port
  PROVE  IInv /\ IInv' /\ Streams /\ Connect(o, p) => Streams'
<1> SUFFICES ASSUME IInv, IInv', Streams, Connect(o, p) PROVE Streams'
  OBVIOUS
<1> DEFINE h == impl[o].handle
<1>1. /\ TypeOK /\ Owned /\ TypeOK' /\ arrived' = arrived
      /\ wire' = [q \in Port |-> IF q = h THEN <<>> ELSE wire[q]]
  BY DEF IInv, Connect
<1>2. \A q \in Port : q \notin open' => wire'[q] = <<>>
  BY <1>1 DEF Streams, Connect
<1>3. /\ impl'[o].taken = impl[o].taken /\ impl'[o].buffer = impl[o].buffer
      /\ impl'[o].received = impl[o].received
      /\ impl'[o].handle = None \/ (impl'[o].handle = p /\ p \notin open \ {h})
      /\ \A q \in Object \ {o} : impl'[q] = impl[q]
  BY <1>1 DEF TypeOK, Impl, Connect
<1>4. Coming(impl[o].handle)' = <<>>
  BY <1>1, <1>3 DEF Coming, Streams
<1>5. \A q \in Object \ {o} : Coming(impl[q].handle)' = Coming(impl[q].handle)
  BY <1>1, <1>3, OthersComing DEF Coming
<1> QED BY <1>1, <1>2, <1>3, <1>4, <1>5, StreamsCarried

(* disconnect, ~serial, and the end of the impl that an assignment replaces *)
LEMMA DisconnectStreams ==
  ASSUME NEW o \in Object
  PROVE  IInv /\ IInv' /\ Streams /\ (Disconnect(o) \/ Destroy(o)) => Streams'
<1> SUFFICES ASSUME IInv, IInv', Streams, Disconnect(o) \/ Destroy(o) PROVE Streams'
  OBVIOUS
<1>1. /\ TypeOK /\ Owned /\ TypeOK' /\ arrived' = arrived
      /\ open' = open \ {impl[o].handle}
      /\ wire' = [q \in Port |-> IF q = impl[o].handle THEN <<>> ELSE wire[q]]
  BY DEF IInv, Disconnect, Destroy, Destroyed, Closed
<1>2. \A q \in Port : q \notin open' => wire'[q] = <<>>
  BY <1>1 DEF Streams
<1>3. /\ \/ impl'[o] = NewImpl
         \/ /\ impl'[o].taken = impl[o].taken /\ impl'[o].buffer = impl[o].buffer
            /\ impl'[o].received = impl[o].received /\ impl'[o].handle = None
      /\ \A q \in Object \ {o} : impl'[q] = impl[q]
  BY <1>1 DEF TypeOK, Impl, Disconnect, Destroy
<1>4. impl'[o].handle = None => Coming(impl[o].handle)' = <<>>
  BY DEF Coming
<1>5. \A q \in Object \ {o} : Coming(impl[q].handle)' = Coming(impl[q].handle)
  BY <1>1, <1>3, OthersComing DEF Coming
<1> QED BY <1>1, <1>2, <1>3, <1>4, <1>5, StreamsCarried

LEMMA AssignStreams ==
  ASSUME NEW o \in Object, NEW q \in Object
  PROVE  IInv /\ IInv' /\ Streams /\ (Move(o, q) \/ Assign(o, q)) => Streams'
<1> SUFFICES ASSUME IInv, IInv', Streams, Move(o, q) \/ Assign(o, q) PROVE Streams'
  OBVIOUS
<1>1. /\ TypeOK /\ Owned /\ TypeOK' /\ arrived' = arrived /\ o # q
      /\ impl \in [Object -> Impl] /\ impl' = [impl EXCEPT ![q] = impl[o], ![o] = NewImpl]
  BY DEF IInv, Move, Assign, TypeOK
<1>2. /\ wire' = [p \in Port |-> IF p = impl[q].handle THEN <<>> ELSE wire[p]]
      /\ open' = open \ {impl[q].handle}
  <2>1. CASE Move(o, q)
    <3>1. impl[q].handle = None /\ wire' = wire /\ open' = open
      BY <1>1, <2>1 DEF Move, TypeOK, NewImpl
    <3> QED BY <1>1, <3>1 DEF TypeOK
  <2>2. CASE Assign(o, q)
    BY <2>2 DEF Assign, Destroyed, Closed
  <2> QED BY <2>1, <2>2
<1>3. \A p \in Port : p \notin open' => wire'[p] = <<>>
  BY <1>2 DEF Streams
<1>4. impl'[o] = NewImpl /\ impl'[q] = impl[o] /\ \A r \in Object \ {o, q} : impl'[r] = impl[r]
  BY <1>1
<1>5. Coming(impl[q].handle)' = Coming(impl[o].handle)
  BY <1>1, <1>2, <1>4, OthersComing DEF Coming
<1>6. \A r \in Object \ {o, q} : Coming(impl[r].handle)' = Coming(impl[r].handle)
  BY <1>1, <1>2, <1>4, OthersComing DEF Coming
<1> QED BY <1>1, <1>3, <1>4, <1>5, <1>6, StreamsCarried

LEMMA UnchangedStreams ==
  Streams /\ impl' = impl /\ wire' = wire /\ open' = open /\ arrived' = arrived => Streams'
BY DEF Streams, Upcoming, Coming

LEMMA EventStreams ==
  ASSUME NEW o \in Object PROVE IInv /\ IInv' /\ Streams /\ Event(o) => Streams'
<1> SUFFICES ASSUME IInv, IInv', Streams, Event(o) PROVE Streams'
  OBVIOUS
<1>1. /\ TypeOK /\ TypeOK' /\ arrived' = arrived /\ wire' = wire /\ open' = open
      /\ impl \in [Object -> Impl] /\ impl' = [impl EXCEPT ![o].listener = o]
  BY DEF IInv, TypeOK, Event
<1>2. \A q \in Object : /\ impl'[q].taken = impl[q].taken /\ impl'[q].buffer = impl[q].buffer
                        /\ impl'[q].received = impl[q].received
                        /\ impl'[q].handle = impl[q].handle
  BY <1>1 DEF Impl
<1>3. \A q \in Object : Coming(impl[q].handle)' = Coming(impl[q].handle)
  BY <1>1, <1>2 DEF Coming
<1>4. \A p \in Port : p \notin open' => wire'[p] = <<>>
  BY <1>1 DEF Streams
<1> QED BY <1>1, <1>2, <1>3, <1>4, StreamsCarried

LEMMA FlushStreams ==
  ASSUME NEW o \in Object PROVE IInv /\ Streams /\ (Flush(o) \/ Read(o)) => Streams'
<1> SUFFICES ASSUME IInv, Streams, Flush(o) \/ Read(o) PROVE Streams'
  OBVIOUS
<1>1. Len(impl[o].buffer) \in Nat
  BY DEF IInv, TypeOK, Impl
<1>2. CASE Flush(o)
  <2>1. PICK n \in 1..(MaxBytes + 1) :
          Taken(o, IF n < Len(impl[o].buffer) THEN n ELSE Len(impl[o].buffer))
    BY <1>2 DEF Flush
  <2>2. (IF n < Len(impl[o].buffer) THEN n ELSE Len(impl[o].buffer)) \in 0..Len(impl[o].buffer)
    BY <1>1
  <2> QED BY <2>1, <2>2, TakenStreams
<1>3. CASE Read(o)
  <2>1. PICK n \in 1..(MaxBytes + 1) : \/ n <= Len(impl[o].buffer) /\ Taken(o, n)
                                       \/ UNCHANGED vars
    BY <1>3 DEF Read
  <2>2. CASE n <= Len(impl[o].buffer) /\ Taken(o, n)
    <3>1. n \in 0..Len(impl[o].buffer)
      BY <1>1, <2>2
    <3> QED BY <2>2, <3>1, TakenStreams
  <2>3. CASE UNCHANGED vars
    BY <2>3, UnchangedStreams DEF vars
  <2> QED BY <2>1, <2>2, <2>3
<1> QED BY <1>2, <1>3

LEMMA NextStreams == IInv /\ IInv' /\ Streams /\ [Next]_vars => Streams'
<1> SUFFICES ASSUME IInv, IInv', Streams, [Next]_vars PROVE Streams'
  OBVIOUS
<1>1. CASE UNCHANGED vars
  BY <1>1, UnchangedStreams DEF vars
<1>2. CASE Byte
  BY <1>2, ByteStreams
<1>3. ASSUME NEW o \in Object,
             Event(o) \/ Disconnect(o) \/ Poll(o) \/ Flush(o) \/ Read(o) \/ Destroy(o)
      PROVE  Streams'
  BY <1>3, EventStreams, DisconnectStreams, PollStreams, FlushStreams
<1>4. ASSUME NEW o \in Object, Construct(o) \/ NoState(o) PROVE Streams'
  BY <1>4, UnchangedStreams DEF Construct, NoState, vars
<1>5. ASSUME NEW o \in Object, NEW p \in Port, Connect(o, p) PROVE Streams'
  BY <1>5, ConnectStreams
<1>6. ASSUME NEW o \in Object, NEW q \in Object, Move(o, q) \/ Assign(o, q) PROVE Streams'
  BY <1>6, AssignStreams
<1> QED BY <1>1, <1>2, <1>3, <1>4, <1>5, <1>6 DEF Next

-----------------------------------------------------------------------------
(* BeliefsStayTrue, step by step                                           *)

(* A listener that an object does not have any more, or has for the first  *)
(* time, has no part in what the others are told                           *)
LEMMA EventInforms ==
  ASSUME TypeOK, NEW o \in Object, Event(o), NEW l \in Object, Informed(l), ~Informed(l)'
  PROVE  impl[o].listener = l /\ impl[o].handle = believes[l]
<1>1. impl \in [Object -> Impl] /\ impl' = [impl EXCEPT ![o].listener = o]
  BY DEF TypeOK, Event
<1>2. \A q \in Object \ {o} : impl'[q] = impl[q]
  BY <1>1 DEF Impl
<1>3. believes' = believes
  BY DEF Event
<1>4. PICK q \in Object : impl[q].listener = l /\ impl[q].handle = believes[l]
  BY <1>3 DEF Informed
<1>5. q = o
  BY <1>2, <1>3, <1>4 DEF Informed
<1> QED BY <1>4, <1>5

LEMMA ConnectInforms ==
  ASSUME TypeOK, NEW o \in Object, NEW p \in Port, Connect(o, p),
         NEW l \in Object, Informed(l), ~Informed(l)'
  PROVE  impl[o].listener = l /\ impl[o].handle = believes[l] /\ impl'[o].handle = None
<1>1. PICK h \in {p, None} : /\ impl' = [impl EXCEPT ![o].port = p, ![o].handle = h]
                             /\ believes' = IF h = None THEN believes
                                            ELSE Told(believes, impl[o].listener, h)
  BY DEF Connect
<1>2. /\ impl'[o].handle = h /\ impl'[o].listener = impl[o].listener
      /\ \A q \in Object \ {o} : impl'[q] = impl[q]
  BY <1>1 DEF TypeOK, Impl
<1>3. believes'[l] = believes[l]
  BY <1>1, <1>2 DEF Told, Informed
<1>4. PICK q \in Object : impl[q].listener = l /\ impl[q].handle = believes[l]
  BY <1>3 DEF Informed
<1>5. q = o
  BY <1>2, <1>3, <1>4 DEF Informed
<1>6. h = None
  BY <1>1, <1>2, <1>3, <1>4, <1>5 DEF Told, Informed
<1> QED BY <1>2, <1>4, <1>5, <1>6

(* The impl of q closes its port and tells its listener; what the others   *)
(* have is still there, if not with the same object                        *)
LEMMA DestroyedInforms ==
  ASSUME TypeOK, NEW q \in Object, Destroyed(impl[q]),
         \A r \in Object \ {q} : \E t \in Object :
           impl'[t].listener = impl[r].listener /\ impl'[t].handle = impl[r].handle,
         NEW l \in Object, Informed(l)
  PROVE  Informed(l)'
<1> SUFFICES ASSUME believes'[l] # None
             PROVE  \E t \in Object : impl'[t].listener = l /\ impl'[t].handle = believes'[l]
  BY DEF Informed
<1>1. believes'[l] = believes[l] /\ (impl[q].handle = None \/ l # impl[q].listener)
  BY DEF Destroyed, Told
<1>2. PICK r \in Object : impl[r].listener = l /\ impl[r].handle = believes[l]
  BY <1>1 DEF Informed
<1>3. r # q
  BY <1>1, <1>2
<1> QED BY <1>1, <1>2, <1>3

LEMMA DisconnectInforms ==
  ASSUME TypeOK, NEW o \in Object, Disconnect(o) \/ Destroy(o), NEW l \in Object, Informed(l)
  PROVE  Informed(l)'
<1>1. Destroyed(impl[o]) /\ \A r \in Object \ {o} : impl'[r] = impl[r]
  BY DEF TypeOK, Disconnect, Destroy
<1> QED BY <1>1, DestroyedInforms

LEMMA AssignInforms ==
  ASSUME TypeOK, NEW o \in Object, NEW q \in Object, Move(o, q) \/ Assign(o, q),
         NEW l \in Object, Informed(l)
  PROVE  Informed(l)'
<1>1. /\ o # q /\ impl \in [Object -> Impl]
      /\ impl' = [impl EXCEPT ![q] = impl[o], ![o] = NewImpl]
  BY DEF Move, Assign, TypeOK
<1>2. impl'[q] = impl[o] /\ \A r \in Object \ {o, q} : impl'[r] = impl[r]
  BY <1>1
<1>3. \A r \in Object \ {q} : \E t \in Object :
        impl'[t].listener = impl[r].listener /\ impl'[t].handle = impl[r].handle
  BY <1>2
<1>4. CASE Assign(o, q)
  BY <1>3, <1>4, DestroyedInforms DEF Assign
<1>5. CASE Move(o, q)
  <2>1. impl[q].handle = None /\ believes' = believes
    BY <1>5 DEF Move, TypeOK, NewImpl
  <2> QED BY <1>3, <2>1 DEF Informed
<1> QED BY <1>4, <1>5

(* All other operations leave the handles and the listeners as they are *)
LEMMA OthersInform ==
  ASSUME believes' = believes,
         \A q \in Object : impl'[q].listener = impl[q].listener /\ impl'[q].handle = impl[q].handle,
         NEW l \in Object, Informed(l)
  PROVE  Informed(l)'
BY DEF Informed

LEMMA PollInforms ==
  ASSUME TypeOK, NEW o \in Object, Poll(o) \/ Flush(o) \/ Read(o), NEW l \in Object, Informed(l)
  PROVE  Informed(l)'
<1>1. impl \in [Object -> Impl] /\ believes' = believes
  BY DEF TypeOK, Poll, Flush, Read, Taken, vars
<1>2. \/ impl' = impl
      \/ \E b, r : impl' = [impl EXCEPT ![o].buffer = b, ![o].received = r]
      \/ \E b, t : impl' = [impl EXCEPT ![o].buffer = b, ![o].taken = t]
  <2>1. CASE Poll(o)
    BY <1>1, <2>1 DEF Poll
  <2>2. ASSUME NEW n, Taken(o, n)
        PROVE  \E b, t : impl' = [impl EXCEPT ![o].buffer = b, ![o].taken = t]
    BY <2>2 DEF Taken
  <2> QED BY <2>1, <2>2 DEF Flush, Read, vars
<1>3. impl'[o].listener = impl[o].listener /\ impl'[o].handle = impl[o].handle
  <2>1. impl[o] \in Impl
    BY <1>1
  <2>2. ASSUME NEW b, NEW r, impl' = [impl EXCEPT ![o].buffer = b, ![o].received = r]
        PROVE  impl'[o].listener = impl[o].listener /\ impl'[o].handle = impl[o].handle
    BY <1>1, <2>1, <2>2 DEF Impl
  <2>3. ASSUME NEW b, NEW t, impl' = [impl EXCEPT ![o].buffer = b, ![o].taken = t]
        PROVE  impl'[o].listener = impl[o].listener /\ impl'[o].handle = impl[o].handle
    BY <1>1, <2>1, <2>3 DEF Impl
  <2> QED BY <1>2, <2>2, <2>3
<1>4. \A q \in Object \ {o} : impl'[q] = impl[q]
  BY <1>1, <1>2
<1> QED BY <1>1, <1>3, <1>4, OthersInform

LEMMA NextInforms ==
  ASSUME TypeOK, [Next]_vars, NEW l \in Object, Informed(l), ~Informed(l)'
  PROVE  \E o \in Object : impl[o].listener = l /\ impl[o].handle = believes[l] /\ Untold(o)
<1>1. CASE UNCHANGED vars \/ Byte
  BY <1>1, OthersInform DEF Byte, vars
<1>2. ASSUME NEW o \in Object, Event(o)
      PROVE  impl[o].listener = l /\ impl[o].handle = believes[l] /\ Untold(o)
  BY <1>2, EventInforms DEF Untold
<1>3. ASSUME NEW o \in Object, Disconnect(o) \/ Poll(o) \/ Flush(o) \/ Read(o) \/ Destroy(o)
      PROVE  FALSE
  BY <1>3, DisconnectInforms, PollInforms
<1>4. ASSUME NEW o \in Object, Construct(o) \/ NoState(o) PROVE FALSE
  BY <1>4, OthersInform DEF Construct, NoState, vars
<1>5. ASSUME NEW o \in Object, NEW p \in Port, Connect(o, p)
      PROVE  impl[o].listener = l /\ impl[o].handle = believes[l] /\ Untold(o)
  BY <1>5, ConnectInforms DEF Untold
<1>6. ASSUME NEW o \in Object, NEW q \in Object, Move(o, q) \/ Assign(o, q) PROVE FALSE
  BY <1>6, AssignInforms
<1> QED BY <1>1, <1>2, <1>3, <1>4, <1>5, <1>6 DEF Next

-----------------------------------------------------------------------------
(* Every variable stays in its set: in particular, an object that has been *)
(* moved from has nothing of its own any more                              *)
THEOREM TypeCorrect == Spec => []TypeOK
<1>1. IInv => TypeOK
  BY DEF IInv
<1> QED BY <1>1, Invariant, PTL

(* connect, which fails or not, disconnect, moves, assignments and         *)
(* destructors leak no open port and leave no two objects with the handle  *)
(* of one, however many objects there are and wherever they are moved      *)
THEOREM PortsStayOwned == Spec => []PortsAreOwned
<1>1. IInv => PortsAreOwned
  BY OwnedIsPortsAreOwned DEF IInv
<1> QED BY <1>1, Invariant, PTL

(* No byte is lost, doubled or out of order between ReadFile and whoever   *)
(* reads the buffer, for any sequence of reads, flushes, moves and         *)
(* connections, of any length                                              *)
THEOREM StreamStaysKept == Spec => []StreamIsKept
<1>1. ASSUME TypeOK, Streams PROVE StreamIsKept
  <2>1. SUFFICES ASSUME NEW o \in Object PROVE Rising(impl[o].received, arrived)
    BY <1>1 DEF Streams, StreamIsKept, Rising
  <2>2. /\ impl[o].received \in Seq(Nat) /\ Coming(impl[o].handle) \in Seq(Nat) /\ arrived \in Nat
        /\ Rising(impl[o].received \o Coming(impl[o].handle), arrived)
    BY <1>1, ImplType DEF Streams, Upcoming
  <2> QED BY <2>2, RisingPrefix
<1>2. IInv => TypeOK
  BY DEF IInv
<1> QED BY <1>1, <1>2, Invariant, StreamsAtFirst, NextStreams, PTL DEF Spec

(* Whatever is connected, moved, assigned and destroyed, for any number of *)
(* objects and listeners: what a listener was told stays so until it is    *)
(* told otherwise, but for one that is replaced and one whose object fails *)
(* to connect anew                                                         *)
THEOREM ListenersStayInformed == Spec => BeliefsStayTrue
<1>1. TypeOK /\ [Next]_vars =>
        [\A l \in Object : Informed(l) /\ ~Informed(l)' =>
           \E o \in Object : impl[o].listener = l /\ impl[o].handle = believes[l] /\ Untold(o)]_vars
  BY NextInforms
<1> QED BY <1>1, TypeCorrect, PTL DEF Spec, BeliefsStayTrue

=============================================================================
