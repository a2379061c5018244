----------------------------- MODULE ConfigStore -----------------------------
(***************************************************************************)
(* What the emulator promises its clients, whatever its workers do at the  *)
(* same time: one register per section. A read answers with the content of *)
(* its section at one moment between request and answer; a write that is   *)
(* accepted takes effect as a whole, at one moment, in its own section     *)
(* only, and is answered "success" after that; a write that is refused     *)
(* takes no effect. When the process is killed and started again while no  *)
(* write is being stored, nothing is lost; otherwise every section is      *)
(* still one that could be written.                                        *)
(***************************************************************************)
EXTENDS PacketBuilder

CONSTANT Port

VARIABLES store,         \* store[t]: the content of section t
          pending        \* pending[p]: what is under way to the client of p

vars == <<store, pending>>

Idle           == <<>>
Stored(t, b)   == <<"stored", t, b>>       \* a write took effect, not answered yet
Answer(packet) == <<"answer", packet>>

Init == /\ DOMAIN store = PacketType
        /\ pending = [p \in Port |-> Idle]

Read(p, t) ==
  /\ pending[p] = Idle
  /\ pending' = [pending EXCEPT ![p] = Answer(ResponsePacket(t, store[t]))]
  /\ UNCHANGED store

Refuse(p, t) ==
  /\ pending[p] = Idle
  /\ \E s \in 0..(Success(t) - 1) :
       pending' = [pending EXCEPT ![p] = Answer(StatusPacket(t, s))]
  /\ UNCHANGED store

Write(p, t) ==
  /\ pending[p] = Idle
  /\ Accepted(t, store'[t])
  /\ store'   = [store EXCEPT ![t] = store'[t]]
  /\ pending' = [pending EXCEPT ![p] = Stored(t, store'[t])]

Confirm(p, t) ==
  /\ pending[p] = Stored(t, store[t])
  /\ pending' = [pending EXCEPT ![p] = Answer(StatusPacket(t, Success(t)))]
  /\ UNCHANGED store

(* The answer leaves, or is given up *)
Finish(p) ==
  /\ pending[p] # Idle
  /\ pending' = [pending EXCEPT ![p] = Idle]
  /\ UNCHANGED store

Crash ==
  /\ pending' = [p \in Port |-> Idle]
  /\ DOMAIN store' = PacketType
  /\ \/ UNCHANGED store
     \/ /\ \E p \in Port, t \in ConfigType : pending[p] = Stored(t, store[t])
        /\ \A t \in ConfigType : Accepted(t, store'[t])
        /\ store'[General] = store[General]

Next == \/ Crash
        \/ \E p \in Port :
             \/ Finish(p)
             \/ \E t \in PacketType : Read(p, t)
             \/ \E t \in ConfigType : Refuse(p, t) \/ Write(p, t) \/ Confirm(p, t)

Spec == Init /\ [][Next]_vars

=============================================================================
