---------------------------- MODULE SingleServer ----------------------------
(***************************************************************************)
(* A deployment of one server, which is head and tail at once, in whatever *)
(* mode its configuration selects (ChainNodeServiceImpl::Configure and     *)
(* make_strategy, src/src/server/server.cpp).                              *)
(*                                                                         *)
(* Here, and only here, handle_write itself commits and acknowledges:      *)
(* nothing is propagated, and the handlers of concurrent writes race in    *)
(* all their steps.                                                        *)
(***************************************************************************)
EXTENDS ReplicaServer

CONSTANT Reader     \* the client reads, in CRAQ mode

ASSUME SingleAssumption == Node = {0}

VARIABLES mode,                       \* replication_mode of the server
          write, answer,              \* the handlers, as in all modes
          ackQueue, ackRpc, read      \* what CRAQ adds

vars == <<mode, store, queue, rpc, lost, acked, write, answer, ackQueue, ackRpc, read>>

Chain == INSTANCE ChainReplication WITH N <- 1
CRAQ == INSTANCE CRAQReplication WITH N <- 1
CROWN == INSTANCE CROWNReplication WITH
            N <- 1, HeadOf <- [k \in Key |-> 0], Misrouted <- {}

Init ==
    /\ ServerInit
    /\ answer = [k \in Key |-> NotFound]
    /\ ackQueue = [n \in Node |-> <<>>] /\ ackRpc = {}
    /\ read = [i \in Reader |-> CRAQ!IdleRead]
    /\ \/ mode = "CHAIN" /\ Chain!Init
       \/ mode = "CRAQ" /\ CRAQ!Init
       \/ mode = "CROWN" /\ CROWN!Init

Next == \/ mode = "CHAIN" /\ Chain!Next /\ UNCHANGED <<mode, ackQueue, ackRpc, read>>
        \/ mode = "CRAQ" /\ CRAQ!Next /\ UNCHANGED <<mode, answer>>
        \/ mode = "CROWN" /\ CROWN!Next /\ UNCHANGED <<mode, ackQueue, ackRpc, read>>

Spec == Init /\ [][Next]_vars

-----------------------------------------------------------------------------
(* Properties *)

(* In every mode the one server is the register of its committed values:   *)
(* versions are unique and contiguous though assign, record and commit are *)
(* separate steps of concurrent handlers, a commit never goes back, and a  *)
(* client is told of a write only when it is committed.                    *)
Abs == INSTANCE CommittedRegister WITH
          version   <- [r \in Req |-> write[r].version],
          committed <- [k \in Key |-> [version |-> store[0][k].committed,
                                       value   |-> store[0][k].committedValue]]

Register == Abs!Spec

(* Once every write is answered the last version of each key is committed  *)
(* and nothing waits to be: a handler that records its version after a     *)
(* newer one committed leaves nothing behind.                              *)
AnsweredIsCommitted ==
    (\A r \in Req : write[r].pc = "returned") =>
        \A k \in Key : LET s == store[0][k]
                      IN  /\ s.committed = s.next
                          /\ s.committedValue = s.seenValue
                          /\ s.pending = {}
=============================================================================
