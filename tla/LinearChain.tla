----------------------------- MODULE LinearChain -----------------------------
(***************************************************************************)
(* The linear chain 0 .. N-1 of the modes CHAIN and CRAQ, as               *)
(* setup/generate_mode_configs.py lays it out and the client configures    *)
(* it, and the properties the two modes share.                             *)
(***************************************************************************)
EXTENDS ReplicaServer

CONSTANT N          \* the length of the chain

ASSUME ChainAssumption == N \in Nat \ {0} /\ Node = 0 .. N-1

VARIABLE write      \* how far handle_write of each request has come

(* NodeConfig: is_head, is_tail, successor.  The tail has no successor. *)
HeadNode == 0
TailNode == N - 1
IsHead(n) == n = HeadNode
IsTail(n) == n = TailNode
Successor(n) == n + 1
Predecessor(n) == n - 1

MessageWithoutOrigin(r) == [req |-> r, version |-> write[r].version, origin |-> NoReq]
Message(r) == [req |-> r, version |-> write[r].version, origin |-> HeadNode]

WriteAt(r, pc) == write' = [write EXCEPT ![r].pc = pc]

ChainTypeOK ==
    /\ ServerTypeOK
    /\ write \in [Req -> [pc: {"idle", "rejected", "assigned", "recorded",
                               "committed", "returned"},
                          version: Nat]]

ChainInit == /\ ServerInit
             /\ write = [r \in Req |-> [pc |-> "idle", version |-> 0]]

-----------------------------------------------------------------------------
(* Properties *)

(* No node is ahead of a node before it, whatever the interleaving of the  *)
(* workers and whatever is lost: handle_propagate forwards only what it    *)
(* recorded, and recording never goes back.                                *)
PropagationOrder ==
    \A k \in Key : \A i, j \in Node :
        i < j => store[i][k].seen >= store[j][k].seen

(* A version names one write: every replica that holds a version of a key  *)
(* holds the value of the request assigned that version, and no two writes *)
(* of a key share one ("assigns a monotonic per-key version", README.md).  *)
HoldsWrite(k, value, v) ==
    v # 0 => /\ value \in Req
             /\ KeyOf[value] = k
             /\ write[value].version = v
VersionNamesOneWrite ==
    /\ \A n \in Node, k \in Key :
          /\ HoldsWrite(k, store[n][k].seenValue, store[n][k].seen)
          /\ HoldsWrite(k, store[n][k].committedValue, store[n][k].committed)
    /\ \A q, r \in Req :
          KeyOf[q] = KeyOf[r] /\ write[q].version = write[r].version
          /\ write[q].version # 0 => q = r

(* An acknowledged write, or a newer one, is committed at the tail and is  *)
(* on every replica: the end-to-end Ack of the tail means durable.         *)
AckedEverywhere ==
    \A a \in acked :
        LET k == KeyOf[a.req]
        IN  /\ a.version = write[a.req].version
            /\ store[TailNode][k].committed >= a.version
            /\ \A n \in Node : store[n][k].seen >= a.version

(* The promise to the clients: the chain is the register whose committed   *)
(* value is the tail's.                                                    *)
Abs == INSTANCE CommittedRegister WITH
          version   <- [r \in Req |-> write[r].version],
          committed <- [k \in Key |->
                          [version |-> store[TailNode][k].committed,
                           value   |-> store[TailNode][k].committedValue]]

Register == Abs!Spec

-----------------------------------------------------------------------------
(* Parts of the inductive invariants *)

Recorded(n, m) == store[n][KeyOf[m.req]].seen >= m.version
Committed(m) == store[TailNode][KeyOf[m.req]].committed >= m.version
Genuine(m) == m.version # 0 /\ m.version = write[m.req].version

CommittedIsSeen ==
    \A n \in Node, k \in Key : store[n][k].committed <= store[n][k].seen

VersionsBelowNext ==
    \A r \in Req : write[r].version <= store[HeadNode][KeyOf[r]].next

(* The counter of the head never skips a version. *)
NextIsAssigned ==
    \A k \in Key : store[HeadNode][k].next # 0 =>
        \E r \in Req : KeyOf[r] = k /\ write[r].version = store[HeadNode][k].next

(* A key without a version has no value either. *)
UnseenIsEmpty ==
    \A n \in Node, k \in Key : store[n][k].seen = 0 => store[n][k].seenValue = NoReq

AckedCommitted == \A a \in acked : Genuine(a) /\ Committed(a)
=============================================================================
