-------------------------- MODULE CommittedRegister --------------------------
(***************************************************************************)
(* What a replication mode promises its clients, without replicas: every   *)
(* key is a register whose committed version only grows, every write gets  *)
(* a version of its own, and a write is acknowledged once a version at     *)
(* least as new as its own is committed.  README.md, "CHAIN/CROWN write    *)
(* and commit semantics in this repo".                                     *)
(***************************************************************************)
EXTENDS Naturals, ClientRequests

VARIABLES version,    \* the version each request was given, 0 before
          committed,  \* the committed version and value of each key
          acked       \* the acknowledgements the clients received

vars == <<version, committed, acked>>

Init == /\ version = [r \in Req |-> 0]
        /\ committed = [k \in Key |-> [version |-> 0, value |-> NoReq]]
        /\ acked = {}

(* A write is accepted: it gets the successor of the newest version of its *)
(* key, so that versions are unique, growing and contiguous.               *)
Accept(r) ==
    LET mine   == version'[r]
        others == {q \in Req : KeyOf[q] = KeyOf[r] /\ version[q] # 0}
    IN  /\ version[r] = 0
        /\ mine # 0
        /\ \A q \in others : version[q] < mine
        /\ mine = 1 \/ \E q \in others : version[q] + 1 = mine
        /\ version' = [version EXCEPT ![r] = mine]
        /\ UNCHANGED <<committed, acked>>

(* An accepted write becomes the committed value of its key.  Versions may *)
(* be skipped, never revisited.                                            *)
Commit(r) ==
    /\ version[r] > committed[KeyOf[r]].version
    /\ committed' = [committed EXCEPT ![KeyOf[r]] =
                        [version |-> version[r], value |-> r]]
    /\ UNCHANGED <<version, acked>>

Acknowledge(r) ==
    /\ version[r] # 0
    /\ version[r] <= committed[KeyOf[r]].version
    /\ acked' = acked \cup {[req |-> r, version |-> version[r]]}
    /\ UNCHANGED <<version, committed>>

Next == \E r \in Req : Accept(r) \/ Commit(r) \/ Acknowledge(r)

Spec == Init /\ [][Next]_vars
=============================================================================
