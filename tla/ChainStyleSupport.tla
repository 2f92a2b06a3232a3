-------------------------- MODULE ChainStyleSupport --------------------------
(***************************************************************************)
(* The per-key versioned state every replica keeps                         *)
(* (src/src/replication/common/chain_style_replication_support.{h,cpp}).   *)
(*                                                                         *)
(* The C++ class holds one KeyState per key in by_key_ and updates it      *)
(* under state_mtx_; each operator below is the body of one such critical  *)
(* section, as a function from the old KeyState to the new one.  A key     *)
(* that is absent from by_key_ reads and updates like FreshKey.            *)
(***************************************************************************)
EXTENDS Naturals, ClientRequests

(* struct KeyState: next_version, latest_seen_version, latest_seen_value,  *)
(* committed_version, committed_value, pending_versions.                   *)
KeyState == [next: Nat,
             seen: Nat,      seenValue: Req \cup {NoReq},
             committed: Nat, committedValue: Req \cup {NoReq},
             pending: SUBSET [version: Nat, value: Req]]

FreshKey == [next |-> 0, seen |-> 0, seenValue |-> NoReq,
             committed |-> 0, committedValue |-> NoReq, pending |-> {}]

(* struct LatestReplicaValue, the result of a read of the local state *)
NotFound == [found |-> FALSE, value |-> NoReq, version |-> 0]
Found(x, v) == [found |-> TRUE, value |-> x, version |-> v]

Later(a, b) == IF a >= b THEN a ELSE b

-----------------------------------------------------------------------------
(* Writers *)

(* assign_next_version: the version assigned is the new value of next. *)
BadAssignNextVersion(s) == [s EXCEPT !.next = s.seen + 1]
AssignNextVersion(s) == [s EXCEPT !.next = @ + 1]

(* record_local_write (CRAQ): every version is kept as pending. *)
BadRecordLocalWrite(s, x, v) ==
    [s EXCEPT !.next = Later(@, v), !.seen = Later(@, v),
              !.seenValue = IF v >= s.seen THEN x ELSE @,
              !.pending = IF v >= s.seen THEN {[version |-> v, value |-> x]} ELSE @]
RecordLocalWrite(s, x, v) ==
    [s EXCEPT !.next = Later(@, v),
              !.pending = {p \in @ : p.version # v}
                            \cup {[version |-> v, value |-> x]},
              !.seen = Later(@, v),
              !.seenValue = IF v >= s.seen THEN x ELSE @]

(* record_local_write_if_newer (CHAIN, CROWN): only the latest version is  *)
(* kept.                                                                   *)
BadRecordLocalWriteIfNewer(s, x, v) ==
    [s EXCEPT !.next = Later(@, v), !.seen = v, !.seenValue = x]
RecordLocalWriteIfNewer(s, x, v) ==
    [s EXCEPT !.next = Later(@, v),
              !.seen = Later(@, v),
              !.seenValue = IF v > s.seen THEN x ELSE @]

(* The loop both mark_* functions end with: drop what is already committed. *)
Prune(s) == [s EXCEPT !.pending = {p \in @ : p.version > s.committed}]

(* mark_version_clean (CRAQ): a version becomes the clean one only if its  *)
(* value is still pending here and it is not older than the clean one.     *)
BadMarkVersionClean(s, v) ==
    LET hit == {p \in s.pending : p.version = v}
    IN  IF hit = {} THEN s
        ELSE Prune([s EXCEPT !.committed = v,
                             !.committedValue = (CHOOSE p \in hit : TRUE).value])
LeakyMarkVersionClean(s, v) ==
    LET hit == {p \in s.pending : p.version = v}
    IN  IF hit = {} \/ v < s.committed THEN s
        ELSE [s EXCEPT !.committed = v,
                       !.committedValue = (CHOOSE p \in hit : TRUE).value,
                       !.pending = @ \ hit]
MarkVersionClean(s, v) ==
    LET hit   == {p \in s.pending : p.version = v}
        noted == [s EXCEPT !.next = Later(@, v)]
        clean == IF hit # {} /\ v >= s.committed
                 THEN [noted EXCEPT !.committed = v,
                                    !.committedValue = (CHOOSE p \in hit : TRUE).value]
                 ELSE noted
    IN  IF clean.committed = 0 THEN clean ELSE Prune(clean)

(* mark_version_committed_if_newer (CHAIN, CROWN) *)
BadMarkVersionCommittedIfNewer(s, x, v) ==
    Prune([s EXCEPT !.next = Later(@, v), !.committed = v, !.committedValue = x])
MarkVersionCommittedIfNotOlder(s, x, v) ==
    Prune([s EXCEPT !.next = Later(@, v),
                    !.committed = Later(@, v),
                    !.committedValue = IF v >= s.committed THEN x ELSE @,
                    !.seen = Later(@, v),
                    !.seenValue = IF v > s.seen THEN x ELSE @])
MarkVersionCommittedIfNewer(s, x, v) ==
    Prune([s EXCEPT !.next = Later(@, v),
                    !.committed = Later(@, v),
                    !.committedValue = IF v > s.committed THEN x ELSE @,
                    !.seen = Later(@, v),
                    !.seenValue = IF v > s.seen THEN x ELSE @])

-----------------------------------------------------------------------------
(* Readers *)

(* read_committed and read_clean have the same body. *)
ReadCommitted(s) == IF s.committed = 0 THEN NotFound
                    ELSE Found(s.committedValue, s.committed)
ReadClean(s) == ReadCommitted(s)

(* read_latest_seen *)
ReadLatestSeen(s) == IF s.seen = 0 THEN NotFound ELSE Found(s.seenValue, s.seen)

(* read_value_at_version: false when the version is neither the clean one  *)
(* nor pending.                                                            *)
ReadValueAtVersion(s, v) ==
    LET hit == {p \in s.pending : p.version = v}
    IN  CASE v = 0               -> NotFound
          [] v # 0 /\ s.committed = v -> Found(s.committedValue, v)
          [] v # 0 /\ s.committed # v /\ hit = {} -> NotFound
          [] OTHER               -> Found((CHOOSE p \in hit : TRUE).value, v)
=============================================================================
