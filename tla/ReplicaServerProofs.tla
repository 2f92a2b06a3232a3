------------------------- MODULE ReplicaServerProofs -------------------------
(***************************************************************************)
(* What the servers of every mode share, proved once.  The critical        *)
(* sections of ChainStyleSupport: what they preserve, for every state,     *)
(* value and version; the proofs about the modes cite these lemmas and     *)
(* never expand the operators again.  The store of a server: what a record *)
(* or a commit raises in it.  The steps of the dispatcher: what they do to *)
(* the tasks and the calls of the nodes, for every queue and pool of       *)
(* workers.                                                                *)
(***************************************************************************)
EXTENDS ReplicaServer, TLAPS

(* A key starts without versions. *)
LEMMA FreshKeyType == FreshKey \in KeyState
  BY DEF FreshKey, KeyState

(* assign_next_version gives out a version above the counter and touches   *)
(* nothing else.                                                           *)
LEMMA AssignNextVersionEffect ==
  ASSUME NEW s \in KeyState
  PROVE  LET t == AssignNextVersion(s)
         IN  /\ t \in KeyState
             /\ t.next = s.next + 1
             /\ t.seen = s.seen /\ t.seenValue = s.seenValue
             /\ t.committed = s.committed /\ t.committedValue = s.committedValue
             /\ t.pending = s.pending
  BY DEF AssignNextVersion, KeyState

(* record_local_write_if_newer never goes back, ends at or above the       *)
(* version recorded and leaves the committed value alone.                  *)
LEMMA RecordIfNewerEffect ==
  ASSUME NEW s \in KeyState, NEW x \in Req, NEW v \in Nat
  PROVE  LET t == RecordLocalWriteIfNewer(s, x, v)
         IN  /\ t \in KeyState
             /\ t.next >= s.next /\ t.next \in {s.next, v}
             /\ t.seen >= s.seen /\ t.seen >= v
             /\ \/ t.seen = s.seen /\ t.seenValue = s.seenValue
                \/ t.seen = v /\ t.seenValue = x
             /\ t.committed = s.committed /\ t.committedValue = s.committedValue
             /\ t.pending = s.pending
  <1> DEFINE t == RecordLocalWriteIfNewer(s, x, v)
  <1>1. s.next \in Nat /\ s.seen \in Nat
    BY DEF KeyState
  <1>2. /\ t.next = Later(s.next, v)
        /\ t.seen = Later(s.seen, v)
        /\ t.seenValue = IF v > s.seen THEN x ELSE s.seenValue
        /\ t.committed = s.committed /\ t.committedValue = s.committedValue
        /\ t.pending = s.pending
    BY DEF RecordLocalWriteIfNewer, KeyState
  <1>3. t \in KeyState
    BY DEF RecordLocalWriteIfNewer, KeyState, Later
  <1> HIDE DEF t
  <1>4. /\ t.next >= s.next /\ t.next \in {s.next, v}
        /\ t.seen >= s.seen /\ t.seen >= v
        /\ \/ t.seen = s.seen /\ t.seenValue = s.seenValue
           \/ t.seen = v /\ t.seenValue = x
    BY <1>1, <1>2 DEF Later
  <1> QED
    BY <1>2, <1>3, <1>4 DEF t

(* mark_version_committed_if_newer never goes back and ends with both the  *)
(* committed and the latest version at or above the one marked.            *)
LEMMA MarkCommittedEffect ==
  ASSUME NEW s \in KeyState, NEW x \in Req, NEW v \in Nat
  PROVE  LET t == MarkVersionCommittedIfNewer(s, x, v)
         IN  /\ t \in KeyState
             /\ t.next >= s.next /\ t.next \in {s.next, v}
             /\ t.seen >= s.seen /\ t.seen >= v
             /\ \/ t.seen = s.seen /\ t.seenValue = s.seenValue
                \/ t.seen = v /\ t.seenValue = x
             /\ t.committed >= s.committed /\ t.committed >= v
             /\ \/ t.committed = s.committed /\ t.committedValue = s.committedValue
                \/ t.committed = v /\ t.committedValue = x
             /\ \A p \in t.pending : p \in s.pending /\ p.version > t.committed
  <1> DEFINE u == [s EXCEPT !.next = Later(@, v),
                            !.committed = Later(@, v),
                            !.committedValue = IF v > s.committed THEN x ELSE @,
                            !.seen = Later(@, v),
                            !.seenValue = IF v > s.seen THEN x ELSE @]
  <1>1. /\ u \in KeyState
        /\ u.next = Later(s.next, v)
        /\ u.seen = Later(s.seen, v)
        /\ u.seenValue = IF v > s.seen THEN x ELSE s.seenValue
        /\ u.committed = Later(s.committed, v)
        /\ u.committedValue = IF v > s.committed THEN x ELSE s.committedValue
        /\ u.pending = s.pending
    BY DEF KeyState, Later
  <1> HIDE DEF u
  <1>2. /\ Prune(u) \in KeyState
        /\ Prune(u).next = u.next
        /\ Prune(u).seen = u.seen /\ Prune(u).seenValue = u.seenValue
        /\ Prune(u).committed = u.committed
        /\ Prune(u).committedValue = u.committedValue
        /\ Prune(u).pending = {p \in u.pending : p.version > u.committed}
    BY <1>1 DEF Prune, KeyState
  <1>3. MarkVersionCommittedIfNewer(s, x, v) = Prune(u)
    BY DEF MarkVersionCommittedIfNewer, u
  <1>4. s.next \in Nat /\ s.seen \in Nat /\ s.committed \in Nat
    BY DEF KeyState
  <1> QED
    BY <1>1, <1>2, <1>3, <1>4 DEF Later

(* record_local_write keeps what it had, adds the version as pending and   *)
(* leaves what is clean.                                                   *)
LEMMA RecordLocalWriteEffect ==
  ASSUME NEW s \in KeyState, NEW x \in Req, NEW v \in Nat
  PROVE  LET t == RecordLocalWrite(s, x, v)
         IN  /\ t \in KeyState
             /\ t.next >= s.next /\ t.next \in {s.next, v}
             /\ t.seen >= s.seen /\ t.seen >= v
             /\ \/ t.seen = s.seen /\ t.seenValue = s.seenValue
                \/ t.seen = v /\ t.seenValue = x
             /\ t.committed = s.committed /\ t.committedValue = s.committedValue
             /\ \A p \in t.pending : p \in s.pending \/ (p.version = v /\ p.value = x)
             /\ \E p \in t.pending : p.version = v
             /\ \A p \in s.pending : \E q \in t.pending : q.version = p.version
  <1> DEFINE t   == RecordLocalWrite(s, x, v)
             new == [version |-> v, value |-> x]
  <1>1. s.next \in Nat /\ s.seen \in Nat /\ s.pending \subseteq [version: Nat, value: Req]
    BY DEF KeyState
  <1>2. /\ t.next = Later(s.next, v)
        /\ t.seen = Later(s.seen, v)
        /\ t.seenValue = IF v >= s.seen THEN x ELSE s.seenValue
        /\ t.committed = s.committed /\ t.committedValue = s.committedValue
        /\ t.pending = {p \in s.pending : p.version # v} \cup {new}
    BY DEF RecordLocalWrite, KeyState
  <1>3. new \in [version: Nat, value: Req] /\ new.version = v /\ new.value = x
    OBVIOUS
  <1>4. t \in KeyState
    <2>1. {p \in s.pending : p.version # v} \cup {new} \in SUBSET [version: Nat, value: Req]
      BY <1>1, <1>3
    <2>2. Later(s.next, v) \in Nat /\ Later(s.seen, v) \in Nat
      BY <1>1 DEF Later
    <2> HIDE DEF new
    <2> QED
      BY <2>1, <2>2 DEF RecordLocalWrite, KeyState, new
  <1> HIDE DEF t, new
  <1>5. /\ t.next >= s.next /\ t.next \in {s.next, v}
        /\ t.seen >= s.seen /\ t.seen >= v
        /\ \/ t.seen = s.seen /\ t.seenValue = s.seenValue
           \/ t.seen = v /\ t.seenValue = x
    BY <1>1, <1>2 DEF Later
  <1>6. /\ \A p \in t.pending : p \in s.pending \/ (p.version = v /\ p.value = x)
        /\ \E p \in t.pending : p.version = v
    BY <1>2, <1>3
  <1>7. \A p \in s.pending : \E q \in t.pending : q.version = p.version
    BY <1>2, <1>3
  <1> QED
    BY <1>2, <1>4, <1>5, <1>6, <1>7 DEF t

(* mark_version_clean never goes back.  What it makes clean was pending    *)
(* here, and it drops from pending what is at or below the clean version   *)
(* and nothing else; a version that is here, pending or clean, is then     *)
(* clean.                                                                  *)
LEMMA MarkVersionCleanEffect ==
  ASSUME NEW s \in KeyState, NEW v \in Nat
  PROVE  LET t == MarkVersionClean(s, v)
         IN  /\ t \in KeyState
             /\ t.next >= s.next /\ t.next \in {s.next, v}
             /\ t.seen = s.seen /\ t.seenValue = s.seenValue
             /\ t.committed >= s.committed
             /\ \/ t.committed = s.committed /\ t.committedValue = s.committedValue
                \/ /\ t.committed = v
                   /\ \E p \in s.pending : p.version = v /\ p.value = t.committedValue
             /\ t.pending \subseteq s.pending
             /\ \A p \in s.pending : p \in t.pending \/ t.committed >= p.version
             /\ s.committed >= v \/ (\E p \in s.pending : p.version = v)
                   => t.committed >= v
             /\ t.committed # 0 => \A p \in t.pending : p.version > t.committed
  <1> DEFINE t     == MarkVersionClean(s, v)
             hit   == {p \in s.pending : p.version = v}
             noted == [s EXCEPT !.next = Later(@, v)]
             clean == IF hit # {} /\ v >= s.committed
                      THEN [noted EXCEPT !.committed = v,
                                 !.committedValue = (CHOOSE p \in hit : TRUE).value]
                      ELSE noted
  <1>1. /\ s.next \in Nat /\ s.seen \in Nat /\ s.committed \in Nat
        /\ s.pending \subseteq [version: Nat, value: Req]
    BY DEF KeyState
  <1>2. hit # {} => /\ (CHOOSE p \in hit : TRUE) \in s.pending
                    /\ (CHOOSE p \in hit : TRUE).version = v
                    /\ (CHOOSE p \in hit : TRUE).value \in Req
    BY <1>1
  <1>3. /\ noted \in KeyState
        /\ noted.next = Later(s.next, v) /\ noted.seen = s.seen
        /\ noted.seenValue = s.seenValue /\ noted.committed = s.committed
        /\ noted.committedValue = s.committedValue /\ noted.pending = s.pending
    BY DEF KeyState, Later
  <1> HIDE DEF noted, hit
  <1>4. /\ clean \in KeyState
        /\ clean.next = noted.next /\ clean.seen = noted.seen
        /\ clean.seenValue = noted.seenValue /\ clean.pending = noted.pending
        /\ \/ /\ hit # {} /\ v >= s.committed /\ clean.committed = v
              /\ clean.committedValue = (CHOOSE p \in hit : TRUE).value
           \/ /\ ~(hit # {} /\ v >= s.committed)
              /\ clean.committed = s.committed
              /\ clean.committedValue = s.committedValue
    BY <1>2, <1>3 DEF KeyState
  <1>5. t = IF clean.committed = 0 THEN clean ELSE Prune(clean)
    BY DEF MarkVersionClean, clean, noted, hit
  <1> HIDE DEF clean, t
  <1>6. /\ Prune(clean) \in KeyState
        /\ Prune(clean).next = clean.next /\ Prune(clean).seen = clean.seen
        /\ Prune(clean).seenValue = clean.seenValue
        /\ Prune(clean).committed = clean.committed
        /\ Prune(clean).committedValue = clean.committedValue
        /\ Prune(clean).pending = {p \in clean.pending : p.version > clean.committed}
    BY <1>4 DEF Prune, KeyState
  <1>7. /\ t \in KeyState
        /\ t.next = Later(s.next, v)
        /\ t.seen = s.seen /\ t.seenValue = s.seenValue
        /\ t.committed = clean.committed /\ t.committedValue = clean.committedValue
    BY <1>3, <1>4, <1>5, <1>6
  <1>8. /\ t.committed >= s.committed
        /\ \/ t.committed = s.committed /\ t.committedValue = s.committedValue
           \/ /\ t.committed = v
              /\ \E p \in s.pending : p.version = v /\ p.value = t.committedValue
        /\ s.committed >= v \/ hit # {} => t.committed >= v
    BY <1>1, <1>2, <1>4, <1>7
  <1>9. /\ t.pending \subseteq s.pending
        /\ \A p \in s.pending : p \in t.pending \/ t.committed >= p.version
        /\ t.committed # 0 => \A p \in t.pending : p.version > t.committed
    <2>1. CASE clean.committed = 0
      BY <1>3, <1>4, <1>5, <1>7, <2>1
    <2>2. CASE clean.committed # 0
      <3>1. t.pending = {p \in s.pending : p.version > clean.committed}
        BY <1>3, <1>4, <1>5, <1>6, <2>2
      <3>2. clean.committed \in Nat /\ \A p \in s.pending : p.version \in Nat
        BY <1>1, <1>4
      <3> QED
        BY <1>7, <3>1, <3>2
    <2> QED
      BY <2>1, <2>2
  <1>10. t.next >= s.next /\ t.next \in {s.next, v}
    BY <1>1, <1>7 DEF Later
  <1> QED
    BY <1>7, <1>8, <1>9, <1>10 DEF t, hit

(* The answers of the readers *)
LEMMA ReadCleanEffect ==
  ASSUME NEW s \in KeyState
  PROVE  LET a == ReadClean(s)
         IN  /\ a \in [found: BOOLEAN, value: Req \cup {NoReq}, version: Nat]
             /\ a.version = s.committed
             /\ a.found <=> s.committed # 0
             /\ a.found => a.value = s.committedValue
  BY DEF ReadClean, ReadCommitted, NotFound, Found, KeyState

LEMMA ReadLatestSeenEffect ==
  ASSUME NEW s \in KeyState
  PROVE  LET a == ReadLatestSeen(s)
         IN  a.version = s.seen /\ (a.found <=> s.seen # 0)
  BY DEF ReadLatestSeen, NotFound, Found, KeyState

LEMMA ReadValueAtVersionEffect ==
  ASSUME NEW s \in KeyState, NEW v \in Nat, v # 0
  PROVE  LET a == ReadValueAtVersion(s, v)
         IN  /\ a \in [found: BOOLEAN, value: Req \cup {NoReq}, version: Nat]
             /\ a.found => /\ a = Found(a.value, v)
                           /\ \/ s.committed = v /\ a.value = s.committedValue
                              \/ \E p \in s.pending : p.version = v /\ p.value = a.value
             /\ ~a.found => /\ s.committed # v
                            /\ \A p \in s.pending : p.version # v
  <1> DEFINE hit == {p \in s.pending : p.version = v}
             a   == ReadValueAtVersion(s, v)
  <1>1. CASE s.committed = v
    <2>1. a = Found(s.committedValue, v)
      BY <1>1 DEF ReadValueAtVersion
    <2> QED
      BY <1>1, <2>1 DEF Found, KeyState
  <1>2. CASE s.committed # v /\ hit = {}
    <2>1. a = NotFound
      BY <1>2 DEF ReadValueAtVersion
    <2> QED
      BY <1>2, <2>1 DEF NotFound
  <1>3. CASE s.committed # v /\ hit # {}
    <2> DEFINE p == CHOOSE p \in hit : TRUE
    <2>1. p \in s.pending /\ p.version = v /\ p.value \in Req
      BY <1>3 DEF KeyState
    <2>2. a = Found(p.value, v)
      BY <1>3 DEF ReadValueAtVersion
    <2> HIDE DEF p
    <2> QED
      BY <2>1, <2>2 DEF Found
  <1> QED
    BY <1>1, <1>2, <1>3

-----------------------------------------------------------------------------
(* The store: every mode keeps one key state per node and key, and a       *)
(* critical section replaces one of them.                                  *)

StoreOK == store \in [Node -> [Key -> KeyState]]

(* A critical section of n changes its own key only. *)
LEMMA UpdateKeyEffect ==
  ASSUME StoreOK, NEW n \in Node, NEW k \in Key, NEW s \in KeyState,
         UpdateKey(n, k, s)
  PROVE  /\ StoreOK'
         /\ store'[n][k] = s
         /\ \A m \in Node, j \in Key :
               m # n \/ j # k => store'[m][j] = store[m][j]
  BY DEF UpdateKey, StoreOK

(* A key state of the next state is at or above the one it replaces. *)
AtOrAbove(t, s) == t.next >= s.next /\ t.seen >= s.seen /\ t.committed >= s.committed

StoreGrows == \A n \in Node, k \in Key : AtOrAbove(store'[n][k], store[n][k])

(* Only key k of node n may have changed, and if so to a state at or above *)
(* version v, whose values are the old ones or r at version v.             *)
Raised(n, k, r, v) ==
    /\ StoreGrows
    /\ store'[n][k].next \in {store[n][k].next, v}
    /\ store'[n][k].seen >= v
    /\ \/ /\ store'[n][k].seen = store[n][k].seen
          /\ store'[n][k].seenValue = store[n][k].seenValue
       \/ store'[n][k].seen = v /\ store'[n][k].seenValue = r
    /\ \/ /\ store'[n][k].committed = store[n][k].committed
          /\ store'[n][k].committedValue = store[n][k].committedValue
       \/ store'[n][k].committed = v /\ store'[n][k].committedValue = r
    /\ \A m \in Node, j \in Key : m # n \/ j # k => store'[m][j] = store[m][j]

(* The numbers of a key state *)
LEMMA KeyStateFields ==
  ASSUME NEW s \in KeyState
  PROVE  /\ s.next \in Nat /\ s.seen \in Nat /\ s.committed \in Nat
         /\ \A p \in s.pending : p.version \in Nat
  BY DEF KeyState

(* Recording a version raises one key and leaves what is committed. *)
LEMMA RecordRaises ==
  ASSUME StoreOK, NEW n \in Node, NEW r \in Req, NEW v \in Nat,
         UpdateKey(n, KeyOf[r], RecordLocalWriteIfNewer(store[n][KeyOf[r]], r, v))
  PROVE  /\ Raised(n, KeyOf[r], r, v)
         /\ store'[n][KeyOf[r]].committed = store[n][KeyOf[r]].committed
  <1> DEFINE k == KeyOf[r]
             t == RecordLocalWriteIfNewer(store[n][k], r, v)
  <1>1. k \in Key /\ store[n][k] \in KeyState
    BY KeyOfAssumption DEF StoreOK
  <1>2. /\ t \in KeyState
        /\ t.next >= store[n][k].next /\ t.next \in {store[n][k].next, v}
        /\ t.seen >= store[n][k].seen /\ t.seen >= v
        /\ \/ t.seen = store[n][k].seen /\ t.seenValue = store[n][k].seenValue
           \/ t.seen = v /\ t.seenValue = r
        /\ t.committed = store[n][k].committed
        /\ t.committedValue = store[n][k].committedValue
    BY <1>1, RecordIfNewerEffect
  <1>3. UpdateKey(n, k, t)
    OBVIOUS
  <1> HIDE DEF t
  <1>4. /\ store'[n][k] = t
        /\ \A m \in Node, j \in Key : m # n \/ j # k => store'[m][j] = store[m][j]
    BY <1>1, <1>2, <1>3, UpdateKeyEffect
  <1>5. \A m \in Node, j \in Key :
           /\ store[m][j].next \in Nat /\ store[m][j].seen \in Nat
           /\ store[m][j].committed \in Nat
    BY KeyStateFields DEF StoreOK
  <1>6. StoreGrows
    BY <1>1, <1>2, <1>4, <1>5 DEF StoreGrows, AtOrAbove
  <1> QED
    BY <1>2, <1>4, <1>6 DEF Raised

(* Committing a version raises one key, its committed version included. *)
LEMMA CommitRaises ==
  ASSUME StoreOK, NEW n \in Node, NEW r \in Req, NEW v \in Nat,
         UpdateKey(n, KeyOf[r], MarkVersionCommittedIfNewer(store[n][KeyOf[r]], r, v))
  PROVE  /\ Raised(n, KeyOf[r], r, v)
         /\ store'[n][KeyOf[r]].committed >= v
  <1> DEFINE k == KeyOf[r]
             t == MarkVersionCommittedIfNewer(store[n][k], r, v)
  <1>1. k \in Key /\ store[n][k] \in KeyState
    BY KeyOfAssumption DEF StoreOK
  <1>2. /\ t \in KeyState
        /\ t.next >= store[n][k].next /\ t.next \in {store[n][k].next, v}
        /\ t.seen >= store[n][k].seen /\ t.seen >= v
        /\ \/ t.seen = store[n][k].seen /\ t.seenValue = store[n][k].seenValue
           \/ t.seen = v /\ t.seenValue = r
        /\ t.committed >= store[n][k].committed /\ t.committed >= v
        /\ \/ /\ t.committed = store[n][k].committed
              /\ t.committedValue = store[n][k].committedValue
           \/ t.committed = v /\ t.committedValue = r
    BY <1>1, MarkCommittedEffect
  <1>3. UpdateKey(n, k, t)
    OBVIOUS
  <1> HIDE DEF t
  <1>4. /\ store'[n][k] = t
        /\ \A m \in Node, j \in Key : m # n \/ j # k => store'[m][j] = store[m][j]
    BY <1>1, <1>2, <1>3, UpdateKeyEffect
  <1>5. \A m \in Node, j \in Key :
           /\ store[m][j].next \in Nat /\ store[m][j].seen \in Nat
           /\ store[m][j].committed \in Nat
    BY KeyStateFields DEF StoreOK
  <1>6. StoreGrows
    BY <1>1, <1>2, <1>4, <1>5 DEF StoreGrows, AtOrAbove
  <1> QED
    BY <1>2, <1>4, <1>6 DEF Raised

-----------------------------------------------------------------------------
(* The dispatcher *)

(* enqueue keeps the queues well formed and adds at most the one task. *)
LEMMA EnqueueTasks ==
  ASSUME queue \in [Node -> Seq(PropagateTask)], NEW n \in Node, NEW s \in Node,
         NEW m \in PropagateRequest, Enqueue(n, s, m)
  PROVE  /\ queue' \in [Node -> Seq(PropagateTask)]
         /\ \A p \in Node : \A t \in Tasks(p)' :
               t \in Tasks(p) \/ (p = n /\ t = [successor |-> s, msg |-> m])
  <1> DEFINE new == [successor |-> s, msg |-> m]
  <1>1. new \in PropagateTask
    BY DEF PropagateTask
  <1>2. queue \in [Node -> Seq(PropagateTask)]
    OBVIOUS
  <1>3. queue' = [queue EXCEPT ![n] = Append(@, new)]
    BY DEF Enqueue
  <1> HIDE DEF new
  <1>4. queue' \in [Node -> Seq(PropagateTask)]
    BY <1>1, <1>2, <1>3
  <1>5. ASSUME NEW p \in Node, NEW t \in Tasks(p)'
        PROVE  t \in Tasks(p) \/ (p = n /\ t = new)
    <2>1. PICK i \in 1 .. Len(queue'[p]) : t = queue'[p][i]
      BY <1>5 DEF Tasks
    <2>2. CASE p # n
      BY <1>2, <1>3, <2>1, <2>2 DEF Tasks
    <2>3. CASE p = n
      <3>1. queue'[p] = Append(queue[n], new)
        BY <1>2, <1>3, <2>3
      <3>2. queue[n] \in Seq(PropagateTask)
        BY <1>2
      <3>3. Len(queue'[p]) = Len(queue[n]) + 1
        BY <1>1, <3>1, <3>2
      <3>4. CASE i = Len(queue[n]) + 1
        BY <1>1, <2>1, <2>3, <3>1, <3>2, <3>4
      <3>5. CASE i \in 1 .. Len(queue[n])
        BY <1>1, <2>1, <2>3, <3>1, <3>2, <3>5 DEF Tasks
      <3> QED
        BY <2>1, <3>2, <3>3, <3>4, <3>5
    <2> QED
      BY <2>2, <2>3
  <1> QED
    BY <1>4, <1>5 DEF new

LEMMA EnqueueEffect ==
  ASSUME DispatcherTypeOK, NEW n \in Node, NEW s \in Node,
         NEW m \in PropagateRequest, Enqueue(n, s, m)
  PROVE  /\ queue' \in [Node -> Seq(PropagateTask)]
         /\ \A p \in Node : \A t \in Tasks(p)' :
               t \in Tasks(p) \/ (p = n /\ t = [successor |-> s, msg |-> m])
  BY EnqueueTasks DEF DispatcherTypeOK

(* The tasks of a queue are tasks. *)
LEMMA TasksType ==
  ASSUME queue \in [Node -> Seq(PropagateTask)], NEW n \in Node
  PROVE  Tasks(n) \subseteq PropagateTask
  BY DEF Tasks

(* What a worker does with the front task, however large its pool is *)
TakesFront(n) ==
    /\ queue[n] # <<>>
    /\ LET t == Head(queue[n])
       IN  rpc' = rpc \cup {[from |-> n, to |-> t.successor, msg |-> t.msg,
                             pc |-> "sent", held |-> TRUE]}
    /\ queue' = [queue EXCEPT ![n] = Tail(@)]

(* A worker turns one task of its node into a call and leaves the rest. *)
LEMMA TakesFrontTasks ==
  ASSUME queue \in [Node -> Seq(PropagateTask)], NEW n \in Node, TakesFront(n)
  PROVE  /\ queue' \in [Node -> Seq(PropagateTask)]
         /\ \A p \in Node : Tasks(p)' \subseteq Tasks(p)
         /\ \E t \in Tasks(n) :
               rpc' = rpc \cup {[from |-> n, to |-> t.successor, msg |-> t.msg,
                                 pc |-> "sent", held |-> TRUE]}
  <1>1. queue \in [Node -> Seq(PropagateTask)] /\ queue[n] \in Seq(PropagateTask)
    OBVIOUS
  <1>2. queue[n] # <<>>
    BY DEF TakesFront
  <1>3. queue' = [queue EXCEPT ![n] = Tail(@)]
    BY DEF TakesFront
  <1>4. Tail(queue[n]) \in Seq(PropagateTask)
    BY <1>1, <1>2
  <1>5. queue' \in [Node -> Seq(PropagateTask)]
    BY <1>1, <1>3, <1>4
  <1>6. 1 \in 1 .. Len(queue[n]) /\ Head(queue[n]) = queue[n][1]
    BY <1>1, <1>2
  <1>7. Head(queue[n]) \in Tasks(n) /\ Head(queue[n]) \in PropagateTask
    BY <1>1, <1>2, <1>6 DEF Tasks
  <1>8. rpc' = rpc \cup {[from |-> n, to |-> Head(queue[n]).successor,
                          msg |-> Head(queue[n]).msg,
                          pc |-> "sent", held |-> TRUE]}
    BY DEF TakesFront
  <1>9. ASSUME NEW p \in Node, NEW t \in Tasks(p)' PROVE t \in Tasks(p)
    <2>1. PICK i \in 1 .. Len(queue'[p]) : t = queue'[p][i]
      BY <1>9 DEF Tasks
    <2>2. CASE p # n
      BY <1>1, <1>3, <2>1, <2>2 DEF Tasks
    <2>3. CASE p = n
      <3>1. queue'[p] = Tail(queue[n])
        BY <1>1, <1>3, <2>3
      <3>2. i + 1 \in 1 .. Len(queue[n]) /\ t = queue[n][i + 1]
        BY <1>1, <1>2, <2>1, <3>1
      <3> QED
        BY <2>3, <3>2 DEF Tasks
    <2> QED
      BY <2>2, <2>3
  <1> QED
    BY <1>5, <1>7, <1>8, <1>9

LEMMA TakesFrontEffect ==
  ASSUME DispatcherTypeOK, NEW n \in Node, TakesFront(n)
  PROVE  /\ queue' \in [Node -> Seq(PropagateTask)] /\ rpc' \subseteq Call
         /\ \A p \in Node : Tasks(p)' \subseteq Tasks(p)
         /\ \E t \in Tasks(n) :
               rpc' = rpc \cup {[from |-> n, to |-> t.successor, msg |-> t.msg,
                                 pc |-> "sent", held |-> TRUE]}
  <1>1. queue \in [Node -> Seq(PropagateTask)] /\ rpc \subseteq Call
    BY DEF DispatcherTypeOK
  <1>2. \A t \in Tasks(n) :
           [from |-> n, to |-> t.successor, msg |-> t.msg,
            pc |-> "sent", held |-> TRUE] \in Call
    BY <1>1, TasksType DEF PropagateTask, Call
  <1> QED
    BY <1>1, <1>2, TakesFrontTasks

LEMMA WorkerSendEffect ==
  ASSUME DispatcherTypeOK, NEW n \in Node, WorkerSend(n)
  PROVE  /\ queue' \in [Node -> Seq(PropagateTask)] /\ rpc' \subseteq Call
         /\ \A p \in Node : Tasks(p)' \subseteq Tasks(p)
         /\ \E t \in Tasks(n) :
               rpc' = rpc \cup {[from |-> n, to |-> t.successor, msg |-> t.msg,
                                 pc |-> "sent", held |-> TRUE]}
  BY TakesFrontEffect DEF WorkerSend, TakesFront

(* A call that fails, for its handler or only for its caller, changes no   *)
(* queue, and every call left was there before but for held.               *)
LEMMA CallFailsEffect ==
  ASSUME DispatcherTypeOK, NEW c \in rpc, RpcLost(c) \/ RpcAbandoned(c)
  PROVE  /\ DispatcherTypeOK'
         /\ queue' = queue
         /\ \A d \in rpc' : \E b \in rpc :
               /\ d.from = b.from /\ d.to = b.to /\ d.msg = b.msg /\ d.pc = b.pc
  <1>1. c \in Call
    BY DEF DispatcherTypeOK
  <1> DEFINE e == [c EXCEPT !.held = FALSE]
  <1>2. /\ e \in Call
        /\ e.from = c.from /\ e.to = c.to /\ e.msg = c.msg /\ e.pc = c.pc
    BY <1>1 DEF Call
  <1>3. queue' = queue /\ lost' \in BOOLEAN
    BY DEF RpcLost, RpcAbandoned, DispatcherTypeOK
  <1>4. rpc' \subseteq rpc \cup {e}
    BY DEF RpcLost, RpcAbandoned
  <1> HIDE DEF e
  <1> QED
    BY <1>2, <1>3, <1>4 DEF DispatcherTypeOK

(* A step of a handler moves only its own call. *)
LEMMA AdvanceEffect ==
  ASSUME DispatcherTypeOK, NEW c \in rpc,
         NEW pc \in {"sent", "recorded", "committed", "acked"}, Advance(c, pc)
  PROVE  /\ rpc' \subseteq Call
         /\ \A d \in rpc' : \/ d \in rpc
                            \/ /\ d.from = c.from /\ d.to = c.to
                               /\ d.msg = c.msg /\ d.pc = pc
  <1>1. c \in Call
    BY DEF DispatcherTypeOK
  <1> DEFINE e == [c EXCEPT !.pc = pc]
  <1>2. /\ e \in Call
        /\ e.from = c.from /\ e.to = c.to /\ e.msg = c.msg /\ e.pc = pc
    BY <1>1 DEF Call
  <1>3. rpc' \subseteq rpc \cup {e}
    BY DEF Advance
  <1> HIDE DEF e
  <1> QED
    BY <1>2, <1>3 DEF DispatcherTypeOK

-----------------------------------------------------------------------------
(* Nothing is forgotten: the same steps, read from the tasks and calls     *)
(* there were before.                                                      *)

(* enqueue drops no task, and the new one is there. *)
LEMMA EnqueueKeeps ==
  ASSUME DispatcherTypeOK, NEW n \in Node, NEW s \in Node,
         NEW m \in PropagateRequest, Enqueue(n, s, m)
  PROVE  /\ \A p \in Node : Tasks(p) \subseteq Tasks(p)'
         /\ [successor |-> s, msg |-> m] \in Tasks(n)'
  <1> DEFINE new == [successor |-> s, msg |-> m]
  <1>1. new \in PropagateTask
    BY DEF PropagateTask
  <1>2. queue \in [Node -> Seq(PropagateTask)] /\ queue[n] \in Seq(PropagateTask)
    BY DEF DispatcherTypeOK
  <1>3. queue' = [queue EXCEPT ![n] = Append(@, new)]
    BY DEF Enqueue
  <1> HIDE DEF new
  <1>4. queue'[n] = Append(queue[n], new)
    BY <1>2, <1>3
  <1>5. /\ Len(queue'[n]) = Len(queue[n]) + 1
        /\ queue'[n][Len(queue[n]) + 1] = new
        /\ \A i \in 1 .. Len(queue[n]) : queue'[n][i] = queue[n][i]
        /\ Len(queue[n]) \in Nat
    BY <1>1, <1>2, <1>4
  <1>6. new \in Tasks(n)'
    BY <1>5 DEF Tasks
  <1>7. ASSUME NEW p \in Node, NEW t \in Tasks(p) PROVE t \in Tasks(p)'
    <2>1. PICK i \in 1 .. Len(queue[p]) : t = queue[p][i]
      BY <1>7 DEF Tasks
    <2>2. CASE p # n
      BY <1>2, <1>3, <2>1, <2>2 DEF Tasks
    <2>3. CASE p = n
      BY <1>5, <2>1, <2>3 DEF Tasks
    <2> QED
      BY <2>2, <2>3
  <1> QED
    BY <1>6, <1>7 DEF new

(* A task that leaves the queue is a call now, and no call ends. *)
LEMMA TakesFrontKeeps ==
  ASSUME DispatcherTypeOK, NEW n \in Node, TakesFront(n)
  PROVE  /\ rpc \subseteq rpc'
         /\ \A p \in Node : \A t \in Tasks(p) :
               \/ t \in Tasks(p)'
               \/ [from |-> p, to |-> t.successor, msg |-> t.msg,
                   pc |-> "sent", held |-> TRUE] \in rpc'
  <1>1. queue \in [Node -> Seq(PropagateTask)] /\ queue[n] \in Seq(PropagateTask)
    BY DEF DispatcherTypeOK
  <1>2. /\ queue[n] # <<>>
        /\ queue' = [queue EXCEPT ![n] = Tail(@)]
        /\ rpc' = rpc \cup {[from |-> n, to |-> Head(queue[n]).successor,
                            msg |-> Head(queue[n]).msg,
                            pc |-> "sent", held |-> TRUE]}
    BY DEF TakesFront
  <1>3. ASSUME NEW p \in Node, NEW t \in Tasks(p), t \notin Tasks(p)'
        PROVE  p = n /\ t = Head(queue[n])
    <2>1. PICK i \in 1 .. Len(queue[p]) : t = queue[p][i]
      BY <1>3 DEF Tasks
    <2>2. CASE p # n
      BY <1>1, <1>2, <1>3, <2>1, <2>2 DEF Tasks
    <2>3. CASE p = n /\ i = 1
      BY <1>1, <1>2, <2>1, <2>3
    <2>4. CASE p = n /\ i # 1
      <3>1. queue'[n] = Tail(queue[n])
        BY <1>1, <1>2
      <3>2. i - 1 \in 1 .. Len(queue'[n]) /\ queue'[n][i - 1] = queue[n][i]
        BY <1>1, <1>2, <2>1, <2>4, <3>1
      <3> QED
        BY <1>3, <2>1, <2>4, <3>2 DEF Tasks
    <2> QED
      BY <2>2, <2>3, <2>4
  <1> QED
    BY <1>2, <1>3

LEMMA WorkerSendKeeps ==
  ASSUME DispatcherTypeOK, NEW n \in Node, WorkerSend(n)
  PROVE  /\ rpc \subseteq rpc'
         /\ \A p \in Node : \A t \in Tasks(p) :
               \/ t \in Tasks(p)'
               \/ [from |-> p, to |-> t.successor, msg |-> t.msg,
                   pc |-> "sent", held |-> TRUE] \in rpc'
  BY TakesFrontKeeps DEF WorkerSend, TakesFront

(* A handler that advances keeps its call, and the others stay. *)
LEMMA AdvanceKeeps ==
  ASSUME DispatcherTypeOK, NEW c \in rpc,
         NEW pc \in {"sent", "recorded", "committed", "acked"}, Advance(c, pc)
  PROVE  /\ \A d \in rpc : d # c => d \in rpc'
         /\ \E e \in rpc' : /\ e.from = c.from /\ e.to = c.to
                           /\ e.msg = c.msg /\ e.pc = pc
  <1>1. c \in Call
    BY DEF DispatcherTypeOK
  <1> DEFINE e == [c EXCEPT !.pc = pc]
  <1>2. e.from = c.from /\ e.to = c.to /\ e.msg = c.msg /\ e.pc = pc
    BY <1>1 DEF Call
  <1>3. rpc' = (rpc \ {c}) \cup {e}
    BY DEF Advance
  <1> HIDE DEF e
  <1> QED
    BY <1>2, <1>3

(* A call whose caller gave up is still there for its handler. *)
LEMMA AbandonedKeeps ==
  ASSUME DispatcherTypeOK, NEW c \in rpc, RpcAbandoned(c)
  PROVE  \A d \in rpc : \E e \in rpc' :
            e.from = d.from /\ e.to = d.to /\ e.msg = d.msg /\ e.pc = d.pc
  <1>1. c \in Call
    BY DEF DispatcherTypeOK
  <1> DEFINE e == [c EXCEPT !.held = FALSE]
  <1>2. e.from = c.from /\ e.to = c.to /\ e.msg = c.msg /\ e.pc = c.pc
    BY <1>1 DEF Call
  <1>3. rpc' = (rpc \ {c}) \cup {e}
    BY DEF RpcAbandoned
  <1> HIDE DEF e
  <1> QED
    BY <1>2, <1>3
=============================================================================
