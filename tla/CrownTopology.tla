---------------------------- MODULE CrownTopology ----------------------------
(***************************************************************************)
(* How a CROWN ring comes to be and how a write finds its way round it.    *)
(*                                                                         *)
(* The client reads the nodes of a JSON file, checks that they form a ring *)
(* (validate_crown_topology), configures every server with its own index,  *)
(* the size of the ring and the address of its successor, and routes by    *)
(* index.  The servers never see the ring: they forward to the successor   *)
(* until they are the node with the index before the origin's.  Nothing    *)
(* but the client's check keeps a write from circling for ever.            *)
(*                                                                         *)
(* kv_client (src/src/client/kv_client.cpp), which writes or reads one key *)
(* and ends, goes by the same file without that check, and neither it nor  *)
(* a client that is told not to configure waits for the Configure calls to *)
(* be over.  So a write meets servers that have nothing yet, a strategy    *)
(* without its NodeConfig, or a NodeConfig without the stubs.  The ring is *)
(* configured once; what a Configure does to servers that have one already *)
(* is in ServerConfigure.                                                  *)
(***************************************************************************)
EXTENDS Integers, Sequences, FiniteSets, SequencesExt

CONSTANTS Endpoint,    \* host:port strings
          Null,        \* a predecessor or successor the file leaves null
          MaxNodes     \* bound on the nodes of a file

ASSUME TopologyAssumption == MaxNodes \in Nat \ {0} /\ Null \notin Endpoint

VARIABLES phase,   \* where main of the client is
          parsed,  \* the nodes read so far
          tried,   \* how many of them were sent a Configure
          failures, \* whether one of these calls has failed
          server,  \* how far Configure has come on each server, its index,
                   \* the size of the ring and the successor stub
          write    \* the write under way: the index its key hashes to, the
                   \* head's own, the servers it was on and what became of it;
                   \* for the properties: whether it was sent when the client
                   \* was through with the Configure calls, and whether it
                   \* came to a server too early (SendWrite, Propagate)

vars == <<phase, parsed, tried, failures, server, write>>

(* CrownNodeView; ids outside the ring are there to be rejected. *)
NodeView == [id: 0 .. MaxNodes, endpoint: Endpoint,
             predecessor: Endpoint \cup {Null}, successor: Endpoint \cup {Null}]

(* server.cpp: no strategy_, and the default NodeConfig *)
Unconfigured == [stage |-> "none", index |-> -1, count |-> 0, successor |-> Null]
ServerState == [stage: {"none", "strategy", "config", "ready"},
                index: -1 .. MaxNodes - 1, count: 0 .. MaxNodes,
                successor: Endpoint \cup {Null}]

NoWrite == [index |-> 0, origin |-> 0, path |-> <<>>, pc |-> "idle",
            waited |-> FALSE, early |-> FALSE]
WriteState == [index: 0 .. MaxNodes - 1, origin: -1 .. MaxNodes - 1,
               path: Seq(Endpoint), pc: {"idle", "passing", "committed", "failed"},
               waited: BOOLEAN, early: BOOLEAN]

TypeOK ==
    /\ phase \in {"parsing", "rejected", "configuring", "failed", "serving"}
    /\ parsed \in Seq(NodeView) /\ Len(parsed) <= MaxNodes
    /\ tried \in 0 .. MaxNodes /\ failures \in BOOLEAN
    /\ server \in [Endpoint -> ServerState]
    /\ write \in WriteState

Init ==
    /\ phase = "parsing"
    /\ parsed = <<>> /\ tried = 0 /\ failures = FALSE
    /\ server = [e \in Endpoint |-> Unconfigured]
    /\ write = NoWrite

-----------------------------------------------------------------------------
(* validate_minimal_config and validate_crown_topology *)

Ids(nodes) == {nodes[i].id : i \in DOMAIN nodes}
Endpoints(nodes) == {nodes[i].endpoint : i \in DOMAIN nodes}

(* by_endpoint, by_id *)
At(nodes, e) == nodes[CHOOSE i \in DOMAIN nodes : nodes[i].endpoint = e]
WithId(nodes, id) == nodes[CHOOSE i \in DOMAIN nodes : nodes[i].id = id]

NodeFits(nodes, n) ==
    /\ n.endpoint \notin Endpoints(nodes)
    /\ n.id \notin Ids(nodes)
    /\ n.predecessor # Null /\ n.successor # Null

ParseNode(n) ==
    /\ phase = "parsing"
    /\ Len(parsed) < MaxNodes
    /\ parsed' = Append(parsed, n)
    /\ phase' = IF NodeFits(parsed, n) THEN "parsing" ELSE "rejected"
    /\ UNCHANGED <<tried, failures, server, write>>

NeighboursAgree(nodes) ==
    \A i \in DOMAIN nodes :
        /\ {nodes[i].predecessor, nodes[i].successor} \subseteq Endpoints(nodes)
        /\ At(nodes, nodes[i].predecessor).successor = nodes[i].endpoint
        /\ At(nodes, nodes[i].successor).predecessor = nodes[i].endpoint

(* The endpoint reached after i steps from the front node *)
Walk(nodes) ==
    LET step[i \in 0 .. Len(nodes)] ==
            IF i = 0 THEN nodes[1].endpoint ELSE At(nodes, step[i-1]).successor
    IN  step

WalkCovers(nodes) ==
    LET step == Walk(nodes)
    IN  /\ Cardinality({step[i] : i \in 0 .. Len(nodes) - 1}) = Len(nodes)
        /\ step[Len(nodes)] = step[0]

ValidWithoutWalk(nodes) ==
    /\ nodes # <<>>
    /\ Ids(nodes) = 0 .. Len(nodes) - 1
    /\ NeighboursAgree(nodes)
ValidWithoutNeighbours(nodes) ==
    /\ nodes # <<>>
    /\ Ids(nodes) = 0 .. Len(nodes) - 1
    /\ \A i \in DOMAIN nodes : nodes[i].successor \in Endpoints(nodes)
    /\ WalkCovers(nodes)
Valid(nodes) ==
    /\ nodes # <<>>
    /\ Ids(nodes) = 0 .. Len(nodes) - 1
    /\ NeighboursAgree(nodes)
    /\ WalkCovers(nodes)

EndOfFile ==
    /\ phase = "parsing"
    /\ phase' = IF Valid(parsed) THEN "configuring" ELSE "rejected"
    /\ UNCHANGED <<parsed, tried, failures, server, write>>

-----------------------------------------------------------------------------
(* The Configure calls, one node after another.  A call that fails does    *)
(* not end the loop, but the client then stops without serving a request.  *)

(* The call to the last server tried, if any, is over: it has returned, or *)
(* it has failed, lost on its way or given up while the server may still   *)
(* handle it.                                                              *)
CallOver ==
    \E failed \in BOOLEAN :
        /\ failed => tried > 0
        /\ ~failed /\ tried > 0 => server[parsed[tried].endpoint].stage = "ready"
        /\ failures' = (failures \/ failed)

ConfigureNode ==
    /\ phase = "configuring"
    /\ tried < Len(parsed)
    /\ CallOver
    /\ tried' = tried + 1
    /\ UNCHANGED <<phase, parsed, server, write>>

BuildTopology ==
    /\ phase = "configuring"
    /\ tried = Len(parsed)
    /\ CallOver
    /\ phase' = IF failures' THEN "failed" ELSE "serving"
    /\ UNCHANGED <<parsed, tried, server, write>>

(* Configure on the server of the i-th node, in three steps: the strategy, *)
(* the NodeConfig, the stubs.                                              *)
ConfigureStrategy(i) ==
    /\ i <= tried
    /\ server[parsed[i].endpoint].stage = "none"
    /\ server' = [server EXCEPT ![parsed[i].endpoint].stage = "strategy"]
    /\ UNCHANGED <<phase, parsed, tried, failures, write>>

ConfigureConfig(i) ==
    /\ server[parsed[i].endpoint].stage = "strategy"
    /\ server' = [server EXCEPT ![parsed[i].endpoint] =
                    [stage |-> "config", index |-> parsed[i].id,
                     count |-> Len(parsed), successor |-> @.successor]]
    /\ UNCHANGED <<phase, parsed, tried, failures, write>>

ConfigureStubs(i) ==
    /\ server[parsed[i].endpoint].stage = "config"
    /\ server' = [server EXCEPT ![parsed[i].endpoint] =
                    [stage |-> "ready", index |-> @.index, count |-> @.count,
                     successor |-> parsed[i].successor]]
    /\ UNCHANGED <<phase, parsed, tried, failures, write>>

-----------------------------------------------------------------------------
(* A write: its key's hash decides the head_index. *)

CrownHeadFor(index) == WithId(parsed, index).endpoint
CrownTailFor(index) == WithId(parsed, (index + Len(parsed) - 1) % Len(parsed)).endpoint

(* kv_client: the ids are all it checks. *)
BuildCrownById(nodes) ==
    /\ nodes # <<>>
    /\ \A i \in DOMAIN nodes : nodes[i].id < Len(nodes)
    /\ \A i, j \in DOMAIN nodes : nodes[i].id = nodes[j].id => i = j
KvHead(index) == WithId(parsed, index).endpoint
KvTail(index) == WithId(parsed, (index - 1 + Len(parsed)) % Len(parsed)).endpoint

IsRequestTailByRing(e, origin) ==
    LET next == server[e].successor
    IN  server[e].count <= 1 \/ (next # Null /\ server[next].index = origin)
IsRequestTailNode(e, origin) ==
    \/ server[e].count <= 1
    \/ server[e].index = (origin + server[e].count - 1) % server[e].count

(* A server without a strategy refuses the write.  A head records it;      *)
(* alone in the ring, or before it knows of the ring, it commits it, too.  *)
SendWrite(index, head) ==
    /\ write = NoWrite
    /\ write' = [index |-> index, origin |-> server[head].index, path |-> <<head>>,
                 pc |-> IF server[head].stage = "none" THEN "failed"
                        ELSE IF server[head].count <= 1 THEN "committed" ELSE "passing",
                 waited |-> phase = "serving",
                 early |-> server[head].stage = "strategy"]
    /\ UNCHANGED <<phase, parsed, tried, failures, server>>

(* client validates its file whether or not it is told to configure. *)
Write(index) ==
    /\ phase \in {"configuring", "failed", "serving"}
    /\ SendWrite(index, CrownHeadFor(index))

(* The file of kv_client ends where the model stopped reading it. *)
KvWrite(index) ==
    /\ phase # "parsing"
    /\ BuildCrownById(parsed)
    /\ SendWrite(index, KvHead(index))

(* The server that has the write forwards it, if it has a stub; the        *)
(* successor records it and commits it if it takes itself for the tail, or *)
(* has no strategy and refuses it.                                         *)
Propagate ==
    /\ write.pc = "passing"
    /\ LET to == server[Last(write.path)].successor
       IN  write' = IF to = Null \/ server[to].stage = "none"
                    THEN [write EXCEPT !.pc = "failed"]
                    ELSE [write EXCEPT !.path = Append(@, to),
                                       !.pc = IF IsRequestTailNode(to, write.origin)
                                              THEN "committed" ELSE "passing",
                                       !.early = server[to].stage = "strategy"]
    /\ UNCHANGED <<phase, parsed, tried, failures, server>>

(* A write that is passed on for ever is the one thing that does not end. *)
Terminating ==
    /\ phase \in {"rejected", "failed", "serving"}
    /\ write.pc # "passing"
    /\ UNCHANGED vars

Next == \/ \E n \in NodeView : ParseNode(n)
        \/ EndOfFile
        \/ ConfigureNode \/ BuildTopology
        \/ \E i \in DOMAIN parsed :
              ConfigureStrategy(i) \/ ConfigureConfig(i) \/ ConfigureStubs(i)
        \/ \E index \in 0 .. Len(parsed) - 1 : Write(index) \/ KvWrite(index)
        \/ Propagate
        \/ Terminating

Spec == Init /\ [][Next]_vars

-----------------------------------------------------------------------------
(* Properties *)

(* What a ring is, without walking it: distinct servers with the ids       *)
(* 0 .. N-1, predecessor the inverse of successor, and no part of it       *)
(* closed under successor but the whole.                                   *)
IsRing(nodes) ==
    LET E == Endpoints(nodes)
    IN  /\ nodes # <<>>
        /\ Cardinality(E) = Len(nodes)
        /\ Ids(nodes) = 0 .. Len(nodes) - 1
        /\ \A i, j \in DOMAIN nodes :
              nodes[i].successor = nodes[j].endpoint
                 <=> nodes[j].predecessor = nodes[i].endpoint
        /\ \A i \in DOMAIN nodes : nodes[i].successor \in E
        /\ \A S \in (SUBSET E) \ {{}, E} :
              \E i \in DOMAIN nodes : nodes[i].endpoint \in S /\ nodes[i].successor \notin S

(* The client's validation accepts rings, and only rings. *)
AcceptsExactlyRings ==
    /\ phase \in {"configuring", "failed", "serving"} => IsRing(parsed)
    /\ phase = "rejected" => ~IsRing(parsed)

(* No write comes by the same server twice, in whatever order the indices  *)
(* go round the ring and however far the Configure calls have come:        *)
(* forwarding ends, with no more hops than servers.                        *)
ForwardingEnds ==
    \A i, j \in DOMAIN write.path : i # j => write.path[i] # write.path[j]

(* A write commits at the server that both clients read its key from, the  *)
(* one rule being computed in each client and the other in the servers.    *)
(* Every write does that is sent when the client is through with the       *)
(* Configure calls; of those that come earlier, every one but those that a *)
(* server commits because it has its strategy and not yet its NodeConfig.  *)
Placed == write.pc = "committed" /\ (write.waited \/ ~write.early)
CommitsWhereRead ==
    Placed => /\ Last(write.path) = CrownTailFor(write.index)
              /\ Last(write.path) = KvTail(write.index)

(* Such a write is on every server of the ring when it commits if and only *)
(* if the tail, found by index, is what the documentation calls it, the    *)
(* predecessor of the head in the ring (src/README.md).  In the rings that *)
(* do not follow the indices, which the client accepts, it is not, and     *)
(* servers are left out.                                                   *)
CommitsAfterWholeRing ==
    Placed => (ToSet(write.path) = Endpoints(parsed)
                  <=> At(parsed, CrownTailFor(write.index)).successor
                         = CrownHeadFor(write.index))
=============================================================================
