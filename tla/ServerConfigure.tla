--------------------------- MODULE ServerConfigure ---------------------------
(***************************************************************************)
(* Configure and restart of running servers (src/src/server/server.cpp).   *)
(*                                                                         *)
(* A server starts without a strategy.  Configure looks whether the mode   *)
(* changes, creates a strategy or replaces it by an empty one, replaces    *)
(* the NodeConfig, then the stubs: nothing keeps the handlers of other     *)
(* calls out between these steps, nor another Configure.  Everything is in *)
(* memory, so a server that restarts has neither data nor configuration.   *)
(*                                                                         *)
(* The deployment is the one setup/generate_mode_configs.py lays out, the  *)
(* same servers in every mode, in the two modes that acknowledge a write   *)
(* from the tail alone, CHAIN and CROWN.  Any number of clients configure  *)
(* it, at the same time if they like, each in a loop over the servers.     *)
(* A call that fails for its client may be handled all the same, also when *)
(* the client is at a later server or gone.  Clients write whenever they   *)
(* like (setup/run_throughput_experiments.py starts them all at once and   *)
(* lets the first one configure); what depends on their doing so only      *)
(* after the Configure is said of an orderly deployment.                   *)
(***************************************************************************)
EXTENDS ReplicaServer

CONSTANTS N,            \* the number of servers
          HeadOf,       \* CROWN: fnv1a64(key) % N
          Modes,        \* the modes the clients configure
          MaxPasses,    \* bound on the clients that configure
          MaxCalls,     \* bound on the Configure calls under way at once
          MaxMishaps    \* bound on restarts and on writes against the rule
                        \* (WriteAssign)

ASSUME ConfigureAssumption ==
    /\ N \in Nat \ {0} /\ Node = 0 .. N-1
    /\ HeadOf \in [Key -> Node]
    /\ Modes \subseteq {"CHAIN", "CROWN"}
    /\ {MaxPasses, MaxCalls, MaxMishaps} \subseteq Nat

Pass == 1 .. MaxPasses

VARIABLES server,       \* strategy_, node_ and the successor stub of each server
          loop,         \* the mode each client configures, and how many servers
                        \* it has called
          calls,        \* the Configure calls under way
          mishaps,      \* how many servers have restarted or writes come early
          write,        \* how far handle_write of each request has come
          overlapped,   \* for the properties: the servers at which two Configure
                        \* calls have run at once,
          orderly       \* and whether clients have kept the rule (WriteAssign)

ghosts == <<overlapped, orderly>>
admin == <<loop, calls, mishaps>>
vars == <<store, queue, rpc, lost, acked, server, admin, write, ghosts>>

-----------------------------------------------------------------------------
(* NodeConfig, as far as the two modes read it *)

NoStub == N
DefaultConfig == [mode |-> "CHAIN", isHead |-> FALSE, isTail |-> FALSE,
                  count |-> 0, successor |-> NoStub]

(* build_node_config and proto_to_config of a generated file: only CROWN   *)
(* sends the size of the ring, only CHAIN marks a head and a tail.         *)
BuildNodeConfig(m, n) ==
    [mode      |-> m,
     isHead    |-> m = "CHAIN" /\ n = 0,
     isTail    |-> m = "CHAIN" /\ n = N - 1,
     count     |-> IF m = "CROWN" THEN N ELSE 0,
     successor |-> IF m = "CROWN" THEN (n + 1) % N ELSE n + 1]

FreshServer == [strategy |-> "none", config |-> DefaultConfig, successor |-> NoStub]
ConfiguredServer(m, n) ==
    LET c == BuildNodeConfig(m, n)
    IN  [strategy |-> m, config |-> c, successor |-> c.successor]

(* What the strategy of server n makes of its NodeConfig *)
AcceptsWrite(n) ==
    \/ server[n].strategy = "CROWN"
    \/ server[n].strategy = "CHAIN" /\ server[n].config.isHead

CommitsAlone(n) ==
    IF server[n].strategy = "CROWN" THEN server[n].config.count <= 1
                                    ELSE server[n].config.isTail

IsRequestTail(n, m) ==
    LET count == server[n].config.count
    IN  IF server[n].strategy = "CROWN"
        THEN count > 1 => n = (m.origin + count - 1) % count
        ELSE server[n].config.isTail

(* Where the clients of a mode write and read a key *)
KeyHead(m, k) == IF m = "CROWN" THEN HeadOf[k] ELSE 0
KeyTail(m, k) == IF m = "CROWN" THEN (HeadOf[k] + N - 1) % N ELSE N - 1

Message(r) == [req |-> r, version |-> write[r].version, origin |-> write[r].node]

TypeOK ==
    /\ store \in [Node -> [Key -> KeyState]]
    /\ queue \in [Node -> Seq(PropagateTask)]
    /\ acked \subseteq [req: Req, version: Nat]
    /\ server \in [Node -> [strategy: Modes \cup {"none"},
                            config: {DefaultConfig} \cup
                                    {BuildNodeConfig(m, n) : m \in Modes, n \in Node},
                            successor: Node \cup {NoStub}]]
    /\ loop \in [Pass -> [mode: Modes \cup {"none"}, called: 0 .. N]]
    /\ calls \subseteq [pass: Pass, node: Node, mode: Modes,
                             pc: {"sent", "swap", "config", "stubs"}]
    /\ write \in [Req -> [pc: {"idle", "failed", "assigned", "recorded", "committed",
                               "returned", "orphaned"},
                          node: Node, version: Nat]]
    /\ overlapped \subseteq Node /\ {lost, orderly} \subseteq BOOLEAN

Init ==
    /\ ServerInit
    /\ server = [n \in Node |-> FreshServer]
    /\ loop = [p \in Pass |-> [mode |-> "none", called |-> 0]]
    /\ calls = {} /\ mishaps = 0
    /\ write = [r \in Req |-> [pc |-> "idle", node |-> 0, version |-> 0]]
    /\ overlapped = {} /\ orderly = TRUE

-----------------------------------------------------------------------------
(* The clients' Configure loops *)

Handling == {r \in Req : write[r].pc \in {"assigned", "recorded", "committed", "orphaned"}}
Written == \E r \in Req : write[r].version # 0

CallConfigure(p, m, n) ==
    /\ Cardinality(calls) < MaxCalls
    /\ loop' = [loop EXCEPT ![p] = [mode |-> m, called |-> n + 1]]
    /\ calls' = calls \cup {[pass |-> p, node |-> n, mode |-> m, pc |-> "sent"]}

(* A client calls the first server of its file.  (Clients are numbered in  *)
(* the order in which they start.)                                         *)
StartConfigure(p, m) ==
    /\ \A q \in Pass : loop[q].mode # "none" <=> q < p
    /\ CallConfigure(p, m, 0)
    /\ orderly' = (orderly /\ (Written => \A n \in Node : server[n].strategy = m))
    /\ UNCHANGED <<store, queue, rpc, lost, acked, server, mishaps, write, overlapped>>

(* The call has returned or failed, and the client calls the next server.  *)
NextConfigure(p) ==
    /\ loop[p].called \in 1 .. N - 1
    /\ CallConfigure(p, loop[p].mode, loop[p].called)
    /\ UNCHANGED <<store, queue, rpc, lost, acked, server, mishaps, write, ghosts>>

(* The call does not reach the server. *)
ConfigureFails(c) ==
    /\ c.pc = "sent"
    /\ calls' = calls \ {c}
    /\ UNCHANGED <<store, queue, rpc, lost, acked, server, loop, mishaps, write, ghosts>>

-----------------------------------------------------------------------------
(* Configure, the handler of call c *)

AtNode(n) == {c \in calls : c.node = n /\ c.pc # "sent"}

ConfigureAt(c, pc) == calls' = (calls \ {c}) \cup {[c EXCEPT !.pc = pc]}

(* "Swap strategy if the mode changed (or on first configure)": the mode   *)
(* compared is that of the NodeConfig, which is replaced two steps later.  *)
SwapAlways(c) == TRUE
Swaps(c) == server[c.node].strategy = "none" \/ server[c.node].config.mode # c.mode

ConfigureBegins(c) ==
    /\ c.pc = "sent"
    /\ ConfigureAt(c, IF Swaps(c) THEN "swap" ELSE "config")
    /\ overlapped' = IF AtNode(c.node) = {} THEN overlapped
                     ELSE overlapped \cup {c.node}
    /\ UNCHANGED <<store, queue, rpc, lost, acked, server, loop, mishaps, write, orderly>>

(* The old strategy is destroyed under the handlers that run in it.  What  *)
(* they do to its data is not seen again; see OrphanedCall.                *)
ConfigureStrategy(c) ==
    /\ c.pc = "swap"
    /\ ConfigureAt(c, "config")
    /\ server' = [server EXCEPT ![c.node].strategy = c.mode, ![c.node].successor = NoStub]
    /\ store' = [store EXCEPT ![c.node] = [k \in Key |-> FreshKey]]
    /\ rpc' = {IF d.to = c.node /\ d.pc # "sent" THEN [d EXCEPT !.pc = "orphaned"] ELSE d :
                  d \in rpc}
    /\ write' = [r \in Req |-> IF r \in Handling /\ write[r].node = c.node
                               THEN [write[r] EXCEPT !.pc = "orphaned"] ELSE write[r]]
    /\ UNCHANGED <<queue, lost, acked, loop, mishaps, ghosts>>

(* node_.update_config *)
ConfigureNodeDroppingStubs(c) ==
    /\ c.pc = "config"
    /\ ConfigureAt(c, "stubs")
    /\ server' = [server EXCEPT ![c.node].config = BuildNodeConfig(c.mode, c.node),
                                ![c.node].successor = NoStub]
    /\ UNCHANGED <<store, queue, rpc, lost, acked, loop, mishaps, write, ghosts>>
ConfigureNode(c) ==
    /\ c.pc = "config"
    /\ ConfigureAt(c, "stubs")
    /\ server' = [server EXCEPT ![c.node].config = BuildNodeConfig(c.mode, c.node)]
    /\ UNCHANGED <<store, queue, rpc, lost, acked, loop, mishaps, write, ghosts>>

(* on_config_change: all stubs are dropped and made anew in one critical   *)
(* section.                                                                *)
ConfigureStubs(c) ==
    /\ c.pc = "stubs"
    /\ calls' = calls \ {c}
    /\ server' = [server EXCEPT ![c.node].successor = server[c.node].config.successor]
    /\ UNCHANGED <<store, queue, rpc, lost, acked, loop, mishaps, write, ghosts>>

ConfigureStep(c) ==
    ConfigureBegins(c) \/ ConfigureStrategy(c) \/ ConfigureNode(c) \/ ConfigureStubs(c)

(* The server process ends and is started again (setup/rerun.bash).  What  *)
(* it was handling fails.                                                  *)
Restart(n) ==
    /\ mishaps < MaxMishaps
    /\ mishaps' = mishaps + 1
    /\ server' = [server EXCEPT ![n] = FreshServer]
    /\ store' = [store EXCEPT ![n] = [k \in Key |-> FreshKey]]
    /\ queue' = [queue EXCEPT ![n] = <<>>]
    /\ rpc' = {IF c.from = n THEN [c EXCEPT !.held = FALSE] ELSE c :
                  c \in {d \in rpc : d.to # n}}
    /\ write' = [r \in Req |-> IF r \in Handling /\ write[r].node = n
                               THEN [write[r] EXCEPT !.pc = "failed"] ELSE write[r]]
    /\ calls' = calls \ AtNode(n)
    /\ orderly' = (orderly /\ ~Written)
    /\ UNCHANGED <<lost, acked, loop, overlapped>>

-----------------------------------------------------------------------------
(* handle_write and handle_propagate of the strategy the server has *)

WriteAt(r, pc) == write' = [write EXCEPT ![r].pc = pc]

(* "Node not configured yet", or not the head of the chain *)
WriteRejected(r, n) ==
    /\ write[r].pc = "idle"
    /\ ~AcceptsWrite(n)
    /\ WriteAt(r, "failed")
    /\ UNCHANGED <<store, queue, rpc, lost, acked, server, admin, ghosts>>

(* All servers run the file of mode m, to the last stub, and no Configure  *)
(* is under way that could change that.                                    *)
Settled(m) ==
    /\ \A n \in Node : server[n] = ConfiguredServer(m, n)
    /\ \A c \in calls : c.mode = m /\ c.pc # "swap"
    /\ \A p \in Pass : loop[p].called \in 1 .. N - 1 => loop[p].mode = m

(* The rule of the clients: "The client pushes the real config via         *)
(* Configure before issuing any reads or writes" (server.cpp:56-57), and   *)
(* goes by the same file as the servers.  It is about what clients do and  *)
(* when servers are started, not about what the servers keep: a deployment *)
(* is orderly until a write comes early or to a wrong head, or, after the  *)
(* first write, a client configures another mode or a server restarts.     *)
WriteAssign(r, n) ==
    /\ write[r].pc = "idle"
    /\ AcceptsWrite(n)
    /\ LET s == AssignNextVersion(store[n][KeyOf[r]])
       IN  /\ UpdateKey(n, KeyOf[r], s)
           /\ write' = [write EXCEPT ![r] =
                          [pc |-> "assigned", node |-> n, version |-> s.next]]
    /\ IF \E m \in Modes : Settled(m) /\ n = KeyHead(m, KeyOf[r])
       THEN UNCHANGED <<mishaps, orderly>>
       ELSE mishaps < MaxMishaps /\ mishaps' = mishaps + 1 /\ orderly' = FALSE
    /\ UNCHANGED <<queue, rpc, lost, acked, server, loop, calls, overlapped>>

WriteRecord(r) ==
    /\ write[r].pc = "assigned"
    /\ LET n == write[r].node
           k == KeyOf[r]
       IN  UpdateKey(n, k, RecordLocalWriteIfNewer(store[n][k], r, write[r].version))
    /\ WriteAt(r, "recorded")
    /\ UNCHANGED <<queue, rpc, lost, acked, server, admin, ghosts>>

WriteForward(r) ==
    /\ write[r].pc = "recorded"
    /\ ~CommitsAlone(write[r].node)
    /\ Enqueue(write[r].node, server[write[r].node].successor, Message(r))
    /\ WriteAt(r, "returned")
    /\ UNCHANGED <<store, rpc, lost, acked, server, admin, ghosts>>

WriteCommit(r) ==
    /\ write[r].pc = "recorded"
    /\ LET n == write[r].node
           k == KeyOf[r]
       IN  /\ CommitsAlone(n)
           /\ UpdateKey(n, k, MarkVersionCommittedIfNewer(store[n][k], r, write[r].version))
    /\ WriteAt(r, "committed")
    /\ UNCHANGED <<queue, rpc, lost, acked, server, admin, ghosts>>

WriteAck(r) ==
    /\ write[r].pc = "committed"
    /\ SendClientAck(Message(r))
    /\ WriteAt(r, "returned")
    /\ UNCHANGED <<store, queue, rpc, server, admin, ghosts>>

PropagateRecord(c) ==
    /\ c.pc = "sent"
    /\ server[c.to].strategy # "none"
    /\ LET k == KeyOf[c.msg.req]
       IN  UpdateKey(c.to, k,
                     RecordLocalWriteIfNewer(store[c.to][k], c.msg.req, c.msg.version))
    /\ Advance(c, "recorded")
    /\ UNCHANGED <<queue, lost, acked, server, admin, write, ghosts>>

PropagateForward(c) ==
    /\ c.pc = "recorded"
    /\ ~IsRequestTail(c.to, c.msg)
    /\ Enqueue(c.to, server[c.to].successor, c.msg)
    /\ Return(c)
    /\ UNCHANGED <<store, lost, acked, server, admin, write, ghosts>>

PropagateCommit(c) ==
    /\ c.pc = "recorded"
    /\ IsRequestTail(c.to, c.msg)
    /\ LET k == KeyOf[c.msg.req]
       IN  UpdateKey(c.to, k,
                     MarkVersionCommittedIfNewer(store[c.to][k], c.msg.req, c.msg.version))
    /\ Advance(c, "committed")
    /\ UNCHANGED <<queue, lost, acked, server, admin, write, ghosts>>

PropagateAck(c) ==
    /\ c.pc = "committed"
    /\ SendClientAck(c.msg)
    /\ Return(c)
    /\ UNCHANGED <<store, queue, server, admin, write, ghosts>>

(* A handler whose strategy was destroyed: whatever it reads there, it     *)
(* ends without effect, or by forwarding, or by acknowledging.             *)
OrphanActs(n, m) ==
    \/ lost' = TRUE /\ UNCHANGED <<queue, acked>>
    \/ \E s \in Node : Enqueue(n, s, m) /\ UNCHANGED <<acked, lost>>
    \/ SendClientAck(m) /\ UNCHANGED queue

OrphanedCall(c) ==
    /\ c.pc = "orphaned"
    /\ OrphanActs(c.to, c.msg)
    /\ Return(c)
    /\ UNCHANGED <<store, server, admin, write, ghosts>>

OrphanedWrite(r) ==
    /\ write[r].pc = "orphaned"
    /\ OrphanActs(write[r].node, Message(r))
    /\ WriteAt(r, "returned")
    /\ UNCHANGED <<store, rpc, server, admin, ghosts>>

-----------------------------------------------------------------------------
others == <<store, acked, server, admin, write, ghosts>>

Send(n) == WorkerSend(n) /\ UNCHANGED <<lost, others>>

CallFails(c) == (RpcLost(c) \/ RpcAbandoned(c)) /\ UNCHANGED others

WriteStep(r) == WriteRecord(r) \/ WriteForward(r) \/ WriteCommit(r) \/ WriteAck(r)
                \/ OrphanedWrite(r)

PropagateStep(c) == PropagateRecord(c) \/ PropagateForward(c) \/ PropagateCommit(c)
                    \/ PropagateAck(c) \/ OrphanedCall(c)

Terminating ==
    /\ rpc = {} /\ calls = {} /\ \A n \in Node : queue[n] = <<>>
    /\ \A r \in Req : write[r].pc \in {"idle", "failed", "returned"}
    /\ UNCHANGED vars

Next == \/ \E p \in Pass : NextConfigure(p) \/ \E m \in Modes : StartConfigure(p, m)
        \/ \E c \in calls : ConfigureStep(c) \/ ConfigureFails(c)
        \/ \E n \in Node : Restart(n)
        \/ \E r \in Req : \E m \in Modes :
              LET n == KeyHead(m, KeyOf[r]) IN WriteRejected(r, n) \/ WriteAssign(r, n)
        \/ \E r \in Handling : WriteStep(r)
        \/ \E n \in Node : Send(n)
        \/ \E c \in rpc : PropagateStep(c) \/ CallFails(c)
        \/ Terminating

Spec == Init /\ [][Next]_vars

(* Handlers and workers run, at least some of them at any time; nobody     *)
(* need configure, write or restart.                                       *)
Fairness == /\ WF_vars(\E r \in Req : WriteStep(r))
            /\ WF_vars(\E n \in Node : Send(n))
            /\ WF_vars(\E c \in rpc : PropagateStep(c))

FairSpec == Spec /\ Fairness

-----------------------------------------------------------------------------
(* Properties *)

(* In an orderly deployment an acknowledged write, or a newer one of its   *)
(* key, is committed at the tail of the key and on every server, whatever  *)
(* Configure calls with the same file do meanwhile: several at once,       *)
(* repeated, in part, or handled after their client has given up.  How the *)
(* servers came to be configured (failed loops, loops of two modes,        *)
(* restarts) does not matter.                                              *)
AckedThroughConfigure ==
    orderly => \A a \in acked :
        LET k == KeyOf[a.req]
        IN  /\ \A n \in Node : store[n][k].seen >= a.version
            /\ store[KeyTail(server[0].strategy, k)][k].committed >= a.version

(* A server at which no two Configure calls have run at once forgets what  *)
(* it has seen only when its mode changes or it restarts, never by a       *)
(* Configure with the mode it has, whatever state a failed loop, another   *)
(* client or a restart left it in, and whoever writes when.                *)
StoresOutliveConfigure ==
    [][\A n \in Node \ overlapped', k \in Key : store'[n][k].seen < store[n][k].seen =>
          server'[n].strategy # server[n].strategy]_vars

(* A server that has once answered a read of a version with a value never  *)
(* answers the same version with another one before it loses everything,   *)
(* also when a head that restarted gives the version out again to another  *)
(* write, or when the servers are of two modes.                            *)
CommittedIsStable ==
    [][\A n \in Node, k \in Key :
          LET s == store[n][k]
              t == store'[n][k]
          IN  \/ t = FreshKey
              \/ t.committed > s.committed
              \/ t.committed = s.committed /\ t.committedValue = s.committedValue]_vars

(* Configuring again with the same file loses no write on its way: unless  *)
(* a call is lost, an accepted write of an orderly deployment is           *)
(* acknowledged, through whatever stubs it is sent.                        *)
AcceptedIsAckedThrough ==
    \A r \in Req \ Silent :
        write[r].pc = "assigned" ~>
            lost \/ ~orderly \/ AckRequest(Message(r)) \in acked

(* "The key tail marks the version clean/committed and sends Ack directly  *)
(* to the client." (README.md:177)  The tail is that of the file of a      *)
(* client that configures.                                                 *)
AckedAtTail ==
    \A a \in acked : \E p \in Pass :
        /\ loop[p].mode # "none"
        /\ store[KeyTail(loop[p].mode, KeyOf[a.req])][KeyOf[a.req]].committed >= a.version

(* "Swap strategy if the mode changed (or on first configure)."            *)
(* (server.cpp:70)  A strategy with its data gives way only to one of      *)
(* another mode, or to a restart.                                          *)
SwapsOnlyIfModeChanged ==
    [][\A n \in Node, k \in Key : store'[n][k].seen < store[n][k].seen =>
          server'[n].strategy # server[n].strategy]_vars
=============================================================================
