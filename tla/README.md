# crown in TLA+

A model of the replicated key-value store *crown*: three variants of chain
replication (CHAIN, CRAQ, CROWN) behind one gRPC interface, a client that
configures the servers and routes to them, and the threads inside a server.
TLC checks the modules on small instances; TLAPS proves for every instance the
safety properties of CHAIN, CRAQ and CROWN mode with their refinements, of a
single server, of servers that are configured and restarted while they serve,
of the Ack worker, of the client's book and of the CROWN ring.

## 1. Inventory

| component | state | operations | interacts with |
|---|---|---|---|
| Versioned key state (`chain_style_replication_support`) | per key: next, latest seen, committed version and value, pending versions; `state_mtx_` | `assign_next_version`, `record_local_write[_if_newer]`, `mark_version_clean`, `mark_version_committed_if_newer`, four reads | called by the handlers of all modes, each call one critical section |
| Propagate dispatcher (one per process and mode) | FIFO queue, up to 8 workers | `enqueue`, `worker_loop` | blocking Propagate calls to the stub stored in the task |
| Acks | queue and one worker to the predecessor (CRAQ), stub cache to the clients | `send_client_ack`, `enqueue_predecessor_ack`, `start/stop_ack_workers` | tail -> client, node -> predecessor |
| CHAIN, CRAQ, CROWN strategies | the key state | `handle_write`, `handle_read`, `handle_propagate`, `handle_ack`, `handle_version_query`, `on_config_change` | run in gRPC threads, any number at once |
| Server (`server.cpp`) | `node_`, `strategy_` | Configure and the RPC entry points | client, neighbours |
| Node | index, flags, addresses, ring size | accessors | strategies |
| Client (`client.cpp`) | `g_pending`, request ids, metrics, topology | write, read, Ack listener, benchmark loops, validation, Configure loop | servers |
| kv_client | none | one write or read, with a check of the ids of its own | servers |
| setup/ | none | generate configurations, start and stop, run experiments | files, ssh |

What is hard: the steps of handlers interleave between two critical sections;
several workers send at once, so that calls overtake one another on every hop;
a failed call is logged and never repeated, and may have been handled all the
same; CRAQ reads combine four observations made at different times, one of
them at another node; the Ack worker is stopped through a condition variable;
CROWN nodes forward to one another all round a ring none of them knows; Acks
race with Write replies at the client; Configure tests the mode and replaces
the strategy, the NodeConfig and the stubs of a running server one after
another, without a lock, under whatever handlers and other Configure calls run,
and a server that restarts has nothing of the three.

What makes each part correct: versions of a key are unique and name one value;
replicas are ordered along the chain; an acknowledged write is on every
replica and committed at the tail; reads are fresh and committed; nothing is
left dirty or forgotten when no call fails; no Ack is lost in the worker; the
client's waiting ends and means commitment; only rings are configured and a
write finds its tail in them, in a ring configured in part as well; a Configure
with the same file takes nothing from anyone, however it overlaps with others,
and no version is ever read with two values. `PROJECT.json` lists every hazard at its line.

## 2. Modules

    ClientRequests            the write requests
      ChainStyleSupport       KeyState and its critical sections, as operators
      PropagateDispatcher     queue, workers, calls in flight
        ReplicaServer         store + dispatcher + Acks to the clients
          LinearChain         nodes 0..N-1, properties of both linear modes
            ChainReplication  CHAIN
            CRAQReplication   CRAQ; its Ack worker is a second INSTANCE of
                              PropagateDispatcher with one worker
          CROWNReplication    CROWN
          SingleServer        one server in any of the three modes
          ServerConfigure     Configure and restart of running servers, with the
                              write paths of CHAIN and CROWN on top of them
      CommittedRegister       what every mode promises (abstract)
    AckWorker                 start, stop and wakeup of the Ack thread
    ClientPending             the client's book of pending writes
    CrownTopology             validation, configuration and routing of a ring,
                              by the client and by kv_client
    *Proofs                   theorems, a module for each component; those of
                              AckWorker are in ServerConfigureProofs, as it is
                              Configure that stops and starts the worker
    MC* and *.cfg             the instances TLC checks

**Values and requests.** A request stands for its `(client_addr, request_id)`
and for its value, so a mix-up of values is visible. `Silent` requests carry
no `client_addr` (those of `kv_client`). `NoReq` is the empty string.

**Granularity.** One action is one critical section of `state_mtx_`, of a
queue's mutex, or one call. `handle_write` is `WriteAssign`, `WriteRecord` and
`WriteForward`, or `WriteCommit` and `WriteAck` on the last node;
`handle_propagate` likewise. The program counter of a handler is a field of
`write` or of the call's record in `rpc`. A CRAQ read is `ReadLocalClean`,
`ReadLatest`, `QueryTail`, `ReadMaterialize`.

**Calls.** A Propagate call and the handler it starts are one record of `rpc`.
Calls are a set, so any may run next: that is the reordering. At any time a
call may vanish before its handler starts (`RpcLost`) or fail for the caller
only (`RpcAbandoned`), and an Ack to a client may get lost. The history
variable `lost` remembers whether anything was lost, for the properties that
hold only as long as nothing is. gRPC does not run a handler twice for one
call, so nothing is duplicated.

**Version query.** Nodes relay it to the tail, or ask it directly; nothing
changes on the way but the tail's own answer, so it is one step, `QueryTail`,
at the moment the tail reads its clean version.

**AckWorker and CRAQReplication** describe the same thread: the second what
its calls do to the nodes, the first how it is woken, stopped and replaced.

**ServerConfigure** has any number of clients that configure, each in a loop
over the servers of its file that goes on when a call fails. A Configure call
is a record of `calls`, and several may be at one server: the code has no lock.
Its handler tests whether the mode changed (`ConfigureBegins`), swaps the
strategy (`ConfigureStrategy`), replaces the NodeConfig (`ConfigureNode`) and the
stubs (`ConfigureStubs`); the mode it tests is that of the NodeConfig, so of two
calls that overlap each may swap. A call that fails for its client has either
not reached the server (`ConfigureFails`) or is handled all the same: its
client goes on to the next server, or is gone, and the call stays in `calls`.
A handler of a write reads the strategy, the NodeConfig and the stub at the
moment it uses them, so it may find any mixture. When the strategy is destroyed
under a running handler, that handler is *orphaned*: from then on it may end,
forward or acknowledge whatever it likes (the code reads freed memory there),
and the properties hold for all of these. `Restart` takes the whole state of a
server with it.

Two history variables say what the properties are about. `orderly` is about
the clients alone: it is TRUE as long as every write was sent, to the head of
its key, when all servers had been configured by one file and no loop of
another mode was under way, as server.cpp:56-57 asks of the clients, and since
the first write nobody has started a loop of another mode or restarted a
server. What Configure does to the data has no part in it: a Configure with the
same file that forgot something would break `AckedThroughConfigure`, as the
mutant `SwapAlways` does. `overlapped` holds the servers at which two Configure
calls have run at once. CHAIN and CROWN have a dispatcher each in the code and
share one `queue` here: a task names its stub, and what the destroyed
dispatcher of the old mode may still send is the task left in the queue. The
Ack thread of CRAQ has its own model (AckWorker) and CRAQ is not among the
modes configured here.

**CrownTopology** configures each server of the ring in the steps of Configure
(`ConfigureStrategy`, `ConfigureConfig`, `ConfigureStubs`), which go on when the
client has given the call up. `kv_client`, which checks only that the ids are
distinct and below the number of nodes, writes at any time, also between two of
these steps, and so does a client that is told not to configure. A write that
meets a server with a strategy and no NodeConfig is `early`; one that is sent
when the client is through with its calls has `waited`.

**ClientPending** has the thread of an Ack test the window, count and sample in
steps of its own (`TestWindow`, `CountAck`, `SampleAck`), and the main thread load
the counters of the summary while they run: `BuildSummary` all but the number
of samples, `SumSamples` that one. Of the counters loaded in the first step
only the Acks still change then.

**CommittedRegister** is the specification for the clients: a key is a
register whose committed version grows, versions are unique and contiguous,
and an Ack is given for a version not newer than the committed one. CHAIN,
CRAQ and CROWN implement it with the committed state of the (key's) tail; the
property `Register` of each checks that.

README.md:12 of the repository says the helpers avoid mutexes and assume
serialized writes of one client. The code has the mutexes and its smoke test
runs concurrent writers, so the model follows the code.

## 3. Runs

Each run explores all interleavings, with and without lost calls, and checks
the safety and the liveness properties of its module together. Symmetry is used
only in topology_ring, which has no temporal property. Bounds: three nodes give a
head, a middle and a tail, so that an overtaking on one hop can meet the
opposite one on the next; two workers are enough for any two calls of a node
to overtake each other; of three writes the middle one can be skipped,
overtaken or lost while its neighbours are not. CRAQ has two writes and one
read, which meets every pair of versions at every node. ServerConfigure has
two servers, each being the head of one mode and the tail of the other, so
that a mixture of two configurations sends a write the wrong way; two clients
that configure (`MaxPasses`), with two calls under way at once (`MaxCalls`), are a
change of mode, a second Configure with the same file, or an overlap of either
at any server; one mishap (`MaxMishaps`) is a restart or a write against the
rule, before, between or after the two loops. Deadlock is checked everywhere
but in the AckWorker runs, whose threads may all be idle.

| run | states | question |
|---|---|---|
| chain | 53 436 | 3 concurrent writes of a key, one of a client that listens to no Ack: unique versions, order of the replicas, durability of acknowledged writes, linearizable reads, refinement; unless a call is lost, convergence and acknowledgement. `IInv` as an invariant |
| craq | 119 587 | 2 writes with their Acks and one read: order of the clean versions, what a read may return, be as old as or fail with; unless a call is lost, all clean at the end with nothing pending |
| crown | 18 565 | 2 keys sharing a ring, with a head at index 2 and one at 0, one worker per node: per key the properties of a chain |
| single | 3 261 | one server in each mode, which commits in the handler |
| ack_worker | 12 430 | the Ack worker under three Configure calls; no lost wakeup of a push |
| client | 497 442 | the benchmark and the seed loop with failing calls and an Ack of an earlier client, the summary, and their end |
| topology_ring | 299 630 | all files of up to three nodes, valid or not, with Configure calls that fail, handled or not; every write of the client and of kv_client at any moment, also between two steps of a Configure |
| configure | 1 798 808 | two Configure loops of either mode, at the same time or not, with calls that fail, handled or not, and a restart or an early write, with two writes under way: what a server keeps, that versions keep their values, and what a deployment whose clients keep the rule promises |

Four runs show a disagreement between the code and what the repository says
of it, each with a shortest trace:

| run | what the code does |
|---|---|
| configure_early_write | a write sent while the loop is under way may be acknowledged by a server that is not the tail of its key |
| configure_overlap | of two Configure calls with the same file that overlap on a server, the second destroys the strategy of the first and the write accepted in between |
| ack_stop | stopping the Ack worker can hang, and the Configure call with it |
| client_late_ack | an Ack meant for an earlier client is taken for a commit: printed as one in the interactive mode, counted as one by the benchmarks |

**Fairness.** The liveness properties assume that threads run: weak fairness for the
steps of each handler, for each dispatcher's workers and for the worker of
Acks. A handler never waits for another one but through a worker's blocking
call, whose handler is itself fair. Clients need not write or read. Nothing
is promised of a behaviour in which a call was lost (`... \/ lost` in each
property), since there is no retry; a call that fails for its caller only
excuses nothing. In ServerConfigure the fairness is weaker still, one condition
for each kind of thread (some handler of a write, some worker, some handler of
a call): nobody need configure, write or restart, and no single thread is
promised a turn while others have work. In AckWorker a spurious wakeup may
happen and is owed to nobody.
ClientPending assumes that the servers commit what they accept, which is
`AcceptedIsAcked` of the replication modules.

## 4. Proofs

### CHAIN

`ChainReplicationProofs` proves for every chain length, every set of writes
and keys, every number of workers, and whatever calls fail:

- `TypeCorrect`: `Spec => []TypeOK`
- `Invariance`: `Spec => []IInv`
- `OrderTheorem`, `OneWriteTheorem`, `AckedTheorem`, `QuietTheorem`:
  `PropagationOrder`, `VersionNamesOneWrite`, `AckedEverywhere`,
  `QuietConverged`

from the named assumptions of the modules alone (the shape of the constants).
`AckedEverywhere` is not inductive: that every replica has an acknowledged
version follows from the order of the replicas and the tail's commit, and the
order is kept only because whoever holds a message, in a queue, in a call or
in a handler, has recorded it before (`HoldersRecorded`). Versions name one
write because the head's counter bounds every version assigned
(`VersionsBelowNext`) and every message in flight is genuine. `IInv` is the
conjunction of these parts; its preservation has one lemma per kind of step.
`ReplicaServerProofs` says what each critical section does to a KeyState, what
a record or a commit raises in the store of a server, and what each step of the
dispatcher does to the messages held and to the calls in flight; the step
proofs of all modes cite only these facts.

That all replicas agree when nothing is on its way is not a fact about what is
held but about what is *not* gone. The conjunct `Delivered` of `IInv` says
where a write is, as long as no call is lost: for every request that has a
version and every place of the chain (`0 .. N`, N being the commit at the
tail), the place has been reached, by this version or a newer one, or a
handler, a task or a call that comes before the place still has the message.
Each step either hands on what it takes or reaches the place
(`DeliveredKept`); a call that fails for its caller only has its handler
running still (`EnqueueKeeps` ... `AbandonedKeeps`). With all handlers
returned and the queues empty only the first case is left, and the last
version of a key was given to some write (`NextIsAssigned`).

The second half proves from `IInv`, under the same assumptions:

- `Refinement`: `Spec => Register`, CHAIN implements CommittedRegister. A step
  that assigns a version maps to `Accept` (the version is the successor of the
  newest one because of `VersionsBelowNext` and `NextIsAssigned`), a commit of
  a newer version at the tail to `Commit`, an Ack that arrives to
  `Acknowledge`, every other step to a stutter. A second commit of the version
  the tail already has is a stutter because a version names one write.
- `ReadTheorem`: `Spec => ReadsSeeAcked`, with the further invariant
  `AnswerCommitted` that no answer is newer than the tail's committed version.

### CROWN

`CROWNReplicationProofs` repeats the argument for every size of the ring and
every placement of the heads, if clients send their writes to the heads of
their keys (`Misrouted = {}`; `TypeCorrect` holds without it, and no server sees
to it). The order is that
of `Distance(k, n)`, how far n is from the head of k: the lemmas `Ring` and
`Positions` say, without remainders, that a successor is one further away
unless it is the head, and that no two nodes are equally far. To the
invariant of CHAIN come two parts: a message names the head of its key as its
origin (`FromHead`), which is why the node that takes itself for the tail of a
request is the tail of the key; and only the tail of a key ever has a
committed value of it (`OnlyTailCommits`), which is why a read that succeeds
at any node is a read of the tail. The theorems are `OrderTheorem`
(`RingOrder`), `AckedTheorem` (`AckedEverywhere`), `Refinement` (`Register`),
`ReadTheorem` (`ReadsSeeAcked`) and `QuietTheorem` (`QuietConverged`), the
last with `Delivered` counted from the head of each key (`Place`).

### CRAQ

`CRAQReplicationProofs` is about every chain length, any number of writes and
reads, every worker pool, and whatever calls and Acks fail; beside the
assumptions of CHAIN it needs that there is a key if there is a read
(`ReaderAssumption`). A node may answer for the tail because it keeps a version
it has recorded until that version or a newer one is clean; `Kept(n, k, v)`
says so, and no step of any node ends it (`KeptStays`). The invariant then says:

- of a message: a Propagate has been kept by every node up to the one that
  holds it, an Ack by all nodes, and the version of an Ack is clean where it
  is and hence, by `CleanOrder`, at all nodes after it (`HoldersPassed`). That
  is why an Ack that makes a version clean cannot break `CleanOrder`;
- of the tail: every node has kept what it has committed (`TailKept`), and
  what is pending under a version is the write it was given to
  (`PendingIsGenuine`). Together they give `CommittedIsReadable`;
- of a read, at each step, what its answer will be worth (`ReadHonest`): the
  clean version read first is committed; a node without a newer version than
  that has seen no more than what was committed when the read began; the
  version the tail reported is not older than the read and the node has kept it.

The theorems are `CleanOrderTheorem`, `AckedTheorem`, `ReadableTheorem`
(`CommittedIsReadable`), `ReadsTheorem` (`ReadsCommitted`), `FreshTheorem`
(`ReadsFresh`), `CauseTheorem` (`ReadsFailForCause`), `QuietTheorem`
(`QuietClean`) and `Refinement` (`Register`). `Delivered` has two ways here: a
write is over at a node (`Cleaned`: it or a newer one is clean and nothing is
pending under its version), or it is still to come to the tail
(`BeforeTail`), or its Ack is still to come back to the node (`AckComes`). The
dispatcher of the Acks is a second instance of PropagateDispatcher; an
instance of `ReplicaServerProofs` carries its facts over.

### A single server

`SingleServerProofs`: the handlers of a server that is head and tail race in
all their steps, which differ from mode to mode, and one proof serves all. The
lemmas `ChainSteps`, `CraqSteps` and `CrownSteps` show that each mode only
makes five kinds of step (`Assigned`, `Recorded`, `Committed`, `Answered`,
`Nothing`), stated by what they do to one key; the forwarding actions are never
enabled, because nothing is ever queued or sent (`Alone`). The invariant is
proved of these steps: versions are given out in order (`Versions`), what the
server holds as seen and as committed is a version with the value it was given
to (`Values`), what a handler has recorded or committed is not undone by the
handlers it races with (`Progress`), and a pending CRAQ version has a handler
that has still to make it clean (`PendingHandled`). `AnsweredTheorem`
(`AnsweredIsCommitted`) and `RegisterTheorem` (`Register`) follow.

### The ring

`CrownTopologyProofs` is about any file (any number of nodes, repeated ids and
endpoints, successors that are not in it), Configure calls that fail or are
handled late, and writes of both clients at any moment. The validation walks
from the front node of the file along the successors; `IsRing` defines a ring
without a walk: distinct nodes, predecessors inverse to successors, and no
proper part closed under successor.

- `RingTheorem`: the two agree. An accepted walk goes by every node, and
  no step leaves a closed set (`OnlyWholeIsClosed`, `ValidIsRing`); in a ring
  the first node that the walk meets twice is its start, or two nodes had the
  same successor, and what it met before is closed (`RingWalkCovers`,
  `RingIsValid`). Both need induction over the steps of the walk, for which
  the lemma `SetInduction`, from the least element of a set of naturals,
  stands in.
- `ForwardingTheorem` (`ForwardingEnds`): each server of a path is the
  successor of the one before it in one accepted ring, and none but the last
  is the tail; so the next server is new, or the path was at the tail
  already (`NextIsNew`).
- `TailTheorem` (`CommitsWhereRead`): a server that has its NodeConfig knows its
  own index and the size of the ring, and the one node for which these make it
  the tail of an origin is the one the clients compute (`KnowsTail`, `TailNode`).
  A server that nobody configured refuses the write; one that has a strategy
  and no NodeConfig takes the ring for a ring of one and commits, which is
  excepted (`early`) unless the write was sent after the Configure calls: a call
  that has returned left its server ready, and a client that saw one fail
  serves no writes (`OverIsReady`).
- `WholeRingTheorem` (`CommitsAfterWholeRing`): the tail by index is not what
  README.md:229 of the repository calls the tail in every ring the client
  accepts, and the theorem says what depends on it. If the successor of the
  tail is the head, the path of a write is closed under successor and hence the
  whole ring (`ClosedPathIsWhole`); if not, some server is left out
  (`OneSuccessor`).

### Configure and restarts

`ServerConfigureProofs` is about any number of servers, keys and requests, any
number of clients that configure (`MaxPasses`), of Configure calls under way at
once (`MaxCalls`) and of restarts and early writes (`MaxMishaps`), in CHAIN, in
CROWN or in both, with calls that fail and are handled late and handlers that
lose their strategy under their feet. It assumes no more than the named
assumptions on the constants. The invariant is
`IInv == Always /\ (orderly /\ Written => \E M \in Modes : Runs(M))`.

`Always` holds whatever the clients do (`AlwaysTheorem`):

- `OneMode`: at a server at which no two Configure calls have run at once, the
  strategy and the NodeConfig are of one mode but between the two steps that
  replace them, and the call that is about to swap has another mode than the
  strategy. The code compares the new mode with that of the NodeConfig, not of
  the strategy (server.cpp:71), and it is by this conjunct that such a server
  never replaces a strategy by one of the same mode. With an overlap it does:
  configure_overlap;
- `EmptyBefore`: a server without a strategy has no data and no handlers;
- `Unwritten`: before the first write nobody has data;
- `Typed` and `Taken`: the types, and every message is of a request some
  server took.

`StoresTheorem` (`StoresOutliveConfigure`) needs nothing else: a server without
an overlap loses what it has seen only by a restart or by a change of mode.
`StableTheorem` (`CommittedIsStable`) needs the types only: what a handler does to
the key it has in hand either raises the committed version or leaves it and its
value alone, whatever version it was handed, also one that a head gave out
again after a restart.

`Runs(M)` holds from the first write of an orderly deployment on. Its first
part, `Settled(M)`, says that all servers run the file of one mode M and that
every Configure call and loop under way is of M, none of them about to swap.

- Configure then changes nothing (`LoopNeedless`, `LoopSettled`): each of its
  steps puts in place what is there, at whichever server and however many of
  them at once. This is why an overlap does no harm here, though it does where
  the mode changes: between two calls of the mode the server has, the test of
  line 71 cannot find another.
- The first write makes the deployment run or is against the rule.
- While it runs, the lemmas on what a step does to each variable (`WritesMove`,
  `QueuesMove`, `CallsMove`, `AcksMove`, `StoreMoves`), which hold at any time and
  for orphaned handlers too, reduce a step to what it hands on, records or
  commits, and `Facts(M)`, the invariants of CHAIN and of CROWN in one, are kept
  by one proof along the way of a key: `Hop(M, n)` is the next node and
  `Place(M, k, n)` how far a node is on it (`RunsKept`).
- A restart, or a loop of the other mode, after the first write is the end of
  what is promised, and so it is in the code: the head that restarts gives out
  versions its successors take for old.

`AckedTheorem` (`AckedThroughConfigure`) follows. TLC found no violation of
`IInv` in the configure instance before it was proved.

### The Ack worker and the client's book

`ServerConfigureProofs`, too: `AckOrderTheorem` proves `InOrderNoneLost` for every set of
Acks and any number of Configure calls, each of which stops the worker and
starts another: what was sent, is in the worker's hand and is queued is, in
this order, what was pushed. It is not inductive alone: the worker must hold
the mutex from its test of the queue to its pop and must not be woken up with
an empty queue while its flag is up (`AwakeForAck`), or it would pop nothing,
and a new worker must not start while the old one holds an Ack (`FlagDown`,
`InHand`).

`ClientPendingProofs`: `EndTheorem` (`EndIsCommitted`), `LedgerTheorem`
(`Ledger`) and `SamplesTheorem` (`SamplesAreAcks`) for any number of writes
and any Acks of an earlier client. The counters are updated one after another
by two threads and agree with the book only at the end, so the invariant of
`PendingInvariance` counts the Acks that are between two of them (`Taken`,
`Counted`), says which call is in which set of the book (`Book`, `InOrder`)
and what is over in each phase of the main thread (`Phases`), and bounds what the
summary has read by counters that never go down (`Summed`).

### Only model-checked

Liveness, which is out of the prover's reach: `AcceptedIsAcked` in CHAIN and CROWN,
`AcceptedIsAckedThrough` in ServerConfigure, `AcceptedIsClean` in CRAQ, `EveryAckSent` of the Ack worker
and `ClientEnds`. Every other property of a passing run is a theorem. The four
violations are traces, found by TLC.

## 5. Bounds and omissions

Versions are naturals: 64 bits do not overflow in any run of the program.
Every run is finite because each request is issued once; `MaxConfigures`,
`MaxPasses`, `MaxCalls`, `MaxMishaps`, `Total` and `MaxNodes` bound the others. Not
modelled: the hash function (a constant `HeadOf`), command lines, printing,
latency arithmetic, `kv_client` in the linear modes, where it goes to the node
marked as head or tail, the process control and aggregation scripts. The files
of the linear modes are not validated by the client; they are taken as the
generator writes them. `AsyncWrite` is taken to return a reader always.

Not checked but worth knowing:

- `kv_client` reads CRAQ at the head (kv_client.cpp:298-300) where
  README.md:146 says the tail.
- A summary can miss Acks that were struck off but not yet counted when the
  window closes; `SamplesAreAcks` bounds it from above only.
- A CROWN server accepts every write of every key (crown_replication.cpp:157),
  and leaves routing to the client. README.md:181 of the repository says that
  client writes sent to non-head nodes fail with a clear error, and
  setup/crown_smoke_test.sh:278-281 asserts it. The same script expects a read at
  a node that is not the tail to fail with 'not key tail'; it fails only for
  want of a committed version there, and no server checks that it is the tail.
- README.md:229 of the repository calls the tail the predecessor of the head
  in the ring and README.md:145 has a read go there;
  crown_replication.cpp:146 and both clients take the node with the index
  before the head's. The two differ in a ring that does not follow the indices,
  which client.cpp:729 accepts and the generator never writes; there a write
  commits, and is acknowledged, while some servers have not seen it
  (`CommitsAfterWholeRing`). CROWNReplication has the ring of the generator.
- Two threads that use `strategy_` or `node_` at once are a data race. What is
  modelled of it is the order of the steps and the handlers that go on in a
  strategy that is gone; a NodeConfig read while it is half written is not, and
  a crash is a `Restart`.
- build_node_config is called without the tail's address (client.cpp:1581), so a
  CRAQ version query is always relayed from node to node.
- setup/crown_smoke_test.sh:355-357 reads at once after the last of its
  writes, whose commit may still be under way: a write returns before it is
  committed.

## 6. Plan

1. *(done)* CHAIN, CRAQ, CROWN, dispatcher, Ack worker, client book, ring
   topology with kv_client, Configure and restarts.
2. *(done)* Proofs for CHAIN, CRAQ, CROWN, a single server, Configure with
   overlapping calls and restarts, the Ack worker, the client's book and the ring.
3. Not begun: CRAQ among the modes that ServerConfigure configures, which needs
   the Acks, the reads and the Ack worker in one module with the loop; the
   batches of the benchmark in ClientPending.
