----------------------------- MODULE AckWorker -----------------------------
(***************************************************************************)
(* The life of the thread that sends the Ack calls to the predecessor in   *)
(* CRAQ mode (chain_style_replication_support.cpp, start_ack_workers to    *)
(* predecessor_ack_worker_loop).                                           *)
(*                                                                         *)
(* Handlers push acks under the mutex of the queue and notify the worker.  *)
(* Every Configure in CRAQ mode stops the worker and starts a new one; it  *)
(* stops it by an atomic flag, stored and announced without the mutex.     *)
(* CRAQReplication models what the acks do, this module how the worker is  *)
(* woken, stopped and replaced.                                            *)
(***************************************************************************)
EXTENDS Naturals, Sequences, FiniteSets

CONSTANTS Ack,            \* the acks to be sent, one per handler thread
          MaxConfigures   \* how often the client configures the node

ASSUME ConfiguresAssumption == MaxConfigures \in Nat

VARIABLES mutex,       \* who holds pred_ack_queue_mtx_: "free" or "worker"
          ackQueue,    \* pred_ack_queue_
          running,     \* pred_ack_worker_running_
          worker,      \* where the worker thread is
          inHand,      \* the ack the worker has popped, as a sequence
          sent,        \* the acks the worker has sent, in order
          handler,     \* how far enqueue_predecessor_ack of each ack has come
          arrived,     \* the acks pushed, in order
          configurer,  \* where the thread of the Configure call is
          configures   \* how many Configure calls have begun

workerVars == <<mutex, ackQueue, running, worker, inHand, sent, handler, arrived,
                configurer, configures>>

WorkerTypeOK ==
    /\ mutex \in {"free", "worker"}
    /\ {ackQueue, sent, arrived} \subseteq Seq(Ack)
    /\ inHand \in {<<>>} \cup {<<a>> : a \in Ack}
    /\ running \in BOOLEAN
    /\ worker \in {"none", "top", "waiting", "goingToBlock", "blocked", "woken",
                   "awake", "sending", "exited"}
    /\ handler \in [Ack -> {"new", "pushed", "returned"}]
    /\ configurer \in {"idle", "stopped", "notified", "joined"}
    /\ configures \in 0 .. MaxConfigures

WorkerInit ==
    /\ mutex = "free"
    /\ ackQueue = <<>> /\ inHand = <<>> /\ sent = <<>> /\ arrived = <<>>
    /\ running = FALSE
    /\ worker = "none"
    /\ handler = [a \in Ack |-> "new"]
    /\ configurer = "idle"
    /\ configures = 0

(* notify_one: it wakes the worker if it is blocked, else it is lost. *)
Notify == worker' = IF worker = "blocked" THEN "woken" ELSE worker

-----------------------------------------------------------------------------
(* enqueue_predecessor_ack *)

Push(a) ==
    /\ handler[a] = "new"
    /\ mutex = "free"
    /\ ackQueue' = Append(ackQueue, a)
    /\ arrived' = Append(arrived, a)
    /\ handler' = [handler EXCEPT ![a] = "pushed"]
    /\ UNCHANGED <<mutex, running, worker, inHand, sent, configurer, configures>>

PushWithoutNotify(a) ==
    /\ handler[a] = "pushed"
    /\ handler' = [handler EXCEPT ![a] = "returned"]
    /\ UNCHANGED <<mutex, ackQueue, running, worker, inHand, sent, arrived,
                   configurer, configures>>
NotifyPushed(a) ==
    /\ handler[a] = "pushed"
    /\ Notify
    /\ handler' = [handler EXCEPT ![a] = "returned"]
    /\ UNCHANGED <<mutex, ackQueue, running, inHand, sent, arrived, configurer,
                   configures>>

-----------------------------------------------------------------------------
(* predecessor_ack_worker_loop *)

(* pc and m are the next place of the worker and the next holder. *)
WorkerAt(pc, m) == worker' = pc /\ mutex' = m

WorkerLeaves(m) ==
    /\ ~running
    /\ WorkerAt("exited", m)
    /\ UNCHANGED <<ackQueue, inHand, sent>>

(* while (running), then the lock *)
WorkerLock ==
    /\ worker \in {"top", "woken"}
    /\ \/ worker = "top" /\ WorkerLeaves(mutex)
       \/ /\ worker = "woken" \/ running
          /\ mutex = "free"
          /\ WorkerAt("waiting", "worker")
          /\ UNCHANGED <<ackQueue, inHand, sent>>

(* The predicate of wait, evaluated under the mutex *)
WorkerTest ==
    /\ worker = "waiting"
    /\ worker' = IF ackQueue # <<>> \/ ~running THEN "awake" ELSE "goingToBlock"
    /\ UNCHANGED <<mutex, ackQueue, inHand, sent>>

(* The mutex is released and the thread blocks, in one step. *)
WorkerBlock ==
    /\ worker = "goingToBlock"
    /\ WorkerAt("blocked", "free")
    /\ UNCHANGED <<ackQueue, inHand, sent>>

(* A condition variable may wake its waiters without a notification. *)
SpuriousWakeup ==
    /\ worker = "blocked"
    /\ worker' = "woken"
    /\ UNCHANGED <<mutex, ackQueue, inHand, sent>>

WorkerPop ==
    /\ worker = "awake"
    /\ \/ WorkerLeaves("free")
       \/ /\ running
          /\ inHand' = SubSeq(ackQueue, 1, 1)
          /\ ackQueue' = Tail(ackQueue)
          /\ WorkerAt("sending", "free")
          /\ UNCHANGED sent

(* The call to the predecessor returns, or fails and is logged. *)
WorkerCall ==
    /\ worker = "sending"
    /\ sent' = sent \o inHand
    /\ inHand' = <<>>
    /\ worker' = "top"
    /\ UNCHANGED <<mutex, ackQueue>>

WorkerStep ==
    /\ WorkerLock \/ WorkerTest \/ WorkerBlock \/ WorkerPop \/ WorkerCall
    /\ UNCHANGED <<running, handler, arrived, configurer, configures>>

-----------------------------------------------------------------------------
(* CRAQReplication::on_config_change: start_ack_workers *)

(* stop_ack_workers stores the flag, notifies, joins the thread ... *)
StoreFlag ==
    /\ configurer = "idle"
    /\ configures < MaxConfigures
    /\ configures' = configures + 1
    /\ running' = FALSE
    /\ configurer' = "stopped"
    /\ UNCHANGED <<mutex, ackQueue, worker, inHand, sent, handler, arrived>>

NotifyStop ==
    /\ configurer = "stopped"
    /\ Notify
    /\ configurer' = "notified"
    /\ UNCHANGED <<mutex, ackQueue, running, inHand, sent, handler, arrived, configures>>

Join ==
    /\ configurer = "notified"
    /\ worker \in {"none", "exited"}
    /\ configurer' = "joined"
    /\ UNCHANGED <<mutex, ackQueue, running, worker, inHand, sent, handler, arrived,
                   configures>>

(* ... and start_ack_workers creates the next one.  The queue is kept. *)
StartClearingQueue ==
    /\ configurer = "joined"
    /\ running' = TRUE
    /\ worker' = "top"
    /\ ackQueue' = <<>>
    /\ configurer' = "idle"
    /\ UNCHANGED <<mutex, inHand, sent, handler, arrived, configures>>
Start ==
    /\ configurer = "joined"
    /\ running' = TRUE
    /\ worker' = "top"
    /\ configurer' = "idle"
    /\ UNCHANGED <<mutex, ackQueue, inHand, sent, handler, arrived, configures>>

RestartStep == NotifyStop \/ Join \/ Start

-----------------------------------------------------------------------------
WorkerNext ==
    \/ \E a \in Ack : Push(a) \/ NotifyPushed(a)
    \/ WorkerStep
    \/ SpuriousWakeup /\ UNCHANGED <<running, handler, arrived, configurer, configures>>
    \/ StoreFlag \/ RestartStep

WorkerSpec == WorkerInit /\ [][WorkerNext]_workerVars

(* Threads keep running; the client configures the node at least once.  No *)
(* spurious wakeup is owed to anyone.                                      *)
WorkerFairness ==
    /\ \A a \in Ack : WF_workerVars(NotifyPushed(a))
    /\ WF_workerVars(WorkerStep)
    /\ WF_workerVars(RestartStep)
    /\ WF_workerVars(StoreFlag /\ configures = 0)

WorkerFairSpec == WorkerSpec /\ WorkerFairness

-----------------------------------------------------------------------------
(* Properties *)

(* Acks are sent in the order in which they were pushed and none is lost,  *)
(* however often the worker is stopped and replaced.                       *)
InOrderNoneLost == arrived = sent \o inHand \o ackQueue

(* On a node configured once every ack pushed is sent in the end: no       *)
(* wakeup of a push is lost, since the push holds the mutex.  (A second    *)
(* Configure may hang, see ConfigureReturns, and the acks with it.)        *)
EveryAckSent ==
    \A a \in Ack : handler[a] = "pushed" ~>
        configures > 1 \/ \E i \in 1 .. Len(sent) : sent[i] = a

(* "Start and stop background ACK worker thread(s)."                       *)
(* (chain_style_replication_support.h:79): a Configure that stops the      *)
(* worker gets past it.                                                    *)
ConfigureReturns == configurer = "stopped" ~> configurer = "idle"
=============================================================================
