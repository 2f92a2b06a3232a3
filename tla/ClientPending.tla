---------------------------- MODULE ClientPending ----------------------------
(***************************************************************************)
(* The client's book of unacknowledged writes (src/src/client/client.cpp). *)
(*                                                                         *)
(* The main thread gives every write a request id, enters it in g_pending, *)
(* calls Write on the head and, after the last call, waits until g_pending *)
(* is empty.  The tail calls Ack in a thread of its own, which strikes the *)
(* write off.  A failed Write strikes it off too, though the head may have *)
(* accepted it all the same.                                               *)
(*                                                                         *)
(* Request ids restart at 1 in every process, so an Ack meant for an       *)
(* earlier client at the same address names a write of this one.           *)
(*                                                                         *)
(* The loop is that of run_bench_write, which issues all writes first and  *)
(* keeps metrics, or for the seeds that of run_bench_read, which makes one *)
(* call of do_write after another before any metrics are kept.             *)
(***************************************************************************)
EXTENDS Naturals, FiniteSets

CONSTANTS Total,     \* the writes of this client
          Earlier    \* ids of an earlier client whose Acks are still to come

ASSUME PendingAssumption == Total \in Nat /\ Earlier \subseteq 1 .. Total

Id == 1 .. Total

VARIABLES seeding,    \* whether these are the seed writes of bench-read
          phase,      \* where the main thread is
          next,       \* g_next_request_id
          pending,    \* the ids in g_pending
          call,       \* the Write call of each id
          accepted,   \* the writes the head accepted
          committed,  \* the writes the tail committed
          lost,       \* for the properties: whether an Ack was lost
          ack,        \* the Ack calls in flight
          confirmed,  \* the writes the client took an Ack for
          enabled,    \* whether the metrics window is open
          times,      \* the ids in pending_write_times
          count,      \* the counters of the metrics
          summary     \* the counters the summary line reports

servers == <<accepted, committed, lost>>
metrics == <<seeding, enabled, times, count, summary>>
vars == <<phase, next, pending, call, ack, confirmed, servers, metrics>>

Counters == [sent: Nat, acks: Nat, failures: Nat, samples: Nat]
NoCounts == [sent |-> 0, acks |-> 0, failures |-> 0, samples |-> 0]

TypeOK ==
    /\ {seeding, lost, enabled} \subseteq BOOLEAN
    /\ phase \in {"issue", "added", "collect", "wait", "stop", "sum", "samples", "done"}
    /\ next \in 1 .. Total + 1
    /\ {pending, times, accepted, committed, confirmed} \subseteq SUBSET Id
    /\ call \in [Id -> {"none", "sent", "ok", "failed", "succeeded", "dropped"}]
    /\ ack \subseteq [id: Id, own: BOOLEAN, pc: {"sent", "taken", "open", "counted"}]
    /\ {count, summary} \subseteq Counters

Init ==
    /\ seeding \in BOOLEAN /\ lost = FALSE
    /\ phase = "issue" /\ next = 1
    /\ pending = {} /\ times = {} /\ accepted = {} /\ committed = {} /\ confirmed = {}
    /\ call = [i \in Id |-> "none"]
    /\ ack = {[id |-> i, own |-> FALSE, pc |-> "sent"] : i \in Earlier}
    /\ enabled = ~seeding       \* benchmark_start_metrics_window
    /\ count = NoCounts /\ summary = NoCounts

(* fetch_add on a counter of the metrics, if the window is open *)
Note(c) == count' = IF enabled THEN [count EXCEPT ![c] = @ + 1] ELSE count

-----------------------------------------------------------------------------
(* The main thread *)

Answered(i) == call[i] \in {"succeeded", "dropped"}

AddPending ==
    /\ phase = "issue" /\ next <= Total
    /\ seeding => \A i \in 1 .. next - 1 : Answered(i)
    /\ pending' = pending \cup {next}
    /\ phase' = "added"
    /\ UNCHANGED <<next, call, ack, confirmed, servers, metrics>>

(* benchmark_note_write_issued, then the call *)
IssueWrite ==
    /\ phase = "added"
    /\ Note("sent")
    /\ times' = IF enabled THEN times \cup {next} ELSE times
    /\ call' = [call EXCEPT ![next] = "sent"]
    /\ next' = next + 1
    /\ phase' = "issue"
    /\ UNCHANGED <<pending, ack, confirmed, servers, seeding, enabled, summary>>

AllIssued ==
    /\ phase = "issue" /\ next > Total
    /\ phase' = "collect"
    /\ UNCHANGED <<next, pending, call, ack, confirmed, servers, metrics>>

(* The result of a call is taken; a failure strikes the write off. *)
Collecting == phase = "collect" \/ (seeding /\ phase = "issue")

CallSucceeded(i) ==
    /\ call[i] = "ok"
    /\ call' = [call EXCEPT ![i] = "succeeded"]
    /\ UNCHANGED count

CallFailed(i) ==
    /\ call[i] = "failed"
    /\ call' = [call EXCEPT ![i] = "dropped"]
    /\ Note("failures")

StrikeAnyCall(i) ==
    /\ Collecting
    /\ CallSucceeded(i) \/ CallFailed(i)
    /\ pending' = pending \ {i}
    /\ UNCHANGED <<phase, next, ack, confirmed, servers, seeding, enabled, times, summary>>
CollectResult(i) ==
    /\ Collecting
    /\ \/ CallSucceeded(i) /\ UNCHANGED pending
       \/ CallFailed(i) /\ pending' = pending \ {i}
    /\ UNCHANGED <<phase, next, ack, confirmed, servers, seeding, enabled, times, summary>>

AllCollected ==
    /\ phase = "collect" /\ \A i \in Id : Answered(i)
    /\ phase' = "wait"
    /\ UNCHANGED <<next, pending, call, ack, confirmed, servers, metrics>>

(* benchmark_wait_for_pending_acks: the size is polled, without a timeout. *)
PollPending ==
    /\ phase = "wait"
    /\ phase' = IF pending # {} THEN "wait" ELSE IF seeding THEN "done" ELSE "stop"
    /\ UNCHANGED <<next, pending, call, ack, confirmed, servers, metrics>>

StopMetricsWindow ==
    /\ phase = "stop"
    /\ enabled' = FALSE
    /\ phase' = "sum"
    /\ UNCHANGED <<next, pending, call, ack, confirmed, servers, seeding, times, count, summary>>

(* benchmark_build_summary loads one counter after another; Acks go on     *)
(* changing two of them, acks and samples.                                 *)
BuildSummary ==
    /\ phase = "sum"
    /\ summary' = [count EXCEPT !.samples = 0]
    /\ phase' = "samples"
    /\ UNCHANGED <<next, pending, call, ack, confirmed, servers, seeding, enabled, times, count>>

SumSamples ==
    /\ phase = "samples"
    /\ summary' = [summary EXCEPT !.samples = count.samples]
    /\ phase' = "done"
    /\ UNCHANGED <<next, pending, call, ack, confirmed, servers, seeding, enabled, times, count>>

MainStep == AddPending \/ IssueWrite \/ AllIssued \/ (\E i \in Id : CollectResult(i))
            \/ AllCollected \/ PollPending \/ StopMetricsWindow \/ BuildSummary
            \/ SumSamples

-----------------------------------------------------------------------------
(* ack_pending and benchmark_note_write_ack, in the thread of the Ack a *)

AckAt(a, pc) == ack' = (ack \ {a}) \cup {[a EXCEPT !.pc = pc]}

(* The write is struck off under g_pending_mtx, if it is there. *)
TakeAckUnchecked(a) ==
    /\ a.pc = "sent"
    /\ pending' = pending \ {a.id}
    /\ confirmed' = confirmed \cup (pending \cap {a.id})
    /\ AckAt(a, "taken")
    /\ UNCHANGED <<phase, next, call, servers, metrics>>
TakeAckKeeping(a) ==
    /\ a.pc = "sent"
    /\ confirmed' = confirmed \cup (pending \cap {a.id})
    /\ AckAt(a, "taken")
    /\ UNCHANGED <<phase, next, pending, call, servers, metrics>>
TakeAck(a) ==
    /\ a.pc = "sent"
    /\ IF a.id \in pending
       THEN /\ pending' = pending \ {a.id}
            /\ confirmed' = confirmed \cup {a.id}
            /\ AckAt(a, "taken")
       ELSE ack' = ack \ {a} /\ UNCHANGED <<pending, confirmed>>
    /\ UNCHANGED <<phase, next, call, servers, metrics>>

(* The window may close between the test and the counting. *)
TestWindow(a) ==
    /\ a.pc = "taken"
    /\ IF enabled THEN AckAt(a, "open") ELSE ack' = ack \ {a}
    /\ UNCHANGED <<phase, next, pending, call, confirmed, servers, metrics>>

CountAck(a) ==
    /\ a.pc = "open"
    /\ count' = [count EXCEPT !.acks = @ + 1]
    /\ AckAt(a, "counted")
    /\ UNCHANGED <<phase, next, pending, call, confirmed, servers, seeding, enabled, times, summary>>

(* The latency is a sample only if the time of the call was entered. *)
SampleAnyAck(a) ==
    /\ a.pc = "counted"
    /\ times' = times \ {a.id}
    /\ count' = [count EXCEPT !.samples = @ + 1]
    /\ ack' = ack \ {a}
    /\ UNCHANGED <<phase, next, pending, call, confirmed, servers, seeding, enabled, summary>>
SampleAck(a) ==
    /\ a.pc = "counted"
    /\ times' = times \ {a.id}
    /\ count' = IF a.id \in times THEN [count EXCEPT !.samples = @ + 1] ELSE count
    /\ ack' = ack \ {a}
    /\ UNCHANGED <<phase, next, pending, call, confirmed, servers, seeding, enabled, summary>>

AckStep(a) == TakeAck(a) \/ TestWindow(a) \/ CountAck(a) \/ SampleAck(a)

-----------------------------------------------------------------------------
(* The servers and the network, as the replication modules have them *)

HeadAccepts(i) ==
    /\ call[i] # "none" /\ i \notin accepted
    /\ accepted' = accepted \cup {i}
    /\ UNCHANGED <<phase, next, pending, call, committed, lost, ack, confirmed, metrics>>

HeadReplies(i) ==
    /\ call[i] = "sent" /\ i \in accepted
    /\ call' = [call EXCEPT ![i] = "ok"]
    /\ UNCHANGED <<phase, next, pending, ack, confirmed, servers, metrics>>

(* The call fails, before or after the head accepted the write. *)
WriteFails(i) ==
    /\ call[i] = "sent"
    /\ call' = [call EXCEPT ![i] = "failed"]
    /\ UNCHANGED <<phase, next, pending, ack, confirmed, servers, metrics>>

(* A write commits, also before its head's reply has come back. *)
TailCommits(i) ==
    /\ i \in accepted \ committed
    /\ committed' = committed \cup {i}
    /\ \/ ack' = ack \cup {[id |-> i, own |-> TRUE, pc |-> "sent"]} /\ UNCHANGED lost
       \/ lost' = TRUE /\ UNCHANGED ack
    /\ UNCHANGED <<phase, next, pending, call, accepted, confirmed, metrics>>

ServerStep(i) == HeadAccepts(i) \/ HeadReplies(i) \/ TailCommits(i)

-----------------------------------------------------------------------------
Terminating == phase = "done" /\ UNCHANGED vars

Next == \/ MainStep
        \/ \E a \in ack : AckStep(a)
        \/ \E i \in Id : ServerStep(i) \/ WriteFails(i)
        \/ Terminating

Spec == Init /\ [][Next]_vars

(* The threads of the client run, and the servers commit what the head     *)
(* accepts (ChainReplication, CROWNReplication: AcceptedIsAcked).          *)
Fairness == /\ WF_vars(MainStep)
            /\ WF_vars(\E a \in ack : AckStep(a))
            /\ \A i \in Id : WF_vars(ServerStep(i))

FairSpec == Spec /\ Fairness

-----------------------------------------------------------------------------
(* Properties *)

(* When the wait for pending acks is over every write whose call succeeded *)
(* is committed: the throughput bench-write reports is of committed        *)
(* writes, and bench-read reads keys whose seeds are there.  (Not so for   *)
(* an id of an earlier client, see ConfirmedIsCommitted.)                  *)
EndIsCommitted ==
    phase \in {"stop", "sum", "samples", "done"} =>
        \A i \in Id \ Earlier : call[i] = "succeeded" => i \in committed

(* Every write issued is pending, confirmed or failed (both, if the Ack    *)
(* overtakes the failure), and while the window is open every confirmation *)
(* is counted once or about to be.                                         *)
Ledger ==
    /\ {i \in Id : call[i] # "none"}
         = {i \in pending \cup confirmed : call[i] # "none"}
             \cup {i \in Id : call[i] = "dropped"}
    /\ enabled => /\ count.acks + Cardinality({a \in ack : a.pc \in {"taken", "open"}})
                       = Cardinality(confirmed)
                  /\ count.failures = Cardinality({i \in Id : call[i] = "dropped"})

(* An average latency is over Acks that were counted, each of a call of    *)
(* its own, also when an Ack of an earlier client comes before the time of *)
(* the call is entered.  What the summary reports is loaded while Acks are *)
(* still being counted, and may miss some; it reports no Ack that no write *)
(* was confirmed by, and no more samples than writes.                      *)
SamplesAreAcks ==
    /\ count.samples <= count.acks
    /\ count.samples + Cardinality(times) <= count.sent
    /\ summary.acks <= Cardinality(confirmed)
    /\ summary.samples <= summary.sent

(* Unless an Ack is lost the client comes to its end, also when Write      *)
(* calls fail: no Ack of its own finds the write not yet entered.          *)
ClientEnds == phase = "issue" ~> phase = "done" \/ lost

(* "non-blocking write (ack printed when tail confirms)", client.cpp:1435: *)
(* a write is reported as committed only when it is.                       *)
ConfirmedIsCommitted == confirmed \subseteq committed
=============================================================================
