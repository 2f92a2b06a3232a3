------------------------- MODULE ClientPendingProofs -------------------------
(***************************************************************************)
(* Theorems about the client's book of pending writes, for any number of   *)
(* writes and of late Acks of earlier clients, lost Acks included.         *)
(***************************************************************************)
EXTENDS ClientPending, FiniteSetTheorems, TLAPS

Taken   == {a \in ack : a.pc \in {"taken", "open"}}
Counted == {a \in ack : a.pc = "counted"}
Dropped == {i \in Id : call[i] = "dropped"}

(* Ids are given out in order, and a write is entered before its call. *)
InOrder ==
    /\ \A i \in Id : call[i] # "none" <=> i < next
    /\ \A i \in pending \cup confirmed : i < next \/ (i = next /\ phase = "added")
    /\ phase = "added" => next <= Total /\ next \in pending \cup confirmed

(* The main thread goes on only when all calls are answered, and to the    *)
(* end only when nothing is pending.                                       *)
Phases ==
    /\ phase \notin {"issue", "added"} => next = Total + 1
    /\ phase \notin {"issue", "added", "collect"} => \A i \in Id : Answered(i)
    /\ phase \in {"stop", "sum", "samples", "done"} => pending = {}

(* A write leaves the book by an Ack once, or by a failure. *)
Book ==
    /\ pending \cap confirmed = {}
    /\ \A i \in Id : call[i] # "none" => i \in pending \cup confirmed \cup Dropped

(* An Ack in flight is of a committed write, or of an earlier client; one  *)
(* that was taken confirmed its write, and no other did.                   *)
Acks ==
    /\ \A a \in ack : IF a.pc = "sent"
                      THEN a.id \in IF a.own THEN committed ELSE Earlier
                      ELSE a.id \in confirmed
    /\ \A a, b \in ack : a.id = b.id /\ "sent" \notin {a.pc, b.pc} => a = b
    /\ confirmed \subseteq committed \cup Earlier

(* The counters, with the Acks that are between two of them *)
Counts ==
    /\ IsFiniteSet(Taken) /\ IsFiniteSet(Counted)
    /\ count.acks + Cardinality(Taken) <= Cardinality(confirmed)
    /\ enabled => /\ count.acks + Cardinality(Taken) = Cardinality(confirmed)
                  /\ count.failures = Cardinality(Dropped)
    /\ count.samples + Cardinality(Counted) <= count.acks
    /\ count.samples + Cardinality(times) <= count.sent

(* The summary, as far as it is read: no counter ever goes down. *)
Summed ==
    /\ summary.acks <= count.acks /\ summary.samples <= count.samples
    /\ phase = "samples" => summary.sent = count.sent
    /\ phase # "samples" => summary.samples <= summary.sent
    /\ phase \in {"samples", "done"} \/ summary = NoCounts

IInv == TypeOK /\ InOrder /\ Phases /\ Book /\ Acks /\ Counts /\ Summed

-----------------------------------------------------------------------------
LEMMA NoteEffect ==
  ASSUME count \in Counters, NEW c \in {"sent", "acks", "failures"}, Note(c)
  PROVE  /\ count' \in Counters
         /\ ~enabled => count' = count
         /\ enabled => /\ count'[c] = count[c] + 1
                       /\ \A d \in {"sent", "acks", "failures", "samples"} :
                              d # c => count'[d] = count[d]
  BY DEF Note, Counters

LEMMA NoteAcks ==
  ASSUME count \in Counters, Note("acks")
  PROVE  /\ count' \in Counters
         /\ ~enabled => count' = count
         /\ enabled => /\ count'.acks = count.acks + 1
                       /\ count'.sent = count.sent
  BY DEF Note, Counters

LEMMA StepTypeOK ==
  ASSUME TypeOK, InOrder, [Next]_vars
  PROVE  TypeOK'
  <1>1. CASE AddPending
    BY <1>1 DEF AddPending, TypeOK, InOrder, Id, Counters, servers, metrics
  <1>2. CASE IssueWrite
    <2>1. next \in Id /\ next' \in 1 .. Total + 1
      BY <1>2, PendingAssumption DEF IssueWrite, TypeOK, InOrder, Id
    <2>2. count' \in Counters
      BY <1>2, NoteEffect DEF IssueWrite, TypeOK
    <2>3. call' \in [Id -> {"none", "sent", "ok", "failed", "succeeded", "dropped"}]
      BY <1>2 DEF IssueWrite, TypeOK
    <2> QED
      BY <1>2, <2>1, <2>2, <2>3 DEF IssueWrite, TypeOK, servers, metrics
  <1>3. CASE AllIssued
    BY <1>3 DEF AllIssued, TypeOK, InOrder, Id, Counters, servers, metrics
  <1>4. ASSUME NEW i \in Id, CollectResult(i) PROVE TypeOK'
    BY <1>4 DEF CollectResult, CallSucceeded, CallFailed, Note, TypeOK, InOrder, Id, Counters, servers, metrics
  <1>5. CASE AllCollected
    BY <1>5 DEF AllCollected, TypeOK, InOrder, Id, Counters, servers, metrics
  <1>6. CASE PollPending
    BY <1>6 DEF PollPending, TypeOK, InOrder, Id, Counters, servers, metrics
  <1>7. CASE StopMetricsWindow
    BY <1>7 DEF StopMetricsWindow, TypeOK, InOrder, Id, Counters, servers, metrics
  <1>8. CASE BuildSummary
    BY <1>8 DEF BuildSummary, TypeOK, InOrder, Id, Counters, servers, metrics
  <1>9. ASSUME NEW a \in ack, TakeAck(a) PROVE TypeOK'
    BY <1>9 DEF TakeAck, AckAt, TypeOK, InOrder, Id, Counters, servers, metrics
  <1>10. ASSUME NEW a \in ack, CountAck(a) PROVE TypeOK'
    BY <1>10 DEF CountAck, AckAt, Note, TypeOK, InOrder, Id, Counters, servers, metrics
  <1>11. ASSUME NEW a \in ack, SampleAck(a) PROVE TypeOK'
    BY <1>11 DEF SampleAck, AckAt, TypeOK, InOrder, Id, Counters, servers, metrics
  <1>12. ASSUME NEW i \in Id, HeadAccepts(i) PROVE TypeOK'
    BY <1>12 DEF HeadAccepts, TypeOK, InOrder, Id, Counters, servers, metrics
  <1>13. ASSUME NEW i \in Id, HeadReplies(i) PROVE TypeOK'
    BY <1>13 DEF HeadReplies, TypeOK, InOrder, Id, Counters, servers, metrics
  <1>14. ASSUME NEW i \in Id, TailCommits(i) PROVE TypeOK'
    <2>1. ack' \subseteq [id: Id, own: BOOLEAN, pc: {"sent", "taken", "open", "counted"}]
      <3>1. [id |-> i, own |-> TRUE, pc |-> "sent"]
              \in [id: Id, own: BOOLEAN, pc: {"sent", "taken", "open", "counted"}]
        BY <1>14
      <3> QED
        BY <1>14, <3>1 DEF TailCommits, TypeOK
    <2>2. committed' \in SUBSET Id /\ lost' \in BOOLEAN
      BY <1>14 DEF TailCommits, TypeOK
    <2> QED
      BY <1>14, <2>1, <2>2 DEF TailCommits, TypeOK, metrics
  <1>15. ASSUME NEW i \in Id, WriteFails(i) PROVE TypeOK'
    BY <1>15 DEF WriteFails, TypeOK, InOrder, Id, Counters, servers, metrics
  <1>17. ASSUME NEW a \in ack, TestWindow(a) PROVE TypeOK'
    BY <1>17 DEF TestWindow, AckAt, TypeOK, InOrder, Id, Counters, servers, metrics
  <1>18. CASE SumSamples
    BY <1>18 DEF SumSamples, TypeOK, InOrder, Id, Counters, servers, metrics
  <1>16. CASE UNCHANGED vars
    BY <1>16 DEF vars, TypeOK, InOrder, Id, Counters, servers, metrics
  <1> QED
    BY <1>1, <1>2, <1>3, <1>4, <1>5, <1>6, <1>7, <1>8, <1>9, <1>10, <1>11, <1>12, <1>13, <1>14, <1>15, <1>16,
       <1>17, <1>18
       DEF Next, MainStep, AckStep, ServerStep, Terminating

LEMMA StepInOrder ==
  ASSUME TypeOK, InOrder, [Next]_vars
  PROVE  InOrder'
  <1>1. CASE AddPending
    BY <1>1 DEF AddPending, TypeOK, InOrder, Id, Dropped, servers, metrics
  <1>2. CASE IssueWrite
    BY <1>2 DEF IssueWrite, TypeOK, InOrder, Id, Dropped, servers, metrics
  <1>3. CASE AllIssued
    BY <1>3 DEF AllIssued, TypeOK, InOrder, Id, Dropped, servers, metrics
  <1>4. ASSUME NEW i \in Id, CollectResult(i) PROVE InOrder'
    <2>1. /\ UNCHANGED <<next, phase, confirmed>> /\ pending' \subseteq pending
          /\ \A j \in Id : call'[j] # "none" <=> call[j] # "none"
      BY <1>4 DEF CollectResult, CallSucceeded, CallFailed, TypeOK
    <2>2. phase # "added"
      BY <1>4 DEF CollectResult, Collecting
    <2> QED
      BY <2>1, <2>2 DEF InOrder
  <1>5. CASE AllCollected
    BY <1>5 DEF AllCollected, TypeOK, InOrder, Id, Dropped, servers, metrics
  <1>6. CASE PollPending
    BY <1>6 DEF PollPending, TypeOK, InOrder, Id, Dropped, servers, metrics
  <1>7. CASE StopMetricsWindow
    BY <1>7 DEF StopMetricsWindow, TypeOK, InOrder, Id, Dropped, servers, metrics
  <1>8. CASE BuildSummary
    BY <1>8 DEF BuildSummary, TypeOK, InOrder, Id, Dropped, servers, metrics
  <1>9. ASSUME NEW a \in ack, TakeAck(a) PROVE InOrder'
    BY <1>9 DEF TakeAck, AckAt, TypeOK, InOrder, Id, Dropped, servers, metrics
  <1>10. ASSUME NEW a \in ack, CountAck(a) PROVE InOrder'
    BY <1>10 DEF CountAck, AckAt, TypeOK, InOrder, Id, Dropped, servers, metrics
  <1>11. ASSUME NEW a \in ack, SampleAck(a) PROVE InOrder'
    BY <1>11 DEF SampleAck, AckAt, TypeOK, InOrder, Id, Dropped, servers, metrics
  <1>12. ASSUME NEW i \in Id, HeadAccepts(i) PROVE InOrder'
    BY <1>12 DEF HeadAccepts, TypeOK, InOrder, Id, Dropped, servers, metrics
  <1>13. ASSUME NEW i \in Id, HeadReplies(i) PROVE InOrder'
    BY <1>13 DEF HeadReplies, TypeOK, InOrder, Id, Dropped, servers, metrics
  <1>14. ASSUME NEW i \in Id, TailCommits(i) PROVE InOrder'
    BY <1>14 DEF TailCommits, TypeOK, InOrder, Id, Dropped, servers, metrics
  <1>15. ASSUME NEW i \in Id, WriteFails(i) PROVE InOrder'
    BY <1>15 DEF WriteFails, TypeOK, InOrder, Id, Dropped, servers, metrics
  <1>17. ASSUME NEW a \in ack, TestWindow(a) PROVE InOrder'
    BY <1>17 DEF TestWindow, AckAt, TypeOK, InOrder, Id, Dropped, servers, metrics
  <1>18. CASE SumSamples
    BY <1>18 DEF SumSamples, TypeOK, InOrder, Id, Dropped, servers, metrics
  <1>16. CASE UNCHANGED vars
    BY <1>16 DEF vars, TypeOK, InOrder, Id, Dropped, servers, metrics
  <1> QED
    BY <1>1, <1>2, <1>3, <1>4, <1>5, <1>6, <1>7, <1>8, <1>9, <1>10, <1>11, <1>12, <1>13, <1>14, <1>15, <1>16,
       <1>17, <1>18
       DEF Next, MainStep, AckStep, ServerStep, Terminating

LEMMA StepPhases ==
  ASSUME TypeOK, InOrder, Phases, [Next]_vars
  PROVE  Phases'
  <1>1. CASE AddPending
    BY <1>1 DEF AddPending, TypeOK, InOrder, Phases, Id, Answered, servers, metrics
  <1>2. CASE IssueWrite
    BY <1>2 DEF IssueWrite, TypeOK, InOrder, Phases, Id, Answered, servers, metrics
  <1>3. CASE AllIssued
    <2>1. next = Total + 1
      BY <1>3, PendingAssumption DEF AllIssued, TypeOK
    <2> QED
      BY <1>3, <2>1 DEF AllIssued, TypeOK, Phases, Id, Answered
  <1>4. ASSUME NEW i \in Id, CollectResult(i) PROVE Phases'
    BY <1>4 DEF CollectResult, CallSucceeded, CallFailed, TypeOK, InOrder, Phases, Id, Answered, servers, metrics
  <1>5. CASE AllCollected
    BY <1>5 DEF AllCollected, TypeOK, InOrder, Phases, Id, Answered, servers, metrics
  <1>6. CASE PollPending
    BY <1>6 DEF PollPending, TypeOK, InOrder, Phases, Id, Answered, servers, metrics
  <1>7. CASE StopMetricsWindow
    BY <1>7 DEF StopMetricsWindow, TypeOK, InOrder, Phases, Id, Answered, servers, metrics
  <1>8. CASE BuildSummary
    BY <1>8 DEF BuildSummary, TypeOK, InOrder, Phases, Id, Answered, servers, metrics
  <1>9. ASSUME NEW a \in ack, TakeAck(a) PROVE Phases'
    BY <1>9 DEF TakeAck, AckAt, TypeOK, InOrder, Phases, Id, Answered, servers, metrics
  <1>10. ASSUME NEW a \in ack, CountAck(a) PROVE Phases'
    BY <1>10 DEF CountAck, AckAt, TypeOK, InOrder, Phases, Id, Answered, servers, metrics
  <1>11. ASSUME NEW a \in ack, SampleAck(a) PROVE Phases'
    BY <1>11 DEF SampleAck, AckAt, TypeOK, InOrder, Phases, Id, Answered, servers, metrics
  <1>12. ASSUME NEW i \in Id, HeadAccepts(i) PROVE Phases'
    BY <1>12 DEF HeadAccepts, TypeOK, InOrder, Phases, Id, Answered, servers, metrics
  <1>13. ASSUME NEW i \in Id, HeadReplies(i) PROVE Phases'
    BY <1>13 DEF HeadReplies, TypeOK, InOrder, Phases, Id, Answered, servers, metrics
  <1>14. ASSUME NEW i \in Id, TailCommits(i) PROVE Phases'
    BY <1>14 DEF TailCommits, TypeOK, InOrder, Phases, Id, Answered, servers, metrics
  <1>15. ASSUME NEW i \in Id, WriteFails(i) PROVE Phases'
    BY <1>15 DEF WriteFails, TypeOK, InOrder, Phases, Id, Answered, servers, metrics
  <1>17. ASSUME NEW a \in ack, TestWindow(a) PROVE Phases'
    BY <1>17 DEF TestWindow, AckAt, TypeOK, InOrder, Phases, Id, Answered, servers, metrics
  <1>18. CASE SumSamples
    BY <1>18 DEF SumSamples, TypeOK, InOrder, Phases, Id, Answered, servers, metrics
  <1>16. CASE UNCHANGED vars
    BY <1>16 DEF vars, TypeOK, InOrder, Phases, Id, Answered, servers, metrics
  <1> QED
    BY <1>1, <1>2, <1>3, <1>4, <1>5, <1>6, <1>7, <1>8, <1>9, <1>10, <1>11, <1>12, <1>13, <1>14, <1>15, <1>16,
       <1>17, <1>18
       DEF Next, MainStep, AckStep, ServerStep, Terminating

LEMMA StepBook ==
  ASSUME TypeOK, InOrder, Book, [Next]_vars
  PROVE  Book'
  <1>1. CASE AddPending
    BY <1>1 DEF AddPending, TypeOK, InOrder, Book, Id, Dropped, servers, metrics
  <1>2. CASE IssueWrite
    BY <1>2 DEF IssueWrite, TypeOK, InOrder, Book, Id, Dropped, servers, metrics
  <1>3. CASE AllIssued
    BY <1>3 DEF AllIssued, TypeOK, InOrder, Book, Id, Dropped, servers, metrics
  <1>4. ASSUME NEW i \in Id, CollectResult(i) PROVE Book'
    BY <1>4 DEF CollectResult, CallSucceeded, CallFailed, TypeOK, InOrder, Book, Id, Dropped, servers, metrics
  <1>5. CASE AllCollected
    BY <1>5 DEF AllCollected, TypeOK, InOrder, Book, Id, Dropped, servers, metrics
  <1>6. CASE PollPending
    BY <1>6 DEF PollPending, TypeOK, InOrder, Book, Id, Dropped, servers, metrics
  <1>7. CASE StopMetricsWindow
    BY <1>7 DEF StopMetricsWindow, TypeOK, InOrder, Book, Id, Dropped, servers, metrics
  <1>8. CASE BuildSummary
    BY <1>8 DEF BuildSummary, TypeOK, InOrder, Book, Id, Dropped, servers, metrics
  <1>9. ASSUME NEW a \in ack, TakeAck(a) PROVE Book'
    BY <1>9 DEF TakeAck, AckAt, TypeOK, InOrder, Book, Id, Dropped, servers, metrics
  <1>10. ASSUME NEW a \in ack, CountAck(a) PROVE Book'
    BY <1>10 DEF CountAck, AckAt, TypeOK, InOrder, Book, Id, Dropped, servers, metrics
  <1>11. ASSUME NEW a \in ack, SampleAck(a) PROVE Book'
    BY <1>11 DEF SampleAck, AckAt, TypeOK, InOrder, Book, Id, Dropped, servers, metrics
  <1>12. ASSUME NEW i \in Id, HeadAccepts(i) PROVE Book'
    BY <1>12 DEF HeadAccepts, TypeOK, InOrder, Book, Id, Dropped, servers, metrics
  <1>13. ASSUME NEW i \in Id, HeadReplies(i) PROVE Book'
    BY <1>13 DEF HeadReplies, TypeOK, InOrder, Book, Id, Dropped, servers, metrics
  <1>14. ASSUME NEW i \in Id, TailCommits(i) PROVE Book'
    BY <1>14 DEF TailCommits, TypeOK, InOrder, Book, Id, Dropped, servers, metrics
  <1>15. ASSUME NEW i \in Id, WriteFails(i) PROVE Book'
    BY <1>15 DEF WriteFails, TypeOK, InOrder, Book, Id, Dropped, servers, metrics
  <1>17. ASSUME NEW a \in ack, TestWindow(a) PROVE Book'
    BY <1>17 DEF TestWindow, AckAt, TypeOK, InOrder, Book, Id, Dropped, servers, metrics
  <1>18. CASE SumSamples
    BY <1>18 DEF SumSamples, TypeOK, InOrder, Book, Id, Dropped, servers, metrics
  <1>16. CASE UNCHANGED vars
    BY <1>16 DEF vars, TypeOK, InOrder, Book, Id, Dropped, servers, metrics
  <1> QED
    BY <1>1, <1>2, <1>3, <1>4, <1>5, <1>6, <1>7, <1>8, <1>9, <1>10, <1>11, <1>12, <1>13, <1>14, <1>15, <1>16,
       <1>17, <1>18
       DEF Next, MainStep, AckStep, ServerStep, Terminating

LEMMA StepAcks ==
  ASSUME TypeOK, Book, Acks, [Next]_vars
  PROVE  Acks'
  <1>1. CASE AddPending
    BY <1>1 DEF AddPending, TypeOK, Book, Acks, Id, servers, metrics
  <1>2. CASE IssueWrite
    BY <1>2 DEF IssueWrite, TypeOK, Book, Acks, Id, servers, metrics
  <1>3. CASE AllIssued
    BY <1>3 DEF AllIssued, TypeOK, Book, Acks, Id, servers, metrics
  <1>4. ASSUME NEW i \in Id, CollectResult(i) PROVE Acks'
    BY <1>4 DEF CollectResult, CallSucceeded, CallFailed, TypeOK, Book, Acks, Id, servers, metrics
  <1>5. CASE AllCollected
    BY <1>5 DEF AllCollected, TypeOK, Book, Acks, Id, servers, metrics
  <1>6. CASE PollPending
    BY <1>6 DEF PollPending, TypeOK, Book, Acks, Id, servers, metrics
  <1>7. CASE StopMetricsWindow
    BY <1>7 DEF StopMetricsWindow, TypeOK, Book, Acks, Id, servers, metrics
  <1>8. CASE BuildSummary
    BY <1>8 DEF BuildSummary, TypeOK, Book, Acks, Id, servers, metrics
  <1>9. ASSUME NEW a \in ack, TakeAck(a) PROVE Acks'
    BY <1>9 DEF TakeAck, AckAt, TypeOK, Book, Acks, Id, servers, metrics
  <1>10. ASSUME NEW a \in ack, CountAck(a) PROVE Acks'
    BY <1>10 DEF CountAck, AckAt, TypeOK, Book, Acks, Id, servers, metrics
  <1>11. ASSUME NEW a \in ack, SampleAck(a) PROVE Acks'
    BY <1>11 DEF SampleAck, AckAt, TypeOK, Book, Acks, Id, servers, metrics
  <1>12. ASSUME NEW i \in Id, HeadAccepts(i) PROVE Acks'
    BY <1>12 DEF HeadAccepts, TypeOK, Book, Acks, Id, servers, metrics
  <1>13. ASSUME NEW i \in Id, HeadReplies(i) PROVE Acks'
    BY <1>13 DEF HeadReplies, TypeOK, Book, Acks, Id, servers, metrics
  <1>14. ASSUME NEW i \in Id, TailCommits(i) PROVE Acks'
    BY <1>14 DEF TailCommits, TypeOK, Book, Acks, Id, servers, metrics
  <1>15. ASSUME NEW i \in Id, WriteFails(i) PROVE Acks'
    BY <1>15 DEF WriteFails, TypeOK, Book, Acks, Id, servers, metrics
  <1>17. ASSUME NEW a \in ack, TestWindow(a) PROVE Acks'
    BY <1>17 DEF TestWindow, AckAt, TypeOK, Book, Acks, Id, servers, metrics
  <1>18. CASE SumSamples
    BY <1>18 DEF SumSamples, TypeOK, Book, Acks, Id, servers, metrics
  <1>16. CASE UNCHANGED vars
    BY <1>16 DEF vars, TypeOK, Book, Acks, Id, servers, metrics
  <1> QED
    BY <1>1, <1>2, <1>3, <1>4, <1>5, <1>6, <1>7, <1>8, <1>9, <1>10, <1>11, <1>12, <1>13, <1>14, <1>15, <1>16,
       <1>17, <1>18
       DEF Next, MainStep, AckStep, ServerStep, Terminating

-----------------------------------------------------------------------------
(* The counters *)

LEMMA Finite ==
  ASSUME TypeOK
  PROVE  /\ IsFiniteSet(Id)
         /\ IsFiniteSet(confirmed) /\ IsFiniteSet(times) /\ IsFiniteSet(Dropped)
  <1>1. IsFiniteSet(Id)
    BY PendingAssumption, FS_Interval DEF Id
  <1>2. confirmed \in SUBSET Id /\ times \in SUBSET Id /\ Dropped \in SUBSET Id
    BY DEF TypeOK, Dropped
  <1> QED
    BY <1>1, <1>2, FS_Subset

LEMMA CountsAreNat ==
  ASSUME TypeOK, Counts
  PROVE  /\ Cardinality(Taken) \in Nat /\ Cardinality(Counted) \in Nat
         /\ Cardinality(confirmed) \in Nat /\ Cardinality(times) \in Nat
         /\ Cardinality(Dropped) \in Nat
         /\ count.sent \in Nat /\ count.acks \in Nat /\ count.failures \in Nat
         /\ count.samples \in Nat
  <1>1. count \in Counters
    BY DEF TypeOK
  <1> QED
    BY <1>1, Finite, FS_CardinalityType DEF Counts, Counters

LEMMA CountsKept ==
  ASSUME Counts, UNCHANGED <<confirmed, times, count>>, enabled' => enabled,
         Taken' = Taken, Counted' = Counted, Dropped' = Dropped
  PROVE  Counts'
  BY DEF Counts

LEMMA IssueCounts ==
  ASSUME TypeOK, InOrder, Counts, IssueWrite
  PROVE  Counts'
  <1>1. UNCHANGED <<ack, confirmed, enabled>> /\ Taken' = Taken /\ Counted' = Counted
    BY DEF IssueWrite, Taken, Counted
  <1>2. Dropped' = Dropped
    <2>1. next \in Id /\ call[next] = "none"
      BY PendingAssumption DEF IssueWrite, InOrder, TypeOK, Id
    <2> QED
      BY <2>1 DEF IssueWrite, Dropped, TypeOK
  <1>3. CASE ~enabled
    <2>1. count' = count /\ times' = times
      BY <1>3, NoteEffect DEF IssueWrite, TypeOK
    <2> QED
      BY <1>1, <1>2, <2>1 DEF Counts
  <1>4. CASE enabled
    <2>1. /\ count'.sent = count.sent + 1 /\ count'.acks = count.acks
          /\ count'.failures = count.failures /\ count'.samples = count.samples
      BY <1>4 DEF IssueWrite, Note, TypeOK, Counters
    <2>2. times' = times \cup {next}
      BY <1>4 DEF IssueWrite
    <2>3. /\ Cardinality(times') \in Nat
          /\ Cardinality(times') <= Cardinality(times) + 1
      <3>1. Cardinality(times') =
              IF next \in times THEN Cardinality(times) ELSE Cardinality(times) + 1
        BY <2>2, Finite, FS_AddElement
      <3> QED
        BY <3>1, CountsAreNat
    <2> QED
      BY <1>1, <1>2, <2>1, <2>3, CountsAreNat DEF Counts
  <1> QED
    BY <1>3, <1>4

LEMMA CollectCounts ==
  ASSUME TypeOK, Counts, NEW i \in Id, CollectResult(i)
  PROVE  Counts'
  <1>1. UNCHANGED <<ack, confirmed, times, enabled>>
        /\ Taken' = Taken /\ Counted' = Counted
    BY DEF CollectResult, Taken, Counted
  <1>2. CASE CallSucceeded(i)
    <2>1. count' = count /\ Dropped' = Dropped
      BY <1>2 DEF CallSucceeded, Dropped, TypeOK
    <2> QED
      BY <1>1, <2>1, CountsKept
  <1>3. CASE CallFailed(i)
    <2>1. Dropped' = Dropped \cup {i} /\ i \notin Dropped
      BY <1>3 DEF CallFailed, Dropped, TypeOK
    <2>2. Cardinality(Dropped') = Cardinality(Dropped) + 1
      BY <2>1, Finite, FS_AddElement
    <2>3. CASE ~enabled
      <3>1. count' = count
        BY <1>3, <2>3 DEF CallFailed, Note
      <3> QED
        BY <1>1, <2>3, <3>1 DEF Counts
    <2>4. CASE enabled
      <3>1. /\ count'.sent = count.sent /\ count'.acks = count.acks
            /\ count'.failures = count.failures + 1 /\ count'.samples = count.samples
        BY <1>3, <2>4 DEF CallFailed, Note, TypeOK, Counters
      <3> QED
        BY <1>1, <2>2, <2>4, <3>1 DEF Counts
    <2> QED
      BY <2>3, <2>4
  <1> QED
    BY <1>2, <1>3 DEF CollectResult

LEMMA TakeCounts ==
  ASSUME TypeOK, Book, Acks, Counts, NEW a \in ack, TakeAck(a)
  PROVE  Counts'
  <1>1. UNCHANGED <<times, count, enabled>> /\ Dropped' = Dropped
    BY DEF TakeAck, metrics, Dropped
  <1>2. CASE a.id \notin pending
    <2>1. ack' = ack \ {a} /\ confirmed' = confirmed /\ a.pc = "sent"
      BY <1>2 DEF TakeAck
    <2>2. Taken' = Taken /\ Counted' = Counted
      BY <2>1 DEF Taken, Counted
    <2> QED
      BY <1>1, <2>1, <2>2, CountsKept
  <1>3. CASE a.id \in pending
    <2> DEFINE b == [a EXCEPT !.pc = "taken"]
    <2>1. /\ ack' = (ack \ {a}) \cup {b} /\ a.pc = "sent"
          /\ confirmed' = confirmed \cup {a.id} /\ a.id \notin confirmed
      BY <1>3 DEF TakeAck, AckAt, Book
    <2>2. b.pc = "taken" /\ b.id = a.id
      BY DEF TypeOK
    <2> HIDE DEF b
    <2>3. b \notin ack
      BY <2>1, <2>2 DEF Acks
    <2>4. Taken' = Taken \cup {b} /\ b \notin Taken /\ Counted' = Counted
      BY <2>1, <2>2, <2>3 DEF Taken, Counted
    <2>5. /\ IsFiniteSet(Taken')
          /\ Cardinality(Taken') = Cardinality(Taken) + 1
          /\ Cardinality(confirmed') = Cardinality(confirmed) + 1
      BY <2>1, <2>4, Finite, FS_AddElement DEF Counts
    <2> QED
      BY <1>1, <2>4, <2>5, CountsAreNat DEF Counts
  <1> QED
    BY <1>2, <1>3

LEMMA TestCounts ==
  ASSUME TypeOK, Acks, Counts, NEW a \in ack, TestWindow(a)
  PROVE  Counts'
  <1>1. /\ UNCHANGED <<times, confirmed, enabled, count>> /\ Dropped' = Dropped
        /\ a.pc = "taken"
    BY DEF TestWindow, Dropped, metrics
  <1>2. CASE ~enabled
    <2>1. ack' = ack \ {a}
      BY <1>2 DEF TestWindow
    <2>2. Taken' = Taken \ {a} /\ a \in Taken /\ Counted' = Counted
      BY <1>1, <2>1 DEF Taken, Counted
    <2>3. IsFiniteSet(Taken') /\ Cardinality(Taken') = Cardinality(Taken) - 1
      BY <2>2, FS_RemoveElement DEF Counts
    <2>4. count.acks + Cardinality(Taken') <= Cardinality(confirmed)
      BY <2>3, CountsAreNat DEF Counts
    <2> QED
      BY <1>1, <1>2, <2>1, <2>2, <2>3, <2>4 DEF Counts
  <1>3. CASE enabled
    <2> DEFINE b == [a EXCEPT !.pc = "open"]
    <2>1. ack' = (ack \ {a}) \cup {b}
      BY <1>3 DEF TestWindow, AckAt
    <2>2. b.pc = "open"
      BY DEF TypeOK
    <2> HIDE DEF b
    <2>3. Taken' = (Taken \ {a}) \cup {b} /\ a \in Taken /\ Counted' = Counted
      BY <1>1, <2>1, <2>2 DEF Taken, Counted
    <2>4. IsFiniteSet(Taken \ {a}) /\ Cardinality(Taken \ {a}) = Cardinality(Taken) - 1
      BY <2>3, FS_RemoveElement DEF Counts
    <2>5. b \notin Taken
      <3>1. b.id = a.id
        BY DEF TypeOK, b
      <3>2. a # b
        BY <1>1, <2>2
      <3> QED
        BY <1>1, <2>2, <3>1, <3>2 DEF Acks, Taken
    <2>6. IsFiniteSet(Taken') /\ Cardinality(Taken') = Cardinality(Taken)
      <3>1. b \notin Taken \ {a}
        BY <2>5
      <3>2. /\ IsFiniteSet((Taken \ {a}) \cup {b})
            /\ Cardinality((Taken \ {a}) \cup {b}) = Cardinality(Taken \ {a}) + 1
        BY <2>4, <3>1, FS_AddElement
      <3> QED
        BY <2>3, <2>4, <3>2, CountsAreNat
    <2> QED
      BY <1>1, <1>3, <2>3, <2>6 DEF Counts
  <1> QED
    BY <1>2, <1>3

LEMMA CountCounts ==
  ASSUME TypeOK, Counts, NEW a \in ack, CountAck(a)
  PROVE  Counts'
  <1>1. /\ UNCHANGED <<times, confirmed, enabled>> /\ Dropped' = Dropped
        /\ a.pc = "open"
    BY DEF CountAck, Dropped
  <1> DEFINE b == [a EXCEPT !.pc = "counted"]
  <1>2. ack' = (ack \ {a}) \cup {b}
    BY DEF CountAck, AckAt
  <1>3. /\ count'.sent = count.sent /\ count'.acks = count.acks + 1
        /\ count'.failures = count.failures /\ count'.samples = count.samples
    BY DEF CountAck, TypeOK, Counters
  <1>4. b.pc = "counted"
    BY DEF TypeOK
  <1> HIDE DEF b
  <1>5. Taken' = Taken \ {a} /\ a \in Taken /\ Counted' = Counted \cup {b}
    BY <1>1, <1>2, <1>4 DEF Taken, Counted
  <1>6. /\ IsFiniteSet(Taken') /\ Cardinality(Taken') = Cardinality(Taken) - 1
        /\ IsFiniteSet(Counted')
        /\ Cardinality(Counted') \in {Cardinality(Counted), Cardinality(Counted) + 1}
    BY <1>5, FS_RemoveElement, FS_AddElement DEF Counts
  <1> QED
    BY <1>1, <1>3, <1>6, CountsAreNat DEF Counts

LEMMA SampleCounts ==
  ASSUME TypeOK, Counts, NEW a \in ack, SampleAck(a)
  PROVE  Counts'
  <1>1. /\ UNCHANGED <<confirmed, enabled>> /\ Dropped' = Dropped
        /\ a.pc = "counted" /\ ack' = ack \ {a} /\ times' = times \ {a.id}
    BY DEF SampleAck, Dropped
  <1>2. Taken' = Taken /\ Counted' = Counted \ {a} /\ a \in Counted
    BY <1>1 DEF Taken, Counted
  <1>3. IsFiniteSet(Counted') /\ Cardinality(Counted') = Cardinality(Counted) - 1
    BY <1>2, FS_RemoveElement DEF Counts
  <1>4. CASE a.id \in times
    <2>1. /\ count'.sent = count.sent /\ count'.acks = count.acks
          /\ count'.failures = count.failures /\ count'.samples = count.samples + 1
      BY <1>4 DEF SampleAck, TypeOK, Counters
    <2>2. Cardinality(times') = Cardinality(times) - 1
      BY <1>1, <1>4, Finite, FS_RemoveElement
    <2> QED
      BY <1>1, <1>2, <1>3, <2>1, <2>2, CountsAreNat DEF Counts
  <1>5. CASE a.id \notin times
    <2>1. /\ count'.sent = count.sent /\ count'.acks = count.acks
          /\ count'.failures = count.failures /\ count'.samples = count.samples
          /\ times' = times
      BY <1>1, <1>5 DEF SampleAck
    <2>2. count'.samples + Cardinality(Counted') <= count'.acks
      BY <1>3, <2>1, CountsAreNat DEF Counts
    <2> QED
      BY <1>1, <1>2, <1>3, <2>1, <2>2 DEF Counts
  <1> QED
    BY <1>4, <1>5

LEMMA StepCounts ==
  ASSUME TypeOK, InOrder, Book, Acks, Counts, [Next]_vars
  PROVE  Counts'
  <1>1. CASE AddPending
    BY <1>1, CountsKept DEF AddPending, Taken, Counted, Dropped, servers, metrics
  <1>2. CASE IssueWrite
    BY <1>2, IssueCounts
  <1>3. CASE AllIssued
    BY <1>3, CountsKept DEF AllIssued, Taken, Counted, Dropped, servers, metrics
  <1>4. ASSUME NEW i \in Id, CollectResult(i) PROVE Counts'
    BY <1>4, CollectCounts
  <1>5. CASE AllCollected
    BY <1>5, CountsKept DEF AllCollected, Taken, Counted, Dropped, servers, metrics
  <1>6. CASE PollPending
    BY <1>6, CountsKept DEF PollPending, Taken, Counted, Dropped, servers, metrics
  <1>7. CASE StopMetricsWindow
    BY <1>7, CountsKept DEF StopMetricsWindow, Taken, Counted, Dropped, servers, metrics
  <1>8. CASE BuildSummary
    BY <1>8, CountsKept DEF BuildSummary, Taken, Counted, Dropped, servers, metrics
  <1>9. ASSUME NEW a \in ack, TakeAck(a) PROVE Counts'
    BY <1>9, TakeCounts
  <1>10. ASSUME NEW a \in ack, CountAck(a) PROVE Counts'
    BY <1>10, CountCounts
  <1>11. ASSUME NEW a \in ack, SampleAck(a) PROVE Counts'
    BY <1>11, SampleCounts
  <1>12. ASSUME NEW i \in Id, HeadAccepts(i) PROVE Counts'
    BY <1>12, CountsKept DEF HeadAccepts, Taken, Counted, Dropped, servers, metrics
  <1>13. ASSUME NEW i \in Id, HeadReplies(i) PROVE Counts'
    <2>1. Dropped' = Dropped
      BY <1>13 DEF HeadReplies, Dropped, TypeOK
    <2> QED
      BY <1>13, <2>1, CountsKept DEF HeadReplies, Taken, Counted, servers, metrics
  <1>14. ASSUME NEW i \in Id, TailCommits(i) PROVE Counts'
    <2>1. Taken' = Taken /\ Counted' = Counted
      BY <1>14 DEF TailCommits, Taken, Counted
    <2> QED
      BY <1>14, <2>1, CountsKept DEF TailCommits, Dropped, metrics
  <1>15. ASSUME NEW i \in Id, WriteFails(i) PROVE Counts'
    <2>1. Dropped' = Dropped
      BY <1>15 DEF WriteFails, Dropped, TypeOK
    <2> QED
      BY <1>15, <2>1, CountsKept DEF WriteFails, Taken, Counted, servers, metrics
  <1>17. ASSUME NEW a \in ack, TestWindow(a) PROVE Counts'
    BY <1>17, TestCounts
  <1>18. CASE SumSamples
    BY <1>18, CountsKept DEF SumSamples, Taken, Counted, Dropped, servers, metrics
  <1>16. CASE UNCHANGED vars
    BY <1>16, CountsKept DEF vars, Taken, Counted, Dropped, servers, metrics
  <1> QED
    BY <1>1, <1>2, <1>3, <1>4, <1>5, <1>6, <1>7, <1>8, <1>9, <1>10, <1>11, <1>12, <1>13, <1>14, <1>15, <1>16,
       <1>17, <1>18
       DEF Next, MainStep, AckStep, ServerStep, Terminating

(* No counter goes down, and none but acks and samples changes once the    *)
(* main thread is past its calls.                                          *)
LEMMA CountsGrow ==
  ASSUME TypeOK, [Next]_vars
  PROVE  /\ count.acks <= count'.acks /\ count.samples <= count'.samples
         /\ phase \notin {"issue", "added", "collect"} => count'.sent = count.sent
  <1>1. count \in Counters
    BY DEF TypeOK
  <1>2. CASE IssueWrite
    BY <1>1, <1>2 DEF IssueWrite, Note, Counters
  <1>3. ASSUME NEW i \in Id, CollectResult(i)
        PROVE  /\ count.acks <= count'.acks /\ count.samples <= count'.samples
               /\ phase \notin {"issue", "added", "collect"} => count'.sent = count.sent
    BY <1>1, <1>3 DEF CollectResult, CallSucceeded, CallFailed, Note, Counters
  <1>4. ASSUME NEW a \in ack, CountAck(a)
        PROVE  /\ count.acks <= count'.acks /\ count.samples <= count'.samples
               /\ count'.sent = count.sent
    BY <1>1, <1>4 DEF CountAck, Counters
  <1>5. ASSUME NEW a \in ack, SampleAck(a)
        PROVE  /\ count.acks <= count'.acks /\ count.samples <= count'.samples
               /\ count'.sent = count.sent
    BY <1>1, <1>5 DEF SampleAck, Counters
  <1>6. CASE count' = count
    BY <1>1, <1>6 DEF Counters
  <1> QED
    BY <1>2, <1>3, <1>4, <1>5, <1>6
    DEF Next, MainStep, AddPending, AllIssued, AllCollected, PollPending, StopMetricsWindow,
        BuildSummary, SumSamples, AckStep, TakeAck, TestWindow, ServerStep, HeadAccepts,
        HeadReplies, TailCommits, WriteFails, Terminating, vars, metrics

LEMMA StepSummed ==
  ASSUME TypeOK, Counts, Summed, [Next]_vars
  PROVE  Summed'
  <1>1. count \in Counters /\ summary \in Counters
    BY DEF TypeOK
  <1>2. /\ count.acks <= count'.acks /\ count.samples <= count'.samples
        /\ phase \notin {"issue", "added", "collect"} => count'.sent = count.sent
        /\ count' \in Counters
    <2>1. count' \in Counters
      BY <1>1 DEF Next, MainStep, IssueWrite, CollectResult, CallSucceeded, CallFailed, Note,
        AddPending, AllIssued, AllCollected, PollPending, StopMetricsWindow,
        BuildSummary, SumSamples, AckStep, TakeAck, TestWindow, CountAck, SampleAck, ServerStep,
        HeadAccepts, HeadReplies, TailCommits, WriteFails, Terminating, vars, metrics, Counters
    <2> QED
      BY <2>1, CountsGrow
  <1>3. CASE BuildSummary
    <2>1. /\ count' = count /\ phase' = "samples"
          /\ summary' = [count EXCEPT !.samples = 0]
      BY <1>3 DEF BuildSummary
    <2>2. summary'.acks = count.acks /\ summary'.sent = count.sent /\ summary'.samples = 0
      BY <1>1, <2>1 DEF Counters
    <2> QED
      BY <1>1, <2>1, <2>2 DEF Summed, Counters
  <1>4. CASE SumSamples
    <2>1. /\ count' = count /\ phase = "samples" /\ phase' = "done"
          /\ summary' = [summary EXCEPT !.samples = count.samples]
      BY <1>4 DEF SumSamples
    <2>2. /\ summary'.acks = summary.acks /\ summary'.sent = summary.sent
          /\ summary'.samples = count.samples
      BY <1>1, <2>1 DEF Counters
    <2>3. count.samples <= count.sent
      BY CountsAreNat DEF Counts
    <2>4. summary.sent = count.sent /\ summary.acks <= count.acks
      BY <2>1 DEF Summed
    <2>5. summary'.samples <= summary'.sent /\ count.samples <= count.samples
      BY <1>1, <2>2, <2>3, <2>4 DEF Counters
    <2> QED
      BY <2>1, <2>2, <2>4, <2>5 DEF Summed
  <1>5. CASE ~BuildSummary /\ ~SumSamples
    <2>1. /\ summary' = summary
          /\ phase = "samples" <=> phase' = "samples"
          /\ phase = "done" => phase' = "done"
      BY <1>5 DEF Next, MainStep, IssueWrite, CollectResult,
        AddPending, AllIssued, AllCollected, PollPending, StopMetricsWindow,
        AckStep, TakeAck, TestWindow, CountAck, SampleAck, ServerStep,
        HeadAccepts, HeadReplies, TailCommits, WriteFails, Terminating, vars, metrics
    <2>2. summary.acks <= count'.acks /\ summary.samples <= count'.samples
      BY <1>1, <1>2 DEF Summed, Counters
    <2> QED
      BY <1>2, <2>1, <2>2 DEF Summed
  <1> QED
    BY <1>3, <1>4, <1>5

-----------------------------------------------------------------------------
LEMMA InitIInv == Init => IInv
  <1> SUFFICES ASSUME Init PROVE IInv
    OBVIOUS
  <1>1. TypeOK
    <2>1. next \in 1 .. Total + 1 /\ Earlier \subseteq Id
      BY PendingAssumption DEF Init, Id
    <2>2. ack \subseteq [id: Id, own: BOOLEAN, pc: {"sent", "taken", "open", "counted"}]
      <3>1. \A i \in Earlier : [id |-> i, own |-> FALSE, pc |-> "sent"]
                \in [id: Id, own: BOOLEAN, pc: {"sent", "taken", "open", "counted"}]
        BY <2>1
      <3> QED
        BY <3>1 DEF Init
    <2>3. count \in Counters /\ summary \in Counters
      BY DEF Init, Counters, NoCounts
    <2>4. {seeding, lost, enabled} \subseteq BOOLEAN
      BY DEF Init
    <2> QED
      BY <2>1, <2>2, <2>3, <2>4 DEF Init, TypeOK
  <1>2. InOrder /\ Phases /\ Book /\ Acks
    BY DEF Init, InOrder, Phases, Book, Acks, Id, Answered
  <1>3. Counts
    <2>1. Taken = {} /\ Counted = {} /\ Dropped = {} /\ confirmed = {} /\ times = {}
      BY DEF Init, Taken, Counted, Dropped
    <2>2. IsFiniteSet({}) /\ Cardinality({}) = 0
      BY FS_EmptySet
    <2> QED
      BY <2>1, <2>2 DEF Init, Counts, NoCounts
  <1>4. Summed
    BY DEF Init, Summed, NoCounts
  <1> QED
    BY <1>1, <1>2, <1>3, <1>4 DEF IInv

LEMMA StepIInv == IInv /\ [Next]_vars => IInv'
  BY StepTypeOK, StepInOrder, StepPhases, StepBook, StepAcks, StepCounts, StepSummed DEF IInv

THEOREM PendingInvariance == Spec => []IInv
  BY InitIInv, StepIInv, PTL DEF Spec

(* When the client has waited for its pending writes, every write whose    *)
(* call succeeded is committed, unless an earlier client's id stands for   *)
(* it: whatever is lost, delayed, or answered out of turn.                 *)
THEOREM EndTheorem == Spec => []EndIsCommitted
  <1>1. IInv => EndIsCommitted
    BY DEF IInv, Phases, InOrder, Book, Acks, Dropped, EndIsCommitted
  <1> QED
    BY <1>1, PendingInvariance, PTL

(* The book adds up: a write issued is pending, confirmed or failed, and   *)
(* while the metrics are kept each confirmation and each failure is        *)
(* counted once.                                                           *)
THEOREM LedgerTheorem == Spec => []Ledger
  <1>1. IInv => Ledger
    <2> SUFFICES ASSUME IInv PROVE Ledger
      OBVIOUS
    <2>1. {i \in Id : call[i] # "none"}
            = {i \in pending \cup confirmed : call[i] # "none"} \cup Dropped
      <3>1. pending \subseteq Id /\ confirmed \subseteq Id
        BY DEF IInv, TypeOK
      <3> QED
        BY <3>1 DEF IInv, Book, Dropped
    <2> QED
      BY <2>1 DEF IInv, Counts, Ledger, Taken, Dropped
  <1> QED
    BY <1>1, PendingInvariance, PTL

(* Latency samples are never more than the Acks, nor the samples with the  *)
(* calls still awaited more than the writes sent; and the summary, loaded  *)
(* while Acks are counted, makes no more of them than there are.           *)
THEOREM SamplesTheorem == Spec => []SamplesAreAcks
  <1>1. IInv => SamplesAreAcks
    <2> SUFFICES ASSUME IInv PROVE SamplesAreAcks
      OBVIOUS
    <2>1. count.samples <= count.acks
      BY CountsAreNat DEF IInv, Counts
    <2>2. summary.acks <= Cardinality(confirmed)
      <3>1. count.acks <= Cardinality(confirmed) /\ summary.acks \in Nat
        BY CountsAreNat DEF IInv, Counts, TypeOK, Counters
      <3> QED
        BY <3>1, CountsAreNat DEF IInv, Summed
    <2>3. summary.samples <= summary.sent
      BY CountsAreNat DEF IInv, Counts, Summed, TypeOK, Counters
    <2> QED
      BY <2>1, <2>2, <2>3 DEF IInv, Counts, SamplesAreAcks
  <1> QED
    BY <1>1, PendingInvariance, PTL
==============================================================================
