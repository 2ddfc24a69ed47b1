---------------------------- MODULE ReplicationRelay ----------------------------
(***************************************************************************)
(* The replication relay of message_broker (OUTBOX_MODE=replication):      *)
(* domain.Outbox follows a replication slot of the outbox table and calls  *)
(* SnsDispatcher.Execute at every commit.  Execute does not look at the    *)
(* commit: it selects all new rows without a lock, publishes them and      *)
(* marks what SNS accepted, in three separate database and network calls.  *)
(*                                                                         *)
(* The position in the slot moves on whether Execute failed or not, and a  *)
(* process that loses its connection never opens another one.              *)
(***************************************************************************)
EXTENDS Naturals, Sequences, FiniteSets

CONSTANTS Events,      \* the events the service may record
          Large,       \* those whose transaction the server streams in parts
          Instances,   \* processes of the service, one after or beside the other
          MaxFaults,   \* bound: failed calls, lost connections, crashes
          MaxRefusals  \* bound: batches of which SNS refuses some entries

ASSUME LargeAssumption == Large \subseteq Events
ASSUME InstancesAssumption == IsFiniteSet(Instances)
                              /\ "absent" \notin Instances /\ "free" \notin Instances
ASSUME BoundsAssumption == MaxFaults \in Nat /\ MaxRefusals \in Nat

VARIABLES outbox,    \* committed rows: "absent", "new" (emitted_at IS NULL), "emitted"
          wal,       \* the commits on the published table, oldest first
          born,      \* born[e]: position of the commit that recorded e
          slot,      \* the slot: "absent", "free" or the instance that holds it
          confirmed, \* confirmed_flush: where the slot resumes
          pc,        \* where each instance is
          received,  \* clientXLogPos: commits an instance is done with
          rows,      \* what its last SELECT returned
          accepted,  \* messages.Successful
          published, \* published[e]: copies of e that SNS has accepted
          missed,    \* history: events that a commit passed by, and why not is known
          faults,    \* history: faults so far
          refusals   \* history: batches partly refused

dispatch == <<pc, received, rows, accepted>>
vars == <<outbox, wal, born, slot, confirmed, dispatch, published, missed, faults, refusals>>

Busy == {"executing", "found", "sent"}

TypeOK ==
  /\ outbox \in [Events -> {"absent", "new", "emitted"}]
  /\ wal \in Seq({"whole", "streamed"})
  /\ born \in [Events -> Nat]
  /\ slot \in Instances \cup {"absent", "free"}
  /\ confirmed \in Nat
  /\ pc \in [Instances -> {"down", "streaming"} \cup Busy]
  /\ received \in [Instances -> Nat]
  /\ rows \in [Instances -> SUBSET Events]
  /\ accepted \in [Instances -> SUBSET Events]
  /\ published \in [Events -> Nat]
  /\ missed \in SUBSET Events
  /\ faults \in 0..MaxFaults
  /\ refusals \in 0..MaxRefusals

Init ==
  /\ outbox = [e \in Events |-> "absent"]
  /\ wal = <<>>
  /\ born = [e \in Events |-> 0]
  /\ slot = "absent"
  /\ confirmed = 0
  /\ pc = [i \in Instances |-> "down"]
  /\ received = [i \in Instances |-> 0]
  /\ rows = [i \in Instances |-> {}]
  /\ accepted = [i \in Instances |-> {}]
  /\ published = [e \in Events |-> 0]
  /\ missed = {}
  /\ faults = 0
  /\ refusals = 0

--------------------------------------------------------------------------------
\* Helpers

New == {e \in Events : outbox[e] = "new"}

\* One more for every event of S.
Plus(count, S) == [e \in Events |-> count[e] + (IF e \in S THEN 1 ELSE 0)]

\* One of the faults the bound allows.
Fault == faults < MaxFaults /\ faults' = faults + 1

\* executeActions returns, after logging an error if there was one, and
\* clientXLogPos moves behind the commit; S are the rows it leaves behind.
EndExecute(i, S) ==
  /\ pc' = [pc EXCEPT ![i] = "streaming"]
  /\ received' = [received EXCEPT ![i] = @ + 1]
  /\ rows' = [rows EXCEPT ![i] = {}]
  /\ accepted' = [accepted EXCEPT ![i] = {}]
  /\ missed' = missed \cup S

--------------------------------------------------------------------------------
\* Actions

\* A business transaction commits with its outbox row.
Insert(e) ==
  /\ outbox[e] = "absent"
  /\ outbox' = [outbox EXCEPT ![e] = "new"]
  /\ wal' = Append(wal, IF e \in Large THEN "streamed" ELSE "whole")
  /\ born' = [born EXCEPT ![e] = Len(wal) + 1]
  /\ UNCHANGED <<slot, confirmed, dispatch, published, missed, faults, refusals>>

\* NewOutbox for the first time: the slot begins at the end of the log, and the
\* rows that a polling relay or nobody has left there have no commit to come.
CreateSlot ==
  /\ slot = "absent"
  /\ slot' = "free"
  /\ confirmed' = Len(wal)
  /\ missed' = missed \cup New
  /\ UNCHANGED <<outbox, wal, born, dispatch, published, faults, refusals>>

\* Mutants of Start: one commit too far back; on a slot that is in use.
StartOneBefore(i) ==
  /\ pc[i] = "down"
  /\ slot = "free"
  /\ slot' = i
  /\ pc' = [pc EXCEPT ![i] = "streaming"]
  /\ received' = [received EXCEPT ![i] = confirmed - 1]
  /\ UNCHANGED <<outbox, wal, born, confirmed, rows, accepted, published, missed, faults, refusals>>
StartBeside(i) ==
  /\ pc[i] = "down"
  /\ slot # "absent"
  /\ slot' = i
  /\ pc' = [pc EXCEPT ![i] = "streaming"]
  /\ received' = [received EXCEPT ![i] = confirmed]
  /\ UNCHANGED <<outbox, wal, born, confirmed, rows, accepted, published, missed, faults, refusals>>

\* NewOutbox and StartReplication; with clientXLogPos 0 the server resumes where
\* the slot was last confirmed.  A slot in use is an error and main exits.
Start(i) ==
  /\ pc[i] = "down"
  /\ slot = "free"
  /\ slot' = i
  /\ pc' = [pc EXCEPT ![i] = "streaming"]
  /\ received' = [received EXCEPT ![i] = confirmed]
  /\ UNCHANGED <<outbox, wal, born, confirmed, rows, accepted, published, missed, faults, refusals>>

\* A CommitMessage calls the action registered for ActionCommit.  A transaction
\* that was streamed ends in a StreamCommitMessageV2 instead, which calls none.
ReceiveCommit(i) ==
  /\ pc[i] = "streaming"
  /\ slot = i
  /\ received[i] < Len(wal)
  /\ \/ /\ wal[received[i] + 1] = "whole"
        /\ pc' = [pc EXCEPT ![i] = "executing"]
        /\ UNCHANGED <<received, missed>>
     \/ /\ wal[received[i] + 1] = "streamed"
        /\ received' = [received EXCEPT ![i] = @ + 1]
        /\ missed' = missed \cup {e \in New : born[e] = received[i] + 1}
        /\ UNCHANGED pc
  /\ UNCHANGED <<outbox, wal, born, slot, confirmed, rows, accepted, published, faults, refusals>>

\* Mutant of Find: only the row of the commit that was received.
FindOwn(i) ==
  /\ pc[i] = "executing"
  /\ LET found == {e \in New : born[e] = received[i] + 1}
     IN \/ /\ found # {}
           /\ pc' = [pc EXCEPT ![i] = "found"]
           /\ rows' = [rows EXCEPT ![i] = found]
           /\ UNCHANGED <<received, accepted, missed>>
        \/ found = {} /\ EndExecute(i, {})
  /\ UNCHANGED <<outbox, wal, born, slot, confirmed, published, faults, refusals>>

\* FindAllNewEvents.  The record of a commit can be received before the commit
\* is visible to others, so its own row and later ones may be left out.  A
\* connection that breaks while the rows are read is a fault that is not noticed,
\* for rows.Err is not asked: whatever has been read counts as all there is.  With
\* no rows SendBatchMessages sends an empty batch, which SNS refuses.
Find(i) ==
  /\ pc[i] = "executing"
  /\ \E late \in SUBSET New :
       /\ \/ (\A e \in late : born[e] > received[i]) /\ UNCHANGED faults
          \/ Fault
       /\ LET found == New \ late
              passed == {e \in late : born[e] <= received[i] + 1}
          IN \/ /\ found # {}
                /\ pc' = [pc EXCEPT ![i] = "found"]
                /\ rows' = [rows EXCEPT ![i] = found]
                /\ missed' = missed \cup passed
                /\ UNCHANGED <<received, accepted>>
             \/ found = {} /\ EndExecute(i, passed)
  /\ UNCHANGED <<outbox, wal, born, slot, confirmed, published, refusals>>

\* SendBatchMessages answers without an error; SNS may have refused entries.
Send(i) ==
  /\ pc[i] = "found"
  /\ \E S \in SUBSET rows[i] :
       /\ accepted' = [accepted EXCEPT ![i] = S]
       /\ published' = Plus(published, S)
       /\ \/ S = rows[i] /\ UNCHANGED refusals
          \/ S # rows[i] /\ refusals < MaxRefusals /\ refusals' = refusals + 1
  /\ pc' = [pc EXCEPT ![i] = "sent"]
  /\ UNCHANGED <<outbox, wal, born, slot, confirmed, received, rows, missed, faults>>

\* Mutants of Mark: all rows that were sent are marked; a publication of INSERTs
\* only, which has no marks.
MarkRows(i) ==
  /\ pc[i] = "sent"
  /\ outbox' = [e \in Events |-> IF e \in rows[i] THEN "emitted" ELSE outbox[e]]
  /\ wal' = Append(wal, "whole")
  /\ EndExecute(i, {})
  /\ UNCHANGED <<born, slot, confirmed, published, faults, refusals>>

MarkUnseen(i) ==
  /\ pc[i] = "sent"
  /\ outbox' = [e \in Events |-> IF e \in accepted[i] THEN "emitted" ELSE outbox[e]]
  /\ EndExecute(i, rows[i] \ accepted[i])
  /\ UNCHANGED <<wal, born, slot, confirmed, published, faults, refusals>>

\* MarkAsEmitted for the accepted ids, whoever has marked them meanwhile.  The
\* UPDATE is a commit on the published table: the relay receives it as well,
\* and looks for new rows once more.  An UPDATE of no row is not in the log.
Mark(i) ==
  /\ pc[i] = "sent"
  /\ outbox' = [e \in Events |-> IF e \in accepted[i] THEN "emitted" ELSE outbox[e]]
  /\ wal' = IF accepted[i] = {} THEN wal ELSE Append(wal, "whole")
  /\ EndExecute(i, rows[i] \ accepted[i])
  /\ UNCHANGED <<born, slot, confirmed, published, faults, refusals>>

\* The SELECT, a publish call or the UPDATE fails.  SNS may have taken entries
\* of a call whose answer was lost, and nothing is marked.
ExecuteFails(i) ==
  /\ pc[i] \in Busy
  /\ Fault
  /\ \E S \in SUBSET rows[i] :
       /\ pc[i] # "found" => S = {}
       /\ published' = Plus(published, S)
  /\ EndExecute(i, {e \in New : born[e] <= received[i] + 1} \cup rows[i])
  /\ UNCHANGED <<outbox, wal, born, slot, confirmed, refusals>>

\* Mutant of Status: the keepalive's ServerWALEnd of the flushed log is confirmed.
StatusFlushed(i) ==
  /\ pc[i] = "streaming"
  /\ slot = i
  /\ confirmed' = Len(wal)
  /\ UNCHANGED <<outbox, wal, born, slot, dispatch, published, missed, faults, refusals>>

\* SendStandbyStatusUpdate, every ten seconds or when a keepalive asks for it,
\* between two messages: a keepalive only names what was sent before it.
Status(i) ==
  /\ pc[i] = "streaming"
  /\ slot = i
  /\ confirmed' = received[i]
  /\ UNCHANGED <<outbox, wal, born, slot, dispatch, published, missed, faults, refusals>>

\* The server drops the connection: an Execute longer than wal_sender_timeout
\* sends no status.  The instance finishes its Execute, and from then on
\* ReceiveMessage fails and the loop only logs it.
Disconnect(i) ==
  /\ slot = i
  /\ Fault
  /\ slot' = "free"
  /\ UNCHANGED <<outbox, wal, born, confirmed, dispatch, published, missed, refusals>>

\* The process ends, by a crash or a roll-out, and its connection with it.  A
\* call that is under way may still reach SNS.
Crash(i) ==
  /\ pc[i] # "down"
  /\ Fault
  /\ pc' = [pc EXCEPT ![i] = "down"]
  /\ rows' = [rows EXCEPT ![i] = {}]
  /\ accepted' = [accepted EXCEPT ![i] = {}]
  /\ slot' = IF slot = i THEN "free" ELSE slot
  /\ \E S \in SUBSET rows[i] :
       /\ pc[i] # "found" => S = {}
       /\ published' = Plus(published, S)
  /\ UNCHANGED <<outbox, wal, born, confirmed, received, missed, refusals>>

--------------------------------------------------------------------------------
\* Specification

\* A step of the loop that is not a failure.
Progress(i) == ReceiveCommit(i) \/ Find(i) \/ Send(i) \/ Mark(i)

Next ==
  \/ CreateSlot
  \/ \E e \in Events : Insert(e)
  \/ \E i \in Instances :
       Start(i) \/ Progress(i) \/ Status(i) \/ ExecuteFails(i) \/ Disconnect(i) \/ Crash(i)

Spec == Init /\ [][Next]_vars

\* The loop runs on, and the deployment restarts a service that has ended.  It
\* does not restart one that is only deaf: nothing tells it that it is.
FairSpec ==
  /\ Spec
  /\ WF_vars(CreateSlot)
  /\ \A i \in Instances : WF_vars(Progress(i)) /\ WF_vars(Start(i))

--------------------------------------------------------------------------------
\* Properties

\* No crash, restart, status update or lost connection skips a commit: a new row
\* whose commit the slot or its holder has passed was passed by a dispatch that
\* failed, was cut short, refused or too early, or by a streamed commit
\* (outbox.go:127-213).
SkippedHasCause ==
  \A e \in New :
    \/ e \in missed
    \/ slot = "absent"
    \/ /\ born[e] > confirmed
       /\ slot \in Instances => born[e] > received[slot]

\* A row is only marked when SNS has accepted a copy of it, although the ids are
\* marked in a statement of its own (sns_dispatcher.go:50-63).
EmittedWasPublished ==
  \A e \in Events : outbox[e] = "emitted" => published[e] >= 1

\* Nothing is locked, yet a copy beyond the first has a fault to show for it: the
\* slot keeps two undisturbed instances apart (sns_dispatcher.go:35).
DuplicatesNeedFaults ==
  \A e \in Events : published[e] <= faults + 1

\* This relay keeps the promise of the outbox too, but for its liveness.
Outbox == INSTANCE AtLeastOnce WITH record <- outbox, copies <- published
ImplementsAtLeastOnce == Outbox!Spec

\* The instance holds no slot and does not know it.
Deaf(i) == pc[i] # "down" /\ slot # i

AllDeaf == \A i \in Instances : Deaf(i)

Calm == faults = MaxFaults /\ refusals = MaxRefusals

\* Commits that the holder of the slot, or its next one, has not looked at.
Ahead ==
  CASE slot = "absent" -> {}
    [] slot = "free" -> (confirmed + 1)..Len(wal)
    [] OTHER -> (received[slot] + (IF pc[slot] \in Busy THEN 2 ELSE 1))..Len(wal)

\* Once faults stop, a row that was passed is published with the next whole
\* commit on the table, unless every process is deaf (outbox.go:226-233).
NextCommitRescues ==
  \A e \in Events :
    (Calm /\ outbox[e] = "new" /\ \E n \in Ahead : n > born[e] /\ wal[n] = "whole")
      ~> (outbox[e] = "emitted" \/ AllDeaf)

\* A batch refused in part repairs itself: the mark of the accepted rows is a
\* commit that makes the relay look again (sns_dispatcher.go:50-63).
RefusedIsRetried ==
  \A e \in Events, i \in Instances :
    (Calm /\ slot = i /\ pc[i] = "sent" /\ e \in rows[i] /\ accepted[i] # {})
      ~> (outbox[e] = "emitted" \/ AllDeaf)
=================================================================================
