------------------------------ MODULE OutboxRelay ------------------------------
(***************************************************************************)
(* The polling outbox relay of message_broker: Poller.Poll run by several  *)
(* concurrent invocations (lambda or RunLoop), each a Postgres transaction *)
(* that locks new rows with FOR UPDATE SKIP LOCKED, publishes them in      *)
(* chunks from separate goroutines through SnsPublisher.SendBatchMessages, *)
(* and marks what SNS reported as accepted.                                *)
(*                                                                         *)
(* The publishing is not part of the transaction: a poll that fails after  *)
(* a chunk was accepted rolls its marks back but not its messages, and a   *)
(* publish call can still be on its way when its poll has returned.        *)
(***************************************************************************)
EXTENDS Naturals, FiniteSets

CONSTANTS Events,      \* the events the service may record
          Pollers,     \* concurrent invocations of Poll
          BatchLimit,  \* LIMIT of the SELECT (100 in the code)
          ChunkSize,   \* maxBatchSize of the publisher (10 in the code)
          MaxAborts,   \* bound: polls made to fail after they took rows
          MaxRefusals  \* bound: chunks in which SNS refuses some entries

ASSUME LimitsAssumption == BatchLimit \in Nat \ {0} /\ ChunkSize \in Nat \ {0}
ASSUME BoundsAssumption == MaxAborts \in Nat /\ MaxRefusals \in Nat

VARIABLES outbox,    \* committed rows: "absent", "new" (emitted_at IS NULL), "emitted"
          pc,        \* where each invocation is in Poll
          rows,      \* rows locked by the invocation's transaction
          unsent,    \* chunks whose goroutine has not reported yet
          accepted,  \* ids in res.Successful so far
          failed,    \* a chunk reported an error (errors.Join)
          strays,    \* strays[e]: entries of e in calls whose poll has gone
          published, \* published[e]: copies of e that SNS has accepted
          aborts,    \* history: faults that make a poll roll back
          refusals   \* history: chunks partly refused

pollVars == <<pc, rows, unsent, accepted, failed>>
vars == <<outbox, pollVars, strays, published, aborts, refusals>>

Steps == {"idle", "locked", "publishing", "marked"}

TypeOK ==
  /\ outbox \in [Events -> {"absent", "new", "emitted"}]
  /\ pc \in [Pollers -> Steps]
  /\ rows \in [Pollers -> SUBSET Events]
  /\ unsent \in [Pollers -> SUBSET SUBSET Events]
  /\ accepted \in [Pollers -> SUBSET Events]
  /\ failed \in [Pollers -> BOOLEAN]
  /\ strays \in [Events -> Nat]
  /\ published \in [Events -> Nat]
  /\ aborts \in 0..MaxAborts
  /\ refusals \in 0..MaxRefusals

Init ==
  /\ outbox = [e \in Events |-> "absent"]
  /\ pc = [p \in Pollers |-> "idle"]
  /\ rows = [p \in Pollers |-> {}]
  /\ unsent = [p \in Pollers |-> {}]
  /\ accepted = [p \in Pollers |-> {}]
  /\ failed = [p \in Pollers |-> FALSE]
  /\ strays = [e \in Events |-> 0]
  /\ published = [e \in Events |-> 0]
  /\ aborts = 0
  /\ refusals = 0

--------------------------------------------------------------------------------
\* Helpers

\* One more for every event of S.
Plus(count, S) == [e \in Events |-> count[e] + (IF e \in S THEN 1 ELSE 0)]

\* Mutants of Selectable: without the row locks; without the WHERE clause.
SelectableUnlocked == {e \in Events : outbox[e] = "new"}
SelectableEmitted == {e \in Events : outbox[e] # "absent" /\ \A p \in Pollers : e \notin rows[p]}

\* Rows that the SELECT sees and no other transaction has locked.
Selectable == {e \in Events : outbox[e] = "new" /\ \A p \in Pollers : e \notin rows[p]}

\* Events that p's goroutines have not been answered about.
InFlight(p) == UNION unsent[p]

\* The ways SendBatchMessages may cut S into chunks: disjoint, and all but one
\* of them full.  Row order is not specified by the SELECT.
Chunkings(S) ==
  {C \in SUBSET (SUBSET S \ {{}}) :
     /\ UNION C = S
     /\ \A c, d \in C : c # d => c \cap d = {}
     /\ \A c \in C : Cardinality(c) <= ChunkSize
     /\ \A c, d \in C : Cardinality(c) < ChunkSize /\ Cardinality(d) < ChunkSize => c = d}

\* Mutant of Finish: the rollback is forgotten and the locks stay.
FinishHoldingRows(p) ==
  /\ pc' = [pc EXCEPT ![p] = "idle"]
  /\ unsent' = [unsent EXCEPT ![p] = {}]
  /\ accepted' = [accepted EXCEPT ![p] = {}]
  /\ failed' = [failed EXCEPT ![p] = FALSE]
  /\ UNCHANGED rows

\* The transaction of p is over, by commit or by rollback: its locks go.
Finish(p) ==
  /\ pc' = [pc EXCEPT ![p] = "idle"]
  /\ rows' = [rows EXCEPT ![p] = {}]
  /\ unsent' = [unsent EXCEPT ![p] = {}]
  /\ accepted' = [accepted EXCEPT ![p] = {}]
  /\ failed' = [failed EXCEPT ![p] = FALSE]

--------------------------------------------------------------------------------
\* Actions

\* A business transaction commits with its outbox row.
Insert(e) ==
  /\ outbox[e] = "absent"
  /\ outbox' = [outbox EXCEPT ![e] = "new"]
  /\ UNCHANGED <<pollVars, strays, published, aborts, refusals>>

\* BEGIN and SELECT ... FOR UPDATE SKIP LOCKED LIMIT n.  An empty result
\* returns at once and changes nothing.
Select(p) ==
  /\ pc[p] = "idle"
  /\ \E S \in SUBSET Selectable :
       /\ S # {}
       /\ \/ Cardinality(S) = BatchLimit
          \/ Cardinality(S) < BatchLimit /\ S = Selectable
       /\ rows' = [rows EXCEPT ![p] = S]
  /\ pc' = [pc EXCEPT ![p] = "locked"]
  /\ UNCHANGED <<outbox, unsent, accepted, failed, strays, published, aborts, refusals>>

\* SendBatchMessages has the topic's ARN and starts one goroutine per chunk.
Dispatch(p) ==
  /\ pc[p] = "locked"
  /\ \E C \in Chunkings(rows[p]) : unsent' = [unsent EXCEPT ![p] = C]
  /\ pc' = [pc EXCEPT ![p] = "publishing"]
  /\ UNCHANGED <<outbox, rows, accepted, failed, strays, published, aborts, refusals>>

\* Mutant of PublishChunk: res.Failed is not told apart from res.Successful.
PublishChunkTrusting(p, c) ==
  /\ pc[p] = "publishing"
  /\ c \in unsent[p]
  /\ unsent' = [unsent EXCEPT ![p] = @ \ {c}]
  /\ accepted' = [accepted EXCEPT ![p] = @ \cup c]
  /\ \E S \in SUBSET c :
       /\ published' = Plus(published, S)
       /\ \/ S = c /\ UNCHANGED refusals
          \/ S # c /\ refusals < MaxRefusals /\ refusals' = refusals + 1
  /\ UNCHANGED <<outbox, pc, rows, failed, strays, aborts>>

\* PublishBatch answers for chunk c: SNS took every entry, or only some
\* (a refused entry is in res.Failed, as is one that did not marshal).
PublishChunk(p, c) ==
  /\ pc[p] = "publishing"
  /\ c \in unsent[p]
  /\ unsent' = [unsent EXCEPT ![p] = @ \ {c}]
  /\ \E S \in SUBSET c :
       /\ accepted' = [accepted EXCEPT ![p] = @ \cup S]
       /\ published' = Plus(published, S)
       /\ \/ S = c /\ UNCHANGED refusals
          \/ S # c /\ refusals < MaxRefusals /\ refusals' = refusals + 1
  /\ UNCHANGED <<outbox, pc, rows, failed, strays, aborts>>

\* PublishBatch returns an error for chunk c.  Its result is empty, whatever
\* SNS did with the entries before the answer was lost.
PublishError(p, c) ==
  /\ pc[p] = "publishing"
  /\ c \in unsent[p]
  /\ aborts < MaxAborts
  /\ aborts' = aborts + 1
  /\ unsent' = [unsent EXCEPT ![p] = @ \ {c}]
  /\ failed' = [failed EXCEPT ![p] = TRUE]
  /\ \E S \in SUBSET c : published' = Plus(published, S)
  /\ UNCHANGED <<outbox, pc, rows, accepted, strays, refusals>>

\* All chunks reported and none with an error: UPDATE ... SET emitted_at for
\* the accepted ids, still inside the transaction.
Mark(p) ==
  /\ pc[p] = "publishing"
  /\ unsent[p] = {}
  /\ ~failed[p]
  /\ accepted[p] # {}
  /\ pc' = [pc EXCEPT ![p] = "marked"]
  /\ UNCHANGED <<outbox, rows, unsent, accepted, failed, strays, published, aborts, refusals>>

\* All chunks reported, but one with an error or none with a success: Poll
\* returns and the deferred rollback releases the rows, all still new.
GiveUp(p) ==
  /\ pc[p] = "publishing"
  /\ unsent[p] = {}
  /\ failed[p] \/ accepted[p] = {}
  /\ Finish(p)
  /\ UNCHANGED <<outbox, strays, published, aborts, refusals>>

\* Mutant of Commit: every locked row is marked, accepted or not.
CommitRows(p) ==
  /\ pc[p] = "marked"
  /\ outbox' = [e \in Events |-> IF e \in rows[p] THEN "emitted" ELSE outbox[e]]
  /\ Finish(p)
  /\ UNCHANGED <<strays, published, aborts, refusals>>

\* COMMIT.
Commit(p) ==
  /\ pc[p] = "marked"
  /\ outbox' = [e \in Events |-> IF e \in accepted[p] THEN "emitted" ELSE outbox[e]]
  /\ Finish(p)
  /\ UNCHANGED <<strays, published, aborts, refusals>>

\* The context expires, the process dies, the topic is unknown, the UPDATE or
\* the COMMIT fails: the transaction is rolled back.  SendBatchMessages does
\* not wait for its goroutines when the context is done, so the calls still in
\* flight stay in flight.
Abort(p) ==
  /\ pc[p] # "idle"
  /\ aborts < MaxAborts
  /\ aborts' = aborts + 1
  /\ strays' = Plus(strays, InFlight(p))
  /\ Finish(p)
  /\ UNCHANGED <<outbox, published, refusals>>

\* Mutant of StrayEnds: a call ends that never was.
StrayEndsTwice(e) ==
  /\ strays[e] > 0
  /\ strays' = [strays EXCEPT ![e] = @ - 2]
  /\ \/ published' = Plus(published, {e})
     \/ UNCHANGED published
  /\ UNCHANGED <<outbox, pollVars, aborts, refusals>>

\* A call that outlived its poll reaches SNS, or is lost.
StrayEnds(e) ==
  /\ strays[e] > 0
  /\ strays' = [strays EXCEPT ![e] = @ - 1]
  /\ \/ published' = Plus(published, {e})
     \/ UNCHANGED published
  /\ UNCHANGED <<outbox, pollVars, aborts, refusals>>

--------------------------------------------------------------------------------
\* Specification

\* A step of Poll that is not a failure.
Progress(p) ==
  \/ Select(p) \/ Dispatch(p) \/ Mark(p) \/ GiveUp(p) \/ Commit(p)
  \/ \E c \in unsent[p] : PublishChunk(p, c)

Fault(p) == Abort(p) \/ \E c \in unsent[p] : PublishError(p, c)

Next ==
  \/ \E e \in Events : Insert(e) \/ StrayEnds(e)
  \/ \E p \in Pollers : Progress(p) \/ Fault(p)

Spec == Init /\ [][Next]_vars

\* RunLoop's ticker and the scheduled lambda keep calling Poll, and a poll that
\* has begun runs on; nothing is assumed of inserts, faults and strays.
FairSpec == Spec /\ \A p \in Pollers : WF_vars(Progress(p))

--------------------------------------------------------------------------------
\* Properties

\* SKIP LOCKED: no row is being processed by two invocations at once, and no
\* invocation is processing a row that is already marked (poller.go:37-40).
LocksExclusive ==
  \A p \in Pollers :
    /\ \A e \in rows[p] : outbox[e] = "new"
    /\ \A q \in Pollers \ {p} : rows[p] \cap rows[q] = {}

\* No event is lost: a row is marked only if SNS accepted a copy of it, however
\* chunks fail, polls abort and entries are refused (poller.go:73-90).
EmittedWasPublished ==
  \A e \in Events : outbox[e] = "emitted" => published[e] >= 1

\* Duplicates have a cause: beyond the first copy, each copy on the topic, and
\* each that may still arrive, is paid for by a poll that failed.  In particular
\* concurrent polls alone, and partly refused chunks alone, duplicate nothing.
DuplicatesNeedAborts ==
  \A e \in Events : published[e] + strays[e] <= aborts + 1

\* A marked row is final: it stays marked, and no invocation sends it again;
\* only a call left over from an aborted poll can still add a copy.
EmittedIsSettled ==
  [][\A e \in Events : outbox[e] = "emitted" =>
       /\ outbox'[e] = "emitted"
       /\ published'[e] > published[e] => strays'[e] < strays[e]]_vars

\* The relay keeps the promise of the outbox.
Outbox == INSTANCE AtLeastOnce WITH record <- outbox, copies <- published
ImplementsAtLeastOnce == Outbox!Spec

\* Once faults stop, every recorded event is marked, so that it is not selected
\* for ever; with EmittedWasPublished, the topic has a copy of it by then.
EventuallyEmitted == \A e \in Events : (outbox[e] = "new") ~> (outbox[e] = "emitted")
================================================================================
