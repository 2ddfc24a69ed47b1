# bilcool_monolith, specified

TLA+ specifications of the program in `src/`: modules translated from the Go
source, TLC configurations that check them on small instances, and TLAPS proofs
for every value of their constants. Paths below are relative to `src/`.

## 1. The system

A household shares one car. Five Go services run as AWS Lambdas or as long-running
processes; each owns its tables, and they talk through domain events:

    UI ──HTTP──> authentication ──outbox──> SNS bilcool_users ────┐
     │                                                            ├─> SQS queues ─> bookings, journal, event_ledger
     └──HTTP───> bookings ────────outbox──> SNS bilcool_bookings ─┘   (5 receives, then DLQ)

| component | state | operations | what is hard | what makes it correct |
|---|---|---|---|---|
| `message_broker` outbox table and polling relay (`pkg/postgres`, `pkg/outbox/poller`, `pkg/outbox/sns`) | `outbox` rows with `emitted_at`; the topic cache | `Insert`, `Poll`, `SendBatchMessages`, `MarkAsEmitted`, `RunLoop` | publishing is outside the transaction; chunks in goroutines; partial refusals; lost answers; concurrent polls | no event lost; a marked row was published; duplicates only after a failure; every row marked in the end |
| `message_broker` replication relay (`pkg/domain`, the services' `event_dispatcher`) | replication slot and its confirmed position, known relations | stream, keepalive, commit, `Execute` (select, publish, mark) | a failed dispatch is swallowed and waits for the next commit; a lost connection is never opened again; a streamed transaction ends in a message that starts no action; nothing is locked | no commit is skipped without a cause; the next commit takes along what was left; same promise as the polling relay |
| `message_broker` inbox worker and SQS subscriber (`pkg/inbox`) | channel of batches, in-flight messages, visibility timeouts | `poll`, `doWork`, `Stop`, `RetrieveMessages`, `DeleteMessages` | redelivery, batches dropped at `Stop`, swallowed delete errors | a message is handled at least once, or a named cause brought it to the DLQ |
| `bookings` calendar (`UpdateBooking`, `DeleteBooking`) | `bookings` rows | create or move, delete | every statement its own transaction at READ COMMITTED; check and write in different snapshots | the car is promised once; a started or used booking is not deleted |
| `bookings` trip (`PauseBooking`, `ResumeBooking`, `EndBooking`, `AddTrackPoints`, `GetRoute`) | `booking_pauses`, `distances`, `positions`, `gps_track_points`, outbox | pause, resume, end, upload points, read the track | check-then-insert; double resume; end repeated; distance read before the transaction; points after the end | at most one open pause; each end leaves one distance and one event |
| user projections (`bookings` and `journal` consumers) | `users`, `inbox`, `booking_ended_events` | `AddUser`, `DeleteUser`, `SaveUserCreated`, `SaveUserDeleted`, `SaveBookingEnded` | duplicates, reordering, poison messages, DLQ | idempotent; converges to what authentication says |
| `authentication` users (`CreateUser`, `UpdateUser`, `DeleteUser`, `RestoreUser`, `ChangeUserRole`) | `users`, outbox | the same | check of the last admin in a snapshot; stale role in the JWT | there is always an admin; every change of a user has its event |
| `authentication` login (`LoginBegin`, `VerifyToken`, `LoginComplete`, `ResetLogin`) | security tokens, WebAuthn sessions, passkeys | the same | no transactions; a session read, then deleted, then used; passkeys replaced in two statements; soft deletes leave all three tables alone | a token opens one registration; a user has one passkey; nobody gets a JWT by what was true before the call |
| `event_ledger` | DynamoDB items keyed by `(event_id, emitted_at)`, two secondary indexes | `SaveEvent`, `QueryEvents` by index or scan | duplicate deliveries; pages read by offset while events are saved; no read is consistent, so a later call may see less than an earlier one; calls cut short; times compared as texts | one item per emission; a page repeats nothing; pages together pass nothing by unless a read goes back |
| `bookings` map matching (`infrastructure/mapbox`) | none | cut a track into chunks of at most 100 points that share one, ask Mapbox, fall back | boundaries; a chunk that fails; a track that grows meanwhile | no leg twice, none lost but by Mapbox |
| `ui` | React state | tracking, forms, login | timers and callbacks that outlive their owner | no upload after a stop |
| `bilcool-lib`, `docs`, `testing`, `infrastructure` | none | logging, generated API docs, end-to-end tests, Terraform and Helm | - | - |

## 2. Modules and their correspondence to the code

| module | models | relation to the others |
|---|---|---|
| `AtLeastOnce` | what an outbox promises, whichever relay empties it | abstract specification |
| `OutboxRelay` | the polling relay of `message_broker` | implements `AtLeastOnce` (`ImplementsAtLeastOnce`) |
| `BookingCalendar` | create, move and delete of bookings | has the consumer's `AddUser`/`DeleteUser` as two of its actions |
| `BookingTrip` | pause, resume, track, end of one booking | leaves overlap and clock to `BookingCalendar` |
| `UserAdmin` | admin requests on the users of `authentication` | its outbox rows are the events of `OutboxRelay` |
| `EventConsumer` | the three SQS consumers and their projections | its messages are what the relays publish |
| `ReplicationRelay` | the relay that follows a replication slot | implements `AtLeastOnce` as well |
| `Login` | tokens, sessions and passkeys, statement by statement | has the DELETE and restore of `UserAdmin` as two of its actions |
| `RouteMatching` | distance and route of a track in chunks | its `AddPoint` is the INSERT of `BookingTrip`, its result what `SettleDistance` stands for |
| `LedgerQuery` | the paged queries of `event_ledger` | its `SaveEvent` is that of `EventConsumer`, with the times that the key is made of |

`MC*.tla` give the constants their values for TLC, `*_proofs.tla` hold the theorems of
the module they are named for. `Readers_proofs` has those of `RouteMatching` and of
`LedgerQuery`, the two readers, which have no variable in common; that is why the
state and the specification of `LedgerQuery` have names of their own (`phase`,
`LedgerTypeOK`, `LedgerSpec`, ...).
Definitions that are called mutants in their comment (`SelectableUnlocked`,
`DeleteStarted`, ...) are wrong versions of the definition below them: with the
mutant in its place, TLC must find the property broken that `PROJECT.json` names
with it. No specification uses them.

Conventions. Every SQL statement outside an explicit transaction is its own
transaction at READ COMMITTED, PostgreSQL's default, which nothing in the code
changes: an action of a handler ends where another request's statement may come
in. A request that is between two statements is a record in `calls` (`jobs` in
`EventConsumer`), with what it has read so far. `answer` is what the last step
told its client; where a request does not parse, it is an answer before any statement
(`BadRequest`). Variables and fields called history record when something was
read or written, so that a property can say "neither could see the other"; no
action's guard reads them. Identifiers, times and payloads are model values or
small numbers.

**OutboxRelay.** `outbox` is the column `emitted_at` of the table, `rows` the row
locks of each running `Poll`, `unsent` the chunks whose goroutine has not written
to `resultChannel`, `accepted` and `failed` what `SendBatchMessages` has joined so
far, `strays` the `PublishBatch` calls that outlived a `SendBatchMessages` that
returned on `ctx.Err()`, `published` the copies on the topic. `Select`,
`Dispatch`, `PublishChunk`/`PublishError`, `Mark`, `Commit` follow `Poll` top to
bottom; `GiveUp` is its returns without a commit; `Abort` is every other way to
lose the transaction. A chunk that SNS accepts in part is `PublishChunk` with a
proper subset. External: SNS itself.

**BookingCalendar.** `UpdateBooking` and `DeleteBooking` are the handlers of the router.
`CheckUser`, `LookForOverlap` and `Upsert` are
`UpdateBooking`: the statement of line 103 reads its snapshot (the overlap CTE)
and writes later, so it is two steps. `Delete` and `ExplainMiss` are the
repository's `DeleteBooking`. `Use` stands for a first row that references a booking, which
`BookingTrip` has in detail.

**BookingTrip.** `PauseBooking`, `ResumeBooking`, `EndBooking` and `AddTrackPoints` are
the handlers of the router with the first statement of each. `FindBooking` is the first statement of pause, resume and upload,
`CheckPaused`/`InsertPause` the rest of `PauseBooking`, `ClaimPause`/`ClosePause`
the subselect and the write of `ResumeBooking`'s UPDATE (PostgreSQL evaluates the
subselect in the statement's snapshot, waits for the row lock and then repeats
only the condition on `id`), `InsertPoint`/`AcceptUpload` the loop of
`AddTrackPoints`, `SettleDistance`/`CommitEnd` the command and the transaction of
`EndBooking`.

**UserAdmin.** `StartDelete`, `CountAdmins`, `DeleteRow` are `DeleteUser`;
`StartRole`, `CountAdmins`, `SetRole` are `changeUserRole` and `ChangeUserRole`;
`CreateUser`, `UpdateUser` (its statement is `SetNames`) and `RestoreUser` are one step
each, because their one statement decides and locks. Users are people, by `user_ref`;
usernames and emails are left out but for `NameTaken`: somebody else's row, a deleted one
included, may have the name that a request asks for. `CreateUser` then answers the
database's error and `UpdateUser` says `exists`. UPDATE, outbox row and commit are one step: the UPDATE holds
its row lock until the commit and PostgreSQL repeats its whole WHERE after
waiting. `tokens` are the JWTs that say admin: the middleware trusts them, so a
request may come from a former admin.

**EventConsumer.** A behaviour follows one of the three services (`service`); their
queues and tables share nothing. `queue` and `receives` are SQS and its redrive
policy (external, from how Terraform sets it up), `jobs` the deliveries in a worker
or a Lambda. A handler's transaction is one step at its commit, except for the
UPDATE of a user deletion, which does not wait for an uncommitted user and so
gets `LookForUser` of its own. `Acknowledge` is `DeleteMessages`, or a Lambda's
answer; `Lose` is everything that makes a delivery come to nothing. Batches are
taken apart into their messages: the only thing messages of a batch share is the
delete at its end, which may reach SQS for each of them or not.

**ReplicationRelay.** `wal` is the log as the slot decodes it, one entry for each
commit on the published table: a whole transaction, or one that the server sent in
parts and ends with a `StreamCommitMessageV2`. `confirmed` is the slot's
`confirmed_flush_lsn`, `received[i]` the `clientXLogPos` of an instance, `slot` the
instance whose connection holds the slot. `ReceiveCommit` is a message of
`processV2`; `Find`, `Send` and `Mark` are the three calls of
`SnsDispatcher.Execute`; `EndExecute` is the assignment of `clientXLogPos` that
follows whatever became of them. `Find` may leave out the rows whose commits are received
before they are visible, and, as a fault, any others: `FindAllNewEvents` does not ask
`rows.Err()`, so that a read that was cut short counts as complete. `Mark` appends to `wal`: the relay sees its own
UPDATE and looks again. `Disconnect` leaves an instance that runs and holds no
slot (`Deaf`), because nothing in the loop connects again. `missed` is history: the
rows that a commit passed by, when it did so for a reason that the code has. A
keepalive names only what was sent before it, so it moves `received` no further
than the messages did, and is part of `Status`.

**Login.** `LoginBegin`, `ResetLogin` and `VerifyToken` are the handlers up to their first
statement, `FindByEmail`. `fresh` are the rows of `security_tokens` that `VerifyAndConsumeToken`
would still match, by their codes: rows with one code are consumed together.
`session`, `owner` and `allowed` are `webauthn_sessions`, with the passkeys that
the session data names; `keys` is `passkeys`. A call takes one step for each
statement, `ConsumeToken` being `VerifyAndConsumeToken`; `GiveUp` is every error return and every crash. `ValidateLogin` and
`ReplaceKeys` have what the WebAuthn library decides, external: a credential is
accepted if the session was begun with it and all passkeys of the session are
still the user's. `awake`, `valid`, `rivals` and `met` are history: what was true
at some time since the call read its session, and who stored a passkey meanwhile.

**RouteMatching.** Points are numbers and a leg leads from one to the next, so that
metres and geometry become the question which legs a result has. `lines` is the
result of either function: for a chunk, `Match` appends what a response holds (any
lines along the chunk, or none: Mapbox, external), `FallBack` one line over the
whole chunk. `lost` is history: legs that a response left out. `CalculateRoadDistance`
and `MatchRoute` have the same loop; `job` says which of them it is where they differ
(the missing token, the empty response).

**LedgerQuery.** `table` is DynamoDB's (external). No call of `event_repository.go` sets
`ConsistentRead`, and an index has no consistent reads to offer, so that a call may see
an item or not, and the next call the other way round, until the item is in `settled`:
then it has reached every replica and every index. `Text` is what `time.RFC3339Nano`
makes of a time, as the sequence of its characters' order, because DynamoDB compares
texts. `Evaluate` is the next item that a `Query` or `Scan` call sees in the loop of
`queryGSI` or `scan`; what lies before it and is not in `settled` is passed by
(`PassBy`). A call is not isolated from what is saved meanwhile, and the next one goes on
behind the key that it returned, so that a loop of calls is a walk from item to item,
wherever they were cut; `MayGoOn` is what the `Limit` of a Query, and its absence in a
Scan, leave to a call. `EndOfItems` is the call without a `LastEvaluatedKey`,
`AnswerPage` the slice that is returned, with the client's next request behind it.
`Refused` is BETWEEN with its bounds the wrong way round, which DynamoDB answers with an
error; the exact `emitted_at` is the pair of equal bounds. `seen` and `wentBack` are
history: a read has passed by an item that an earlier page, shown to this client, was made
from. `PagesMissNothing` claims nothing then, because the code cannot: the offset of a
page counts items that the next read may not see.

## 3. What the runs check

| run | question | instance | result |
|---|---|---|---|
| `outbox_relay` | Is an event ever lost, marked unpublished, duplicated without a failure, or stuck? Does the relay implement `AtLeastOnce`? | 3 events, 2 invocations, batch limit 3, chunks of 2, 2 failures, 1 refusal | holds |
| `booking_calendar` | When can bookings overlap? Do deletes and upserts keep what they must? | 2 references, 2 users, 2 requests, 2 slots, 2 instants, 3 writes | holds |
| `booking_race` | Is the car ever promised twice? | 2 references, 1 user, 2 requests, 2 slots, 2 instants, 2 writes | violated |
| `booking_trip` | When are two pauses open? Can rows outlive their booking, accepted points get lost? | 3 requests, 4 pauses, 2 points | holds |
| `user_admin` | How can the last admin go? Do events tell every change once? | 2 founders, 1 more user, 2 requests, 4 changes | holds |
| `event_consumer` | Is what was acknowledged taken in, once, whatever is redelivered, reordered or lost? What brings an event to the dead-letter queue that its service never took in? | 1 user, 4 types of events, any 2 messages of a queue, 2 receives each | holds |
| `consumer_retry` | Are the consumers idempotent, as the README of the broker says? | the same | violated |
| `replication_relay` | Is a commit skipped, an event duplicated without a fault? Does what was left behind go out? Does this relay implement `AtLeastOnce`? | 2 events, one of a streamed transaction, 2 instances, 2 faults, 1 refusal | holds |
| `login` | What can a token, a session and two calls at once do to passkeys and JWTs? | 1 user, 2 calls, 3 tokens of 2 codes, 3 sessions, 2 passkeys | holds |
| `route_matching` | Is a leg counted twice, or lost? | chunks of 3, tracks of up to 8 points, up to 2 lines for a chunk | holds |
| `ledger_query` | Does a page repeat an item, do pages pass one by? | 2 events at 1 s or 1.2 s, 3 items, pages of 1, the same two times as bounds | holds |
| `ledger_range` | Does a query from a time on have every event since then? | the same with a third time, and 1 s as the only bound | violated |

Why the bounds are enough. The relay needs two invocations to compete, two chunks
so that one fails after another was accepted, and a second failure to duplicate
again. The calendar's and the administration's races are between two requests;
three writes allow a booking to be made, moved and overlapped, four changes allow
a user to be created, deleted and restored while an admin goes. A third request on
a trip allows two pauses to race while a third request resumes. For the
consumers two messages show every order of two handlers, and two receives a
delivery that runs beside its own redelivery, a redelivery after the commit and
the dead-letter queue; 5 receives repeat that. The replication relay needs a second
instance to take over a slot, a second event to commit behind one that was left, and
a second fault to lose a dispatch and then a connection. In the login two calls race,
a third session lets a call begin before and complete after them, and three tokens of
two codes let a code repeat. Eight points in chunks of three are one to four chunks
with the last one full, short or absent; what the code does depends only on where the
end falls in a chunk. Three items and pages of one give three pages, an item saved
before, between and behind them, each settled or not, and two times that sort against
their order. What does not depend on the size
is proved (section 4). Deadlock is not checked where a bound stops the model: all
counters (`MaxWrites`, `MaxPauses`, `MaxChanges`, `MaxMessages`, ...) are guards,
and an idle service may stay idle.

Fairness. `OutboxRelay`: weak fairness of each invocation's progress, because
`RunLoop`'s ticker and EventBridge keep calling `Poll` and a poll that has begun
runs on; none of inserts, faults and strays. Faults are bounded, so "once faults
stop" is what the liveness properties say. `ReplicationRelay`: weak
fairness of an instance's receive loop and of `Start`, because the loop never stops
and the deployment restarts a process that ended; none of commits, faults or status
updates. It is not fair to an instance that is deaf, for nothing tells the
deployment, so both liveness properties have `AllDeaf` as a way out. The other modules
state safety only: their requests come from clients who may stop, and what SQS promises of
its queues says nothing about the handlers.

What the violated properties show, each quoted in `PROJECT.json` under findings:

- two overlapping bookings can be accepted, when their requests overlap in time;
- `bookings` fails for ever on a redelivered `user.deleted`;
- a query with `emitted_at_gte` of a whole second leaves out the rest of that second.

Observations that have no run of their own: a property that holds already describes
the behaviour, or it is about one statement. Each is of the module named:

- `OutboxRelay`: the comment of `Poll` (`pkg/outbox/poller/poller.go:27`) reads as
  exactly-once and is at-least-once; `DuplicatesNeedAborts` says how many copies there
  can be. The AWS SDK may repeat a `PublishBatch` by itself, within one call of
  `publisher.go`, when an answer is lost. Such a copy has no failure that the code could
  see, and is not in the models: `DuplicatesNeedAborts` and `DuplicatesNeedFaults` count
  what the relays themselves send.
- `BookingTrip`: two concurrent pauses leave a booking paused after its resume, as
  `OpenPausesRaced` allows. An ended booking takes track points, although the comment
  at `bookings/internal/pkg/web/router.go:200` says that its track does not change.
- `BookingCalendar`: the request of a user who is deleted meanwhile is answered as an
  overlap.
- `UserAdmin`: two concurrent requests can leave no admin, as `NoAdminNeedsRace` allows.
  A name that is taken is answered with 409 by `UpdateUser` (`users.go:380-383`) and with
  500 by `CreateUser`, which hands the database's error on (`users.go:49-51`).
- `ReplicationRelay`: when every instance is deaf, or no commit follows, a row that was
  passed stays in the outbox; `NextCommitRescues` says what it waits for. `rows.Err()` is
  not asked in `FindAllNewEvents` (`pkg/postgres/postgres.go:87-95`): a read that is cut
  short is taken for the whole outbox, one of the causes in `SkippedHasCause`.
  `message_broker/README.md:52-53` says that an UPDATE is ignored. Its row message is; the
  commit that follows it runs `Execute` all the same, on which `RefusedIsRetried` rests.
- `Login`: a crash between the two statements of a registration leaves its user without
  a passkey; the next `LoginBegin` then mails a token, which is the way back in.
- `RouteMatching`: the comment of `MatchRoute` says that the result always covers the
  track. It does so for chunks that fall back; legs that Mapbox leaves out of a matched
  chunk are missing (`lost`).
- `LedgerQuery`: the API promises `order_by`, by default `emitted_at`, and
  `order_direction` (`events_handler.go:30-31`). `order_by` is read nowhere, and a query
  without producer and type is a Scan, which returns the items in the order of their
  partitions and ignores the direction too. `PageInOrder` claims an order of index queries
  only. Pages by offset over reads that are not consistent can pass an item by when a read
  goes back (`wentBack`); neither `ConsistentRead` for the Scan nor the returned key for
  the client is used.

## 4. What is proved

TLAPS checks every theorem of the `*_proofs` modules for all values of the
constants, from the assumptions that the modules name: bounds are natural
numbers, limits positive, times and event ids natural numbers, `Requests` and `Users` finite where they are counted,
`Founders` not empty, and the shapes of slots, events and messages.

| module | inductive invariant | why it is needed | theorems |
|---|---|---|---|
| `OutboxRelay_proofs` | types; `LocksExclusive`, `EmittedWasPublished`; a poll has rows only while it runs, and they are new and its own; chunks in flight are disjoint parts of them; accepted ids are published; copies, strays and copies in flight together pay for failures | `DuplicatesNeedAborts` counts copies that are still on their way, and `EmittedWasPublished` is only true at `Commit` because `accepted` was so before | `TypeCorrect`, `RowLocking`, `NoLoss`, `DuplicateBound`, `Settled`, `Refinement` |
| `BookingCalendar_proofs` | references are unique; history runs forward; a request that found its slot free, and the row it writes, conflict only with rows written after its look | the overlap property speaks of rows, while the request that will write one is still in `calls` | `TypeCorrect`, `OverlapOnlyByRace`, `DeletesAreSafe`, `OwnersKept`, `OneByOneNeverDoubleBooks` |
| `BookingTrip_proofs` | a request runs one handler at a time; history runs forward; a request that found no pause open looked before every open pause was inserted; while a pause is open, open pauses and cleared requests together are no more than the requests; the stored points fall into those of accepted uploads and of each upload under way | the pause a cleared request will insert must be in a race with every open one before it is there; `OpenPausesBounded` holds because nobody is cleared while a pause is open, so each further pause uses up a request that already was; `AcceptedPointsStored` counts the points of an upload when it is answered, after they were stored among those of others | `TypeCorrect`, `PausesRace`, `RowsHaveBooking`, `PausesBounded`, `AcceptedStored`, `OneByOneOnePause` |
| `UserAdmin_proofs` | history runs forward; a request that may write, and whose check nobody has overtaken, leaves another admin | `NoAdminNeedsRace` is about the step that loses the last admin, and that step sees only what the count saw | `TypeCorrect`, `LastAdminLostByRace`, `RolesFrozen`, `EventsTell`, `OneByOneKeepsAdmin` |
| `EventConsumer_proofs` | commits are numbered forward; a handled delivery was taken in; a creation that was taken in left a row; an UPDATE that found no row is overtaken by a creation if the user is active; each receive of an event that has not been taken in is still at work or has its cause | a deletion that missed its user says nothing until it commits, and `AddUser` runs again for events in the inbox; `LossNeedsCause` speaks of the end in the dead-letter queue, its causes of each receive on the way there | `TypeCorrect`, `NothingLostByAck`, `NothingLostUnexcused`, `EndsCountedOnce`, `NoRevival`, `ZombiesNeedReordering`, `OnlyDeleteUserFails` |
| `ReplicationRelay_proofs` | positions run forward: the slot behind its holder, the holder behind the log; events have commits of their own; rows in a dispatch are recorded, accepted ones published; copies that are there or may come are paid for by faults | a dispatch under way has passed its commit but not its rows, and a deaf instance may still mark or publish what the new holder of the slot has found | `TypeCorrect`, `NothingSkipped`, `NoLoss`, `DuplicateBound`, `SlotAdvances`, `Refinement` |
| `Login_proofs` | registrations, fresh codes and calls that hold a consumed one add up to the tokens at most; what a call read of its user, and a session's passkeys, was true since it began; a call between its DELETE and its INSERT knows every passkey stored since | tokens are counted while they are in a call's hands, and a JWT is decided on four statements that each saw another moment | `TypeCorrect`, `TokensOpenOnce`, `OneKeyPerUser`, `KeysStay`, `LoginEarned`, `OneByOneOneKey` |
| `Readers_proofs`, on `RouteMatching` | lines end where the next chunk starts, or before; every leg before that point is covered or was left out; the number of points is what the loop began with | `LinesInOrder` of a longer result needs where the chunk began, and `GapsAreMapboxs` speaks of the whole track at the end of the loop | `TypeCorrect`, `NoLegTwice`, `NoLegLost`, `ChunksFitMapbox` |
| `Readers_proofs`, on `LedgerQuery` | the order of times as texts is a total order; what has been collected lies in order up to the last item; unless a read went back, everything known (settled when the client began, or part of an earlier page) that lies up to there was collected, and an item of the beginning that no page has shown has at least `offset` of the known before it | an offset counts what an earlier read saw, not what is there: the next page begins no further on than where the last one ended only if its reads see all of that again | `LedgerTypeCorrect`, `NoItemTwice`, `NothingPassedBy`, `GteUpToHidden` |

How the sums are avoided. What an upload has stored is a number, and the sum over the
uploads under way would need induction over them. `BookingTrip_proofs` says instead that
the points `1..track` can be divided: into a set for the accepted uploads and one for
each request, pairwise disjoint and of the right sizes. A step moves points between two
sets at most, and at the end the accepted set is a part of `1..track`.

Theorems about one request at a time. Four of the races that the properties describe
(`OverlapNeedsConcurrency`, `OpenPausesRaced`, `NoAdminNeedsRace`, `PasskeysNeedRace`)
have a theorem that turns them round: where no two requests run at once, assumed as
`\A r, s \in Requests : r = s`, the car is promised once, at most one pause is open, there
is an admin, and a user has one passkey (`OneByOneNeverDoubleBooks`, `OneByOneOnePause`,
`OneByOneKeepsAdmin`, `OneByOneOneKey`). They hold for any history of such requests and
with everything else that runs beside them: the consumer, the clock, creations and
restorations, expiry, calls that end in the middle. So the checks themselves are
right, what they lack is isolation, and no test that sends its requests one after the
other can show it.

Theorems about the violated claims. `OnlyDeleteUserFails` and `GteUpToHidden` say how far
two of them go: `DeleteUser` of `bookings` is the only handler that fails an event it has
taken in, and a query from a time on shows everything since that had settled but the
fractions of a whole second and the hundredths of a tenth that its bound hides as a text. For the third,
`OverlapOnlyByRace` and `OneByOneNeverDoubleBooks` do.

`LocksExclusive`, `OpenPausesBounded`, `DeletedKeepRole`, `ChunksFit`,
`PositionsAdvance` (an action property: the slot and its holder never go back in the
log), the `EmittedWasPublished` of the replication relay and the theorems of the last two
paragraphs are proved and no run checks them.

Only model-checked: the three properties under fairness, `EventuallyEmitted`,
`NextCommitRescues` and `RefusedIsRetried` (liveness and ENABLED are out of the prover's
reach). Every safety property of a run that passes is a theorem. The
three properties of the violated runs are refuted by TLC.

## 5. What is not modelled, and why

- Start-up, flags and wiring: sequential, without state after the start. The choice of
  the relay (`OUTBOX_MODE`) decides which of the two relay modules applies; nothing in
  the code keeps two services from running one each, and neither module has both.
- `TopicCache`: a map that is replaced whole under a lock; all that a relay sees of it is
  the error that `OutboxRelay` has in `Abort`.
- The queries of the journal, the lists of users and bookings, the ledger's lookup of one
  event: reads in one statement.
- Positions, metres, times of pauses, formatting, mails, the cryptography of WebAuthn
  and JWTs. The sum over the journal after a repeated end, and the distance of an end
  whose track grew meanwhile, need quantities that the modules do not have.
- The composition of `UserAdmin`, a relay and `EventConsumer`: whether the projections
  agree with authentication in the end. They do not after a restore, which neither
  `bookings` nor the journal handles; apart from that, `ZombieNeedsReordering` and
  `EventsTellState` are the two halves of the answer, each checked where it belongs.
- The UI: forms and views hold no protocol; the tracking hook's late positions meet
  `BookingTrip`'s upload.
- Generated API documentation, mocks, test support, logging, and deployment beyond the
  queues and the seeded admins.
