------------------------------ MODULE LedgerQuery ------------------------------
(***************************************************************************)
(* GET /api/v1/events of event_ledger: a client reads the ledger page by   *)
(* page, with limit and offset, while the consumer goes on saving events.  *)
(* One page is a loop of Query or Scan calls, each of which DynamoDB may   *)
(* cut short.  A call goes from item to item and is not isolated from what *)
(* is saved meanwhile: where it was cut, and the next one took over from   *)
(* the key it returned, cannot be told from the items.                     *)
(*                                                                         *)
(* No call asks for a consistent read, and an index has none to offer.     *)
(* A call may see an item that was saved, or pass it by, and the next call *)
(* the other way round, until the item has settled: then every replica,    *)
(* and every index, has it.                                                *)
(*                                                                         *)
(* Times are hundredths of a second.  The table keeps them as text, and    *)
(* compares them as text: "...:01Z", "...:01.2Z", "...:01.25Z".            *)
(*                                                                         *)
(* Names that RouteMatching has too are prefixed: the proofs extend both.  *)
(***************************************************************************)
EXTENDS Naturals, FiniteSets, Sequences

CONSTANTS Events,    \* event ids, with the events of other producers left out
          Times,     \* values of emitted_at
          Bounds,    \* values of emitted_at_gte and emitted_at_lte
          Limit,     \* size of a page
          MaxItems   \* bound: items of the ledger

ASSUME EventsAssumption == Events \subseteq Nat
ASSUME TimesAssumption == Times \subseteq Nat \ {0} /\ Bounds \subseteq Nat \ {0}
ASSUME LimitAssumption == Limit \in Nat \ {0}

VARIABLES table,     \* items of the table
          settled,   \* those that every read sees, of whatever replica or index
          phase,     \* "idle", "read" in the loop, "answer", "done" with the last page
          query,     \* index or scan, direction and bounds, as long as the client reads
          offset,
          collected, \* items the loop has collected
          last,      \* the last item that was evaluated, if there is one
          base,      \* history: what had settled when the client began
          shown,     \* history: items of the pages it was given
          seen,      \* history: items that were collected for these pages
          wentBack   \* history: a read has passed one of these by

ledgerVars ==
  <<table, settled, phase, query, offset, collected, last, base, shown, seen, wentBack>>

Items == [id : Events, at : Times]
None == 0
Queries ==
  [of : {"index", "scan"}, desc : BOOLEAN, gte : Bounds \cup {None}, lte : Bounds \cup {None}]

\* Pages do not show more than they were asked for, and a Query never has more
\* than the loop needs.
LedgerTypeOK ==
  /\ table \subseteq Items /\ settled \subseteq table
  /\ phase \in {"idle", "read", "answer", "done"}
  /\ query \in Queries
  /\ offset \in Nat
  /\ collected \in Seq(Items)
  /\ last \in {{}} \cup {{x} : x \in Items}
  /\ base \subseteq Items /\ shown \subseteq Items /\ seen \subseteq Items
  /\ wentBack \in BOOLEAN
  /\ Cardinality(shown) <= offset
  /\ query.of = "index" => Len(collected) <= offset + Limit

LedgerInit ==
  /\ table = {} /\ settled = {}
  /\ phase = "idle"
  /\ query = [of |-> "index", desc |-> FALSE, gte |-> None, lte |-> None]
  /\ offset = 0
  /\ collected = <<>>
  /\ last = {}
  /\ base = {} /\ shown = {} /\ seen = {}
  /\ wentBack = FALSE

--------------------------------------------------------------------------------
\* Text and order

\* Format(time.RFC3339Nano) cuts the zeros at the end of a fraction, and the dot
\* with the last of them.  "." is 0, digits follow, "Z" is behind them.
Text(t) ==
  LET second == t \div 100 + 1
      tenth == (t \div 10) % 10
      hundredth == t % 10
  IN CASE hundredth # 0 -> <<second, 0, tenth + 1, hundredth + 1, 11>>
       [] hundredth = 0 /\ tenth # 0 -> <<second, 0, tenth + 1, 11>>
       [] OTHER -> <<second, 11>>

TextLess(t, u) ==
  LET s == Text(t)
      v == Text(u)
  IN \E k \in 1..Len(s) :
       k <= Len(v) /\ s[k] < v[k] /\ \A i \in 1 .. k - 1 : s[i] = v[i]

\* The sort key of an index, then whatever tells items with the same key apart.
ByTime(x, y) == TextLess(x.at, y.at) \/ (x.at = y.at /\ x.id < y.id)

\* A scan goes through the partitions, and through each by its sort key.
ByPartition(x, y) == x.id < y.id \/ (x.id = y.id /\ TextLess(x.at, y.at))

Before(x, y) ==
  CASE query.of = "scan" -> ByPartition(x, y)
    [] query.of = "index" /\ query.desc -> ByTime(y, x)
    [] OTHER -> ByTime(x, y)

\* emitted_at >= :eagte and emitted_at <= :ealte, or BETWEEN.  emitted_at = :ea is
\* both bounds at once.
InRange(x) ==
  /\ query.gte # None => ~TextLess(x.at, query.gte)
  /\ query.lte # None => ~TextLess(query.lte, x.at)

\* BETWEEN with the lower bound above the upper one is an error of DynamoDB.
Refused ==
  /\ query.of = "index"
  /\ query.gte # None /\ query.lte # None
  /\ TextLess(query.lte, query.gte)

--------------------------------------------------------------------------------
\* The consumer

\* PutItem; attribute_not_exists(event_id) is asked of the item with the same
\* event_id and emitted_at, and a failed condition counts as saved.
SaveEvent(x) ==
  /\ x \in table \/ Cardinality(table) < MaxItems
  /\ table' = table \cup {x}
  /\ UNCHANGED <<settled, phase, query, offset, collected, last, base, shown, seen, wentBack>>

\* The last replica, and the last index, gets the item.
Settle(x) ==
  /\ x \in table \ settled
  /\ settled' = settled \cup {x}
  /\ UNCHANGED <<table, phase, query, offset, collected, last, base, shown, seen, wentBack>>

--------------------------------------------------------------------------------
\* A request

\* The client begins with offset 0.
Begin(q) ==
  /\ phase = "idle"
  /\ phase' = "read"
  /\ query' = q
  /\ base' = settled
  /\ UNCHANGED <<table, settled, offset, collected, last, shown, seen, wentBack>>

\* Mutant of Ahead: ExclusiveStartKey is not set.
AheadAgain == {x \in table : query.of = "scan" \/ InRange(x)}

\* What lies behind the last item.  The bounds are part of the key condition of a
\* Query, and a filter of a Scan.
Ahead ==
  {x \in table : /\ query.of = "scan" \/ InRange(x)
                 /\ \A l \in last : Before(l, x)}

\* A read passes items by.  That it could not have seen them holds of those that
\* have not settled, even if an earlier read did see them.
PassBy(S) ==
  /\ S \cap settled = {}
  /\ wentBack' = (wentBack \/ S \cap seen # {})

\* The condition of either loop.
Enough == Len(collected) >= offset + Limit

\* Mutant of MayGoOn: a Query has no Limit.
MayGoOnUnlimited == TRUE

\* A Query is limited to what is missing.  A Scan is not: it may go on behind what
\* the loop needs.
MayGoOn == query.of = "scan" \/ ~Enough

\* A call evaluates the next item that it sees.
Evaluate(x) ==
  /\ phase = "read"
  /\ MayGoOn
  /\ x \in Ahead
  /\ PassBy({y \in Ahead : Before(y, x)})
  /\ collected' = IF InRange(x) THEN Append(collected, x) ELSE collected
  /\ last' = {x}
  /\ UNCHANGED <<table, settled, phase, query, offset, base, shown, seen>>

\* Mutant of EndOfItems: one call makes the page, whatever key it returned.
EndOfItemsOnce ==
  /\ phase = "read" /\ ~Refused
  /\ last # {} \/ Ahead \cap settled = {}
  /\ phase' = "answer"
  /\ UNCHANGED <<table, settled, query, offset, collected, last, base, shown, seen, wentBack>>

\* A call sees no more items, and returns no key.
EndOfItems ==
  /\ phase = "read" /\ ~Refused
  /\ PassBy(Ahead)
  /\ phase' = "answer"
  /\ UNCHANGED <<table, settled, query, offset, collected, last, base, shown, seen>>

\* A call fails, and the client asks for the page again.
Fail ==
  /\ phase = "read"
  /\ collected' = <<>>
  /\ last' = {}
  /\ UNCHANGED <<table, settled, phase, query, offset, base, shown, seen, wentBack>>

\* collected[offset:end], empty when the offset lies behind.
Page == {collected[i] : i \in offset + 1 .. (IF Enough THEN offset + Limit ELSE Len(collected))}

\* The page; the client asks for the next one unless this one was short.
AnswerPage ==
  /\ phase = "answer" \/ (phase = "read" /\ Enough)
  /\ shown' = shown \cup Page
  /\ seen' = seen \cup {collected[i] : i \in 1..Len(collected)}
  /\ phase' = IF Enough THEN "read" ELSE "done"
  /\ offset' = offset + Limit
  /\ collected' = <<>>
  /\ last' = {}
  /\ UNCHANGED <<table, settled, query, base, wentBack>>

\* The client has what it wanted, or gives up, and starts over some time.
Forget ==
  /\ phase \in {"read", "done"}
  /\ phase' = "idle"
  /\ offset' = 0
  /\ collected' = <<>>
  /\ last' = {}
  /\ base' = {} /\ shown' = {} /\ seen' = {}
  /\ wentBack' = FALSE
  /\ UNCHANGED <<table, settled, query>>

LedgerNext ==
  \/ \E x \in Items : SaveEvent(x) \/ Settle(x) \/ Evaluate(x)
  \/ \E q \in Queries : Begin(q)
  \/ EndOfItems \/ Fail \/ AnswerPage \/ Forget

LedgerSpec == LedgerInit /\ [][LedgerNext]_ledgerVars

--------------------------------------------------------------------------------
\* Properties

\* The calls of a page continue each other: together they return no item twice,
\* whatever was saved between them, and those of an index in the order asked for,
\* as texts (event_repository.go:90-119, 148-172).  Of a scan no order is claimed:
\* it knows neither order_by nor order_direction (events_handler.go:30-31).
PageInOrder ==
  \A i, j \in 1..Len(collected) : i < j =>
    /\ collected[i] # collected[j]
    /\ query.of = "index" =>
         IF query.desc THEN ByTime(collected[j], collected[i])
                       ELSE ByTime(collected[i], collected[j])

\* Pages by offset: a client that reads on to a short page has been shown every item
\* that had settled when it began and that its bounds select, unless one of its
\* reads passed by what an earlier page was made from.  What is saved or settles
\* between the pages moves items back, so that some are shown twice, and never
\* forward (event_repository.go:87-137, 148-193).
PagesMissNothing == phase = "done" /\ ~wentBack => \A x \in base : InRange(x) => x \in shown

\* "Filter events emitted at or after this time" (events_handler.go:26).
GteIsTime ==
  phase = "done" /\ ~wentBack /\ query.lte = None =>
    \A x \in base : x.at >= query.gte => x \in shown
================================================================================
