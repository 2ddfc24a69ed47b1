--------------------------- MODULE OutboxRelay_proofs ---------------------------
(***************************************************************************)
(* Proofs about OutboxRelay, for any sets of events and invocations, any   *)
(* batch limit and chunk size, and any bounds.                             *)
(***************************************************************************)
EXTENDS OutboxRelay, TLAPS

--------------------------------------------------------------------------------
\* The inductive invariant

\* What an invocation holds at each step of Poll.
StepInv ==
  \A p \in Pollers :
    /\ pc[p] = "idle" => rows[p] = {}
    /\ pc[p] # "publishing" => unsent[p] = {} /\ ~failed[p]
    /\ pc[p] \in {"idle", "locked"} => accepted[p] = {}

\* Chunks are disjoint pieces of the locked rows, and an event is either still
\* in flight or answered, not both.
ChunkInv ==
  \A p \in Pollers :
    /\ \A c \in unsent[p] : c \subseteq rows[p] /\ c \cap accepted[p] = {}
    /\ \A c, d \in unsent[p] : c # d => c \cap d = {}
    /\ accepted[p] \subseteq rows[p]

\* An id in res.Successful stands for a copy on the topic; what was published
\* or is on its way was recorded first.
SourceInv ==
  /\ \A p \in Pollers : \A e \in accepted[p] : published[e] >= 1
  /\ \A e \in Events : outbox[e] = "absent" => published[e] = 0 /\ strays[e] = 0

Copies(e) == published[e] + strays[e]

\* Who may still add a copy of e: only an event that is marked, or accepted in a
\* poll without errors, has used the free copy that no abort accounts for.
BudgetInv ==
  \A e \in Events :
    /\ Copies(e) <= aborts + 1
    /\ outbox[e] # "emitted" /\ (\A p \in Pollers : e \notin rows[p]) => Copies(e) <= aborts
    /\ \A p \in Pollers :
         /\ e \in rows[p] /\ (e \notin accepted[p] \/ failed[p]) => Copies(e) <= aborts
         /\ e \in InFlight(p) /\ failed[p] => Copies(e) + 1 <= aborts

IInv ==
  /\ TypeOK
  /\ StepInv
  /\ ChunkInv
  /\ LocksExclusive
  /\ SourceInv
  /\ EmittedWasPublished
  /\ BudgetInv

--------------------------------------------------------------------------------
\* Lemmas about the helpers

\* Plus adds one exactly at the events of S (the counting of copies in
\* SendBatchMessages and of the calls a poll leaves behind).
LEMMA PlusAdds ==
  ASSUME NEW count \in [Events -> Nat], NEW S
  PROVE  /\ Plus(count, S) \in [Events -> Nat]
         /\ \A e \in Events :
              Plus(count, S)[e] = IF e \in S THEN count[e] + 1 ELSE count[e]
  BY DEF Plus

\* Whatever way the publisher cuts the rows, the chunks are disjoint and inside.
LEMMA ChunksPartition ==
  ASSUME NEW S, NEW C \in Chunkings(S)
  PROVE  /\ \A c \in C : c \subseteq S
         /\ \A c, d \in C : c # d => c \cap d = {}
  BY DEF Chunkings

\* An event is in flight when one of the unanswered chunks holds it.
LEMMA InFlightChunk ==
  ASSUME NEW p \in Pollers, NEW e
  PROVE  e \in InFlight(p) <=> \E c \in unsent[p] : e \in c
  BY DEF InFlight

--------------------------------------------------------------------------------
\* Type correctness

\* No step of the relay takes a variable out of its type.
LEMMA TypeStep == TypeOK /\ [Next]_vars => TypeOK'
<1> SUFFICES ASSUME TypeOK, [Next]_vars
             PROVE  TypeOK'
  OBVIOUS
<1> USE DEF TypeOK, Steps, Finish
<1>1. ASSUME NEW e \in Events, Insert(e)
      PROVE  TypeOK'
  BY <1>1 DEF Insert, pollVars
<1>2. ASSUME NEW p \in Pollers, Select(p)
      PROVE  TypeOK'
  BY <1>2 DEF Select, Selectable
<1>3. ASSUME NEW p \in Pollers, Dispatch(p)
      PROVE  TypeOK'
  <2>1. PICK C \in Chunkings(rows[p]) : unsent' = [unsent EXCEPT ![p] = C]
    BY <1>3 DEF Dispatch
  <2>2. C \in SUBSET SUBSET Events
    BY ChunksPartition, rows[p] \in SUBSET Events
  <2>3. QED
    BY <1>3, <2>1, <2>2 DEF Dispatch
<1>4. ASSUME NEW p \in Pollers, NEW c \in unsent[p], PublishChunk(p, c)
      PROVE  TypeOK'
  <2>1. PICK S \in SUBSET c :
          /\ accepted' = [accepted EXCEPT ![p] = @ \cup S]
          /\ published' = Plus(published, S)
          /\ \/ S = c /\ UNCHANGED refusals
             \/ S # c /\ refusals < MaxRefusals /\ refusals' = refusals + 1
    BY <1>4 DEF PublishChunk
  <2>2. c \in SUBSET Events
    OBVIOUS
  <2>3. published' \in [Events -> Nat]
    BY <2>1, PlusAdds
  <2>4. refusals' \in 0..MaxRefusals
    BY <2>1, BoundsAssumption
  <2>5. accepted' \in [Pollers -> SUBSET Events]
    BY <2>1, <2>2
  <2>6. QED
    BY <1>4, <2>3, <2>4, <2>5 DEF PublishChunk
<1>5. ASSUME NEW p \in Pollers, NEW c \in unsent[p], PublishError(p, c)
      PROVE  TypeOK'
  <2>1. published' \in [Events -> Nat]
    BY <1>5, PlusAdds DEF PublishError
  <2>2. aborts' \in 0..MaxAborts
    BY <1>5, BoundsAssumption DEF PublishError
  <2>3. QED
    BY <1>5, <2>1, <2>2 DEF PublishError
<1>6. ASSUME NEW p \in Pollers, Mark(p)
      PROVE  TypeOK'
  BY <1>6 DEF Mark
<1>7. ASSUME NEW p \in Pollers, GiveUp(p)
      PROVE  TypeOK'
  BY <1>7 DEF GiveUp
<1>8. ASSUME NEW p \in Pollers, Commit(p)
      PROVE  TypeOK'
  BY <1>8 DEF Commit
<1>9. ASSUME NEW p \in Pollers, Abort(p)
      PROVE  TypeOK'
  <2>1. strays' \in [Events -> Nat]
    BY <1>9, PlusAdds DEF Abort
  <2>2. aborts' \in 0..MaxAborts
    BY <1>9, BoundsAssumption DEF Abort
  <2>3. QED
    BY <1>9, <2>1, <2>2 DEF Abort
<1>10. ASSUME NEW e \in Events, StrayEnds(e)
       PROVE  TypeOK'
  <2>1. published' \in [Events -> Nat]
    BY <1>10, PlusAdds DEF StrayEnds
  <2>2. strays[e] - 1 \in Nat
    BY <1>10 DEF StrayEnds
  <2>3. strays' \in [Events -> Nat]
    BY <1>10, <2>2 DEF StrayEnds
  <2>4. QED
    BY <1>10, <2>1, <2>3 DEF StrayEnds, pollVars
<1>11. CASE UNCHANGED vars
  BY <1>11 DEF vars, pollVars
<1>12. QED
  BY <1>1, <1>2, <1>3, <1>4, <1>5, <1>6, <1>7, <1>8, <1>9, <1>10, <1>11
  DEF Next, Progress, Fault

\* Every variable keeps its type in every reachable state of the relay.
THEOREM TypeCorrect == Spec => []TypeOK
<1>1. Init => TypeOK
  BY BoundsAssumption DEF Init, TypeOK, Steps
<1>2. QED
  BY <1>1, TypeStep, PTL DEF Spec

--------------------------------------------------------------------------------
\* Safety

\* When a transaction ends without an answer pending, nothing but its own
\* locals changes (GiveUp, Commit and Abort all end in Finish).
LEMMA FinishLocals ==
  ASSUME TypeOK, NEW p \in Pollers, Finish(p)
  PROVE  /\ pc'[p] = "idle" /\ rows'[p] = {} /\ unsent'[p] = {}
         /\ accepted'[p] = {} /\ failed'[p] = FALSE
         /\ \A q \in Pollers : q # p =>
              /\ pc'[q] = pc[q] /\ rows'[q] = rows[q] /\ unsent'[q] = unsent[q]
              /\ accepted'[q] = accepted[q] /\ failed'[q] = failed[q]
  BY DEF Finish, TypeOK

\* Every step of the relay preserves the inductive invariant.
LEMMA InvariantStep == IInv /\ [Next]_vars => IInv'
<1> SUFFICES ASSUME IInv, [Next]_vars
             PROVE  IInv'
  OBVIOUS
<1>0. TypeOK'
  BY TypeStep DEF IInv
<1> USE DEF IInv, TypeOK, Steps
<1>1. ASSUME NEW e \in Events, Insert(e)
      PROVE  IInv'
  <2> USE <1>1 DEF Insert, pollVars
  <2>1. StepInv' /\ ChunkInv'
    BY DEF StepInv, ChunkInv
  <2>2. LocksExclusive' /\ EmittedWasPublished'
    BY DEF LocksExclusive, EmittedWasPublished
  <2>3. SourceInv'
    BY DEF SourceInv
  <2>4. BudgetInv'
    <3>1. Copies(e) = 0
      BY DEF SourceInv, Copies
    <3>2. \A q \in Pollers : InFlight(q)' = InFlight(q)
      BY DEF InFlight
    <3>3. \A x \in Events : Copies(x)' = Copies(x)
      BY DEF Copies
    <3>4. e \notin UNION {rows[q] : q \in Pollers}
      BY DEF LocksExclusive
    <3>5. QED
      BY <3>1, <3>2, <3>3, <3>4 DEF BudgetInv
  <2>5. QED
    BY <1>0, <2>1, <2>2, <2>3, <2>4
<1>2. ASSUME NEW p \in Pollers, Select(p)
      PROVE  IInv'
  <2>1. PICK S \in SUBSET Selectable : rows' = [rows EXCEPT ![p] = S]
    BY <1>2 DEF Select
  <2> USE <1>2, <2>1 DEF Select
  <2>2. StepInv' /\ ChunkInv'
    BY DEF StepInv, ChunkInv
  <2>3. LocksExclusive' /\ EmittedWasPublished' /\ SourceInv'
    BY DEF LocksExclusive, EmittedWasPublished, SourceInv, Selectable, StepInv
  <2>4. BudgetInv'
    <3>1. \A q \in Pollers : InFlight(q)' = InFlight(q)
      BY DEF InFlight
    <3>2. \A x \in Events : Copies(x)' = Copies(x)
      BY DEF Copies
    <3>3. InFlight(p) = {} /\ ~failed[p]
      BY DEF StepInv, InFlight
    <3>4. \A x \in S : Copies(x) <= aborts
      BY DEF Selectable, BudgetInv
    <3>5. QED
      BY <3>1, <3>2, <3>3, <3>4 DEF BudgetInv, StepInv, Selectable
  <2>5. QED
    BY <1>0, <2>2, <2>3, <2>4
<1>3. ASSUME NEW p \in Pollers, Dispatch(p)
      PROVE  IInv'
  <2>1. PICK C \in Chunkings(rows[p]) : unsent' = [unsent EXCEPT ![p] = C]
    BY <1>3 DEF Dispatch
  <2> USE <1>3, <2>1 DEF Dispatch
  <2>2. StepInv'
    BY DEF StepInv
  <2>3. ChunkInv'
    <3>1. accepted[p] = {}
      BY DEF StepInv
    <3>2. QED
      BY <3>1, ChunksPartition DEF ChunkInv
  <2>4. LocksExclusive' /\ EmittedWasPublished' /\ SourceInv'
    BY DEF LocksExclusive, EmittedWasPublished, SourceInv
  <2>5. BudgetInv'
    <3>1. \A x \in Events : Copies(x)' = Copies(x)
      BY DEF Copies
    <3>2. \A q \in Pollers \ {p} : InFlight(q)' = InFlight(q)
      BY DEF InFlight
    <3>3. ~failed'[p]
      BY DEF StepInv
    <3>4. QED
      BY <3>1, <3>2, <3>3 DEF BudgetInv
  <2>6. QED
    BY <1>0, <2>2, <2>3, <2>4, <2>5
<1>4. ASSUME NEW p \in Pollers, NEW c \in unsent[p], PublishChunk(p, c)
      PROVE  IInv'
  <2>1. PICK S \in SUBSET c : /\ accepted' = [accepted EXCEPT ![p] = @ \cup S]
                              /\ published' = Plus(published, S)
    BY <1>4 DEF PublishChunk
  <2> USE <1>4 DEF PublishChunk
  <2>2. c \subseteq rows[p] /\ c \cap accepted[p] = {}
    BY DEF ChunkInv
  <2>3. \A x \in Events : published'[x] = IF x \in S THEN published[x] + 1 ELSE published[x]
    BY <2>1, PlusAdds
  <2>4. StepInv'
    BY <2>1 DEF StepInv
  <2>5. ChunkInv'
    BY <2>1, <2>2 DEF ChunkInv
  <2>6. LocksExclusive'
    BY DEF LocksExclusive
  <2>7. EmittedWasPublished'
    BY <2>3 DEF EmittedWasPublished
  <2>8. SourceInv'
    BY <2>1, <2>2, <2>3 DEF SourceInv, LocksExclusive
  <2>9. BudgetInv'
    <3>1. \A x \in Events : Copies(x)' = IF x \in S THEN Copies(x) + 1 ELSE Copies(x)
      BY <2>3 DEF Copies
    <3>2. \A q \in Pollers : InFlight(q)' \subseteq InFlight(q)
      BY DEF InFlight
    <3>3. S \subseteq InFlight(p) /\ S \cap InFlight(p)' = {}
      BY <2>1 DEF InFlight, ChunkInv
    <3>4. \A q \in Pollers \ {p} : rows[q] \cap S = {} /\ InFlight(q) \cap S = {}
      BY <2>2 DEF LocksExclusive, ChunkInv, InFlight
    <3>5. \A x \in S : /\ x \in rows[p] /\ x \notin accepted[p] /\ x \in accepted'[p]
                       /\ outbox[x] = "new"
      BY <2>1, <2>2 DEF LocksExclusive
    <3>6. \A x \in Events : Copies(x) \in Nat
      BY DEF Copies
    <3>7. ASSUME NEW x \in Events
          PROVE  /\ Copies(x)' <= aborts' + 1
                 /\ outbox'[x] # "emitted" /\ (\A q \in Pollers : x \notin rows'[q])
                      => Copies(x)' <= aborts'
                 /\ \A q \in Pollers :
                      /\ x \in rows'[q] /\ (x \notin accepted'[q] \/ failed'[q])
                           => Copies(x)' <= aborts'
                      /\ x \in InFlight(q)' /\ failed'[q] => Copies(x)' + 1 <= aborts'
      <4>1. CASE x \in S
        BY <4>1, <3>1, <3>3, <3>4, <3>5, <3>6, <3>2 DEF BudgetInv
      <4>2. CASE x \notin S
        BY <4>2, <2>1, <3>1, <3>2, <3>6 DEF BudgetInv
      <4>3. QED
        BY <4>1, <4>2
    <3>8. QED
      BY <3>7 DEF BudgetInv
  <2>10. QED
    BY <1>0, <2>4, <2>5, <2>6, <2>7, <2>8, <2>9
<1>5. ASSUME NEW p \in Pollers, NEW c \in unsent[p], PublishError(p, c)
      PROVE  IInv'
  <2>1. PICK S \in SUBSET c : published' = Plus(published, S)
    BY <1>5 DEF PublishError
  <2> USE <1>5 DEF PublishError
  <2>2. c \subseteq rows[p] /\ c \cap accepted[p] = {}
    BY DEF ChunkInv
  <2>3. \A x \in Events : published'[x] = IF x \in S THEN published[x] + 1 ELSE published[x]
    BY <2>1, PlusAdds
  <2>4. StepInv'
    BY DEF StepInv
  <2>5. ChunkInv'
    BY DEF ChunkInv
  <2>6. LocksExclusive'
    BY DEF LocksExclusive
  <2>7. EmittedWasPublished'
    BY <2>3 DEF EmittedWasPublished
  <2>8. SourceInv'
    BY <2>2, <2>3 DEF SourceInv, LocksExclusive
  <2>9. BudgetInv'
    <3>1. \A x \in Events : Copies(x)' = IF x \in S THEN Copies(x) + 1 ELSE Copies(x)
      BY <2>3 DEF Copies
    <3>2. \A q \in Pollers : InFlight(q)' \subseteq InFlight(q)
      BY DEF InFlight
    <3>3. S \subseteq InFlight(p) /\ S \cap InFlight(p)' = {}
      BY DEF InFlight, ChunkInv
    <3>4. \A q \in Pollers \ {p} : rows[q] \cap S = {} /\ InFlight(q) \cap S = {}
      BY <2>2 DEF LocksExclusive, ChunkInv, InFlight
    <3>5. \A x \in S : x \in rows[p] /\ x \notin accepted[p] /\ outbox[x] = "new"
      BY <2>2 DEF LocksExclusive
    <3>6. \A x \in Events : Copies(x) \in Nat
      BY DEF Copies
    <3>7. \A x \in InFlight(p) : x \in Events /\ x \in rows[p] /\ x \notin accepted[p]
      BY DEF ChunkInv, InFlight
    <3>8. ASSUME NEW x \in Events
          PROVE  /\ Copies(x)' <= aborts' + 1
                 /\ outbox'[x] # "emitted" /\ (\A q \in Pollers : x \notin rows'[q])
                      => Copies(x)' <= aborts'
                 /\ \A q \in Pollers :
                      /\ x \in rows'[q] /\ (x \notin accepted'[q] \/ failed'[q])
                           => Copies(x)' <= aborts'
                      /\ x \in InFlight(q)' /\ failed'[q] => Copies(x)' + 1 <= aborts'
      <4>1. CASE x \in S
        BY <4>1, <3>1, <3>3, <3>4, <3>5, <3>6, <3>2 DEF BudgetInv
      <4>2. CASE x \notin S
        BY <4>2, <3>1, <3>2, <3>6, <3>7 DEF BudgetInv
      <4>3. QED
        BY <4>1, <4>2
    <3>9. QED
      BY <3>8 DEF BudgetInv
  <2>10. QED
    BY <1>0, <2>4, <2>5, <2>6, <2>7, <2>8, <2>9
<1>6. ASSUME NEW p \in Pollers, Mark(p)
      PROVE  IInv'
  <2> USE <1>6 DEF Mark
  <2>1. StepInv' /\ ChunkInv'
    BY DEF StepInv, ChunkInv
  <2>2. LocksExclusive' /\ EmittedWasPublished' /\ SourceInv'
    BY DEF LocksExclusive, EmittedWasPublished, SourceInv
  <2>3. BudgetInv'
    BY DEF BudgetInv, Copies, InFlight
  <2>4. QED
    BY <1>0, <2>1, <2>2, <2>3
<1>7. ASSUME NEW p \in Pollers, GiveUp(p)
      PROVE  IInv'
  <2> USE <1>7 DEF GiveUp
  <2>0. /\ pc'[p] = "idle" /\ rows'[p] = {} /\ unsent'[p] = {}
        /\ accepted'[p] = {} /\ failed'[p] = FALSE
        /\ \A q \in Pollers : q # p =>
             /\ pc'[q] = pc[q] /\ rows'[q] = rows[q] /\ unsent'[q] = unsent[q]
             /\ accepted'[q] = accepted[q] /\ failed'[q] = failed[q]
    BY FinishLocals
  <2>1. StepInv' /\ ChunkInv'
    BY <2>0 DEF StepInv, ChunkInv
  <2>2. LocksExclusive' /\ EmittedWasPublished' /\ SourceInv'
    BY <2>0 DEF LocksExclusive, EmittedWasPublished, SourceInv
  <2>3. BudgetInv'
    <3>1. \A x \in Events : Copies(x)' = Copies(x)
      BY DEF Copies
    <3>2. \A q \in Pollers : InFlight(q)' \subseteq InFlight(q)
      BY <2>0 DEF InFlight
    <3>3. \A x \in rows[p] : x \in Events /\ Copies(x) <= aborts
      BY DEF BudgetInv
    <3>4. QED
      BY <2>0, <3>1, <3>2, <3>3 DEF BudgetInv
  <2>4. QED
    BY <1>0, <2>1, <2>2, <2>3
<1>8. ASSUME NEW p \in Pollers, Commit(p)
      PROVE  IInv'
  <2> USE <1>8 DEF Commit
  <2>0. /\ pc'[p] = "idle" /\ rows'[p] = {} /\ unsent'[p] = {}
        /\ accepted'[p] = {} /\ failed'[p] = FALSE
        /\ \A q \in Pollers : q # p =>
             /\ pc'[q] = pc[q] /\ rows'[q] = rows[q] /\ unsent'[q] = unsent[q]
             /\ accepted'[q] = accepted[q] /\ failed'[q] = failed[q]
    BY FinishLocals
  <2>1. StepInv' /\ ChunkInv'
    BY <2>0 DEF StepInv, ChunkInv
  <2>2. LocksExclusive'
    BY <2>0 DEF LocksExclusive, ChunkInv
  <2>3. EmittedWasPublished' /\ SourceInv'
    BY <2>0 DEF EmittedWasPublished, SourceInv
  <2>4. BudgetInv'
    <3>1. \A x \in Events : Copies(x)' = Copies(x)
      BY DEF Copies
    <3>2. \A q \in Pollers : InFlight(q)' \subseteq InFlight(q)
      BY <2>0 DEF InFlight
    <3>3. \A x \in rows[p] \ accepted[p] : x \in Events /\ Copies(x) <= aborts
      BY DEF BudgetInv
    <3>4. \A x \in Events : outbox'[x] # "emitted" => x \notin accepted[p] /\ outbox[x] # "emitted"
      OBVIOUS
    <3>5. QED
      BY <2>0, <3>1, <3>2, <3>3, <3>4 DEF BudgetInv
  <2>5. QED
    BY <1>0, <2>1, <2>2, <2>3, <2>4
<1>9. ASSUME NEW p \in Pollers, Abort(p)
      PROVE  IInv'
  <2> USE <1>9 DEF Abort
  <2>0. /\ pc'[p] = "idle" /\ rows'[p] = {} /\ unsent'[p] = {}
        /\ accepted'[p] = {} /\ failed'[p] = FALSE
        /\ \A q \in Pollers : q # p =>
             /\ pc'[q] = pc[q] /\ rows'[q] = rows[q] /\ unsent'[q] = unsent[q]
             /\ accepted'[q] = accepted[q] /\ failed'[q] = failed[q]
    BY FinishLocals
  <2>1. \A x \in Events : strays'[x] = IF x \in InFlight(p) THEN strays[x] + 1 ELSE strays[x]
    BY PlusAdds
  <2>2. \A x \in InFlight(p) : x \in rows[p] /\ x \notin accepted[p] /\ outbox[x] = "new"
    BY DEF InFlight, ChunkInv, LocksExclusive
  <2>3. StepInv' /\ ChunkInv'
    BY <2>0 DEF StepInv, ChunkInv
  <2>4. LocksExclusive' /\ EmittedWasPublished'
    BY <2>0 DEF LocksExclusive, EmittedWasPublished
  <2>5. SourceInv'
    BY <2>0, <2>1, <2>2 DEF SourceInv
  <2>6. BudgetInv'
    <3>1. \A x \in Events : Copies(x)' = IF x \in InFlight(p) THEN Copies(x) + 1 ELSE Copies(x)
      BY <2>1 DEF Copies
    <3>2. \A q \in Pollers : InFlight(q)' \subseteq InFlight(q)
      BY <2>0 DEF InFlight
    <3>3. \A q \in Pollers \ {p} : rows[q] \cap InFlight(p) = {} /\ InFlight(q) \cap InFlight(p) = {}
      BY <2>2 DEF LocksExclusive, ChunkInv, InFlight
    <3>4. \A x \in Events : Copies(x) \in Nat
      BY DEF Copies
    <3>5. ASSUME NEW x \in Events
          PROVE  /\ Copies(x)' <= aborts' + 1
                 /\ outbox'[x] # "emitted" /\ (\A q \in Pollers : x \notin rows'[q])
                      => Copies(x)' <= aborts'
                 /\ \A q \in Pollers :
                      /\ x \in rows'[q] /\ (x \notin accepted'[q] \/ failed'[q])
                           => Copies(x)' <= aborts'
                      /\ x \in InFlight(q)' /\ failed'[q] => Copies(x)' + 1 <= aborts'
      <4>1. InFlight(p)' = {}
        BY <2>0 DEF InFlight
      <4>2. CASE x \in InFlight(p)
        BY <4>1, <4>2, <2>0, <2>2, <3>1, <3>2, <3>3, <3>4 DEF BudgetInv
      <4>3. CASE x \notin InFlight(p)
        BY <4>1, <4>3, <2>0, <3>1, <3>2, <3>4 DEF BudgetInv
      <4>4. QED
        BY <4>2, <4>3
    <3>6. QED
      BY <3>5 DEF BudgetInv
  <2>7. QED
    BY <1>0, <2>3, <2>4, <2>5, <2>6
<1>10. ASSUME NEW e \in Events, StrayEnds(e)
       PROVE  IInv'
  <2> USE <1>10 DEF StrayEnds, pollVars
  <2>1. published' \in [Events -> Nat] /\ strays' \in [Events -> Nat]
    BY <1>0
  <2>2. \A x \in Events \ {e} : published'[x] = published[x] /\ strays'[x] = strays[x]
    BY PlusAdds
  <2>3. strays'[e] = strays[e] - 1 /\ published'[e] \in {published[e], published[e] + 1}
    BY PlusAdds
  <2>4. StepInv' /\ ChunkInv' /\ LocksExclusive'
    BY DEF StepInv, ChunkInv, LocksExclusive
  <2>5. \A x \in Events : published'[x] >= published[x] /\ Copies(x)' <= Copies(x)
    <3>1. published'[e] >= published[e] /\ Copies(e)' <= Copies(e)
      BY <2>3 DEF Copies
    <3>2. QED
      BY <3>1, <2>2 DEF Copies
  <2>6. EmittedWasPublished'
    BY <2>1, <2>5 DEF EmittedWasPublished
  <2>7. SourceInv'
    <3>1. outbox[e] # "absent"
      BY DEF SourceInv
    <3>2. \A q \in Pollers : \A x \in accepted[q] : published'[x] >= 1
      BY <2>1, <2>5 DEF SourceInv
    <3>3. QED
      BY <2>2, <3>1, <3>2 DEF SourceInv
  <2>8. BudgetInv'
    <3>1. \A q \in Pollers : InFlight(q)' = InFlight(q)
      BY DEF InFlight
    <3>2. \A x \in Events : Copies(x) \in Nat /\ Copies(x)' \in Nat
      BY <2>1 DEF Copies
    <3>3. QED
      BY <2>5, <3>1, <3>2 DEF BudgetInv
  <2>9. QED
    BY <1>0, <2>4, <2>6, <2>7, <2>8
<1>11. CASE UNCHANGED vars
  BY <1>0, <1>11
  DEF vars, pollVars, StepInv, ChunkInv, LocksExclusive, SourceInv, EmittedWasPublished,
      BudgetInv, Copies, InFlight
<1>12. QED
  BY <1>1, <1>2, <1>3, <1>4, <1>5, <1>6, <1>7, <1>8, <1>9, <1>10, <1>11
  DEF Next, Progress, Fault

\* The inductive invariant holds in every reachable state.
THEOREM Invariance == Spec => []IInv
<1>1. Init => IInv
  BY BoundsAssumption
  DEF Init, IInv, TypeOK, Steps, StepInv, ChunkInv, LocksExclusive, SourceInv,
      EmittedWasPublished, BudgetInv, Copies, InFlight
<1>2. QED
  BY <1>1, InvariantStep, PTL DEF Spec

\* No row is in the hands of two invocations, and none that is already marked.
THEOREM RowLocking == Spec => []LocksExclusive
<1>1. IInv => LocksExclusive
  BY DEF IInv
<1>2. QED
  BY <1>1, Invariance, PTL

\* A row marked as emitted has a copy on the topic: no event is lost.
THEOREM NoLoss == Spec => []EmittedWasPublished
<1>1. IInv => EmittedWasPublished
  BY DEF IInv
<1>2. QED
  BY <1>1, Invariance, PTL

\* Every duplicate on the topic is accounted for by an aborted poll.
THEOREM DuplicateBound == Spec => []DuplicatesNeedAborts
<1>1. IInv => DuplicatesNeedAborts
  BY DEF IInv, BudgetInv, Copies, DuplicatesNeedAborts
<1>2. QED
  BY <1>1, Invariance, PTL

--------------------------------------------------------------------------------
\* What a step may do to a marked row

\* A marked row stays marked, and gets another copy only from a stray call.
THEOREM Settled == Spec => EmittedIsSettled
<1>1. ASSUME IInv, [Next]_vars, NEW x \in Events, outbox[x] = "emitted"
      PROVE  outbox'[x] = "emitted" /\ (published'[x] > published[x] => strays'[x] < strays[x])
  <2> USE <1>1 DEF IInv, TypeOK
  <2>1. ASSUME NEW e \in Events, Insert(e) \/ StrayEnds(e)
        PROVE  outbox'[x] = "emitted" /\ (published'[x] > published[x] => strays'[x] < strays[x])
    <3>1. CASE Insert(e)
      BY <3>1 DEF Insert
    <3>2. CASE StrayEnds(e)
      <4>1. x # e => published'[x] = published[x]
        BY <3>2, PlusAdds DEF StrayEnds
      <4>2. x = e => strays'[x] < strays[x]
        BY <3>2 DEF StrayEnds
      <4>3. QED
        BY <3>2, <4>1, <4>2 DEF StrayEnds
    <3>3. QED
      BY <2>1, <3>1, <3>2
  <2>2. ASSUME NEW p \in Pollers, NEW c \in unsent[p], PublishChunk(p, c) \/ PublishError(p, c)
        PROVE  outbox'[x] = "emitted" /\ published'[x] = published[x]
    <3>1. x \notin c
      BY DEF ChunkInv, LocksExclusive
    <3>2. PICK S \in SUBSET c : published' = Plus(published, S)
      BY <2>2 DEF PublishChunk, PublishError
    <3>3. QED
      BY <2>2, <3>1, <3>2, PlusAdds DEF PublishChunk, PublishError
  <2>3. ASSUME NEW p \in Pollers,
               Select(p) \/ Dispatch(p) \/ Mark(p) \/ GiveUp(p) \/ Commit(p) \/ Abort(p)
        PROVE  outbox'[x] = "emitted" /\ published'[x] = published[x]
    BY <2>3 DEF Select, Dispatch, Mark, GiveUp, Commit, Abort
  <2>4. CASE UNCHANGED vars
    BY <2>4 DEF vars
  <2>5. QED
    BY <2>1, <2>2, <2>3, <2>4 DEF Next, Progress, Fault
<1>2. IInv /\ [Next]_vars =>
        [\A e \in Events : outbox[e] = "emitted" =>
           /\ outbox'[e] = "emitted"
           /\ published'[e] > published[e] => strays'[e] < strays[e]]_vars
  BY <1>1
<1>3. QED
  BY <1>2, Invariance, PTL DEF Spec, EmittedIsSettled

--------------------------------------------------------------------------------
\* Refinement

\* A step of the relay is a step, or a stutter, of the abstract outbox.
LEMMA RefinementStep == IInv /\ [Next]_vars => [Outbox!Next]_Outbox!vars
<1> SUFFICES ASSUME IInv, [Next]_vars
             PROVE  Outbox!Next \/ UNCHANGED <<outbox, published>>
  BY DEF Outbox!vars
<1> USE DEF IInv, TypeOK
<1>1. ASSUME NEW e \in Events, Insert(e)
      PROVE  Outbox!Next
  BY <1>1 DEF Insert, Outbox!Next, Outbox!Record
<1>2. ASSUME NEW p \in Pollers, NEW c \in unsent[p], PublishChunk(p, c) \/ PublishError(p, c)
      PROVE  Outbox!Next
  <2>1. PICK S \in SUBSET c : published' = Plus(published, S)
    BY <1>2 DEF PublishChunk, PublishError
  <2>2. S \subseteq Events /\ \A e \in S : outbox[e] = "new"
    BY DEF ChunkInv, LocksExclusive
  <2>3. Outbox!Deliver(S)
    BY <1>2, <2>1, <2>2 DEF Outbox!Deliver, Plus, PublishChunk, PublishError
  <2>4. QED
    BY <2>2, <2>3 DEF Outbox!Next
<1>3. ASSUME NEW p \in Pollers, Commit(p)
      PROVE  Outbox!Next
  <2>1. \A e \in accepted[p] : outbox[e] = "new" /\ published[e] >= 1
    BY DEF ChunkInv, LocksExclusive, SourceInv
  <2>2. Outbox!Settle(accepted[p])
    BY <1>3, <2>1 DEF Commit, Outbox!Settle
  <2>3. accepted[p] \in SUBSET Events
    OBVIOUS
  <2>4. QED
    BY <2>2, <2>3 DEF Outbox!Next
<1>4. ASSUME NEW e \in Events, StrayEnds(e)
      PROVE  Outbox!Next \/ UNCHANGED <<outbox, published>>
  <2>1. outbox[e] # "absent"
    BY <1>4 DEF StrayEnds, SourceInv
  <2>2. Outbox!Deliver({e}) \/ UNCHANGED <<outbox, published>>
    BY <1>4, <2>1 DEF StrayEnds, Outbox!Deliver, Plus
  <2>3. {e} \in SUBSET Events
    OBVIOUS
  <2>4. QED
    BY <2>2, <2>3 DEF Outbox!Next
<1>5. ASSUME NEW p \in Pollers, Select(p) \/ Dispatch(p) \/ Mark(p) \/ GiveUp(p) \/ Abort(p)
      PROVE  UNCHANGED <<outbox, published>>
  BY <1>5 DEF Select, Dispatch, Mark, GiveUp, Abort
<1>6. CASE UNCHANGED vars
  BY <1>6 DEF vars
<1>7. QED
  BY <1>1, <1>2, <1>3, <1>4, <1>5, <1>6 DEF Next, Progress, Fault

\* The polling relay implements the abstract outbox.
THEOREM Refinement == Spec => ImplementsAtLeastOnce
<1>1. Init => Outbox!Init
  BY DEF Init, Outbox!Init
<1>2. QED
  BY <1>1, RefinementStep, Invariance, PTL DEF Spec, ImplementsAtLeastOnce, Outbox!Spec
================================================================================
