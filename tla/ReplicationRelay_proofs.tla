------------------------ MODULE ReplicationRelay_proofs ------------------------
(***************************************************************************)
(* Proofs about ReplicationRelay, for any events, any finite number of     *)
(* instances and any bounds.                                               *)
(***************************************************************************)
EXTENDS ReplicationRelay, FiniteSetTheorems, TLAPS

--------------------------------------------------------------------------------
\* The inductive invariant

\* What an instance holds while it executes, and what is behind it.
BusyInv ==
  \A i \in Instances :
    /\ pc[i] \notin {"found", "sent"} => rows[i] = {}
    /\ pc[i] # "sent" => accepted[i] = {}
    /\ accepted[i] \subseteq rows[i]
    /\ \A e \in rows[i] : outbox[e] # "absent"
    /\ \A e \in accepted[i] : published[e] >= 1

SourceInv == \A e \in Events : outbox[e] = "absent" => published[e] = 0

\* Positions are positions in the log, and the holder is never behind the slot.
PositionInv ==
  /\ confirmed <= Len(wal)
  /\ \A i \in Instances : slot = i =>
       /\ pc[i] # "down"
       /\ confirmed <= received[i]
       /\ received[i] <= Len(wal)
       /\ pc[i] \in Busy => received[i] < Len(wal)

\* The row of the commit being executed is among the rows found, or missed.
FoundInv ==
  \A i \in Instances : slot = i /\ pc[i] \in {"found", "sent"} =>
    \A e \in New : born[e] = received[i] + 1 => e \in rows[i] \cup missed

\* Instances without the slot that can still send e.
Strays(e) ==
  {i \in Instances : slot # i /\ (pc[i] = "executing" \/ (pc[i] = "found" /\ e \in rows[i]))}

\* Instances that are about to send e.
Senders(e) == {i \in Instances : pc[i] = "found" /\ e \in rows[i]}

\* The holder of the slot has sent e and has not marked it.
Unmarked(e) == \E i \in Instances : slot = i /\ pc[i] = "sent" /\ e \in accepted[i]

\* Each copy on the topic and each that a stray may add has its fault, but for
\* the one that the holder is about to mark, or that was marked.
Budget(e) ==
  /\ outbox[e] = "emitted" => published[e] + Cardinality(Senders(e)) <= faults + 1
  /\ outbox[e] # "emitted" =>
       /\ published[e] + Cardinality(Strays(e)) <= faults + 1
       /\ ~Unmarked(e) => published[e] + Cardinality(Strays(e)) <= faults

BudgetInv == \A e \in Events : Budget(e)

IInv ==
  /\ TypeOK
  /\ BusyInv
  /\ SourceInv
  /\ PositionInv
  /\ FoundInv
  /\ SkippedHasCause
  /\ EmittedWasPublished
  /\ BudgetInv

--------------------------------------------------------------------------------
\* Lemmas

\* Plus adds one exactly at the events of S.
LEMMA PlusAdds ==
  ASSUME NEW count \in [Events -> Nat], NEW S
  PROVE  /\ Plus(count, S) \in [Events -> Nat]
         /\ \A e \in Events :
              Plus(count, S)[e] = IF e \in S THEN count[e] + 1 ELSE count[e]
  BY DEF Plus

\* A call to SNS adds a copy of what it accepts.
LEMMA PublishedGrows ==
  ASSUME TypeOK, NEW S, published' = Plus(published, S)
  PROVE  \A e \in Events :
           /\ published[e] \in Nat
           /\ published'[e] = IF e \in S THEN published[e] + 1 ELSE published[e]
           /\ published[e] >= 1 \/ e \in S => published'[e] >= 1
  BY PlusAdds DEF TypeOK

\* Fewer of the instances count for less.
LEMMA Fewer ==
  ASSUME NEW S \in SUBSET Instances, NEW T \in SUBSET Instances
  PROVE  /\ Cardinality(S) \in Nat
         /\ T \subseteq S => Cardinality(T) <= Cardinality(S)
  BY InstancesAssumption, FS_Subset, FS_CardinalityType

\* How many of a set of instances there are when it changes by one of them.
LEMMA Counting ==
  ASSUME NEW S \in SUBSET Instances, NEW T \in SUBSET Instances, NEW x \in Instances
  PROVE  /\ Cardinality(S) \in Nat
         /\ T \subseteq S => Cardinality(T) <= Cardinality(S)
         /\ T \subseteq S \cup {x} => Cardinality(T) <= Cardinality(S) + 1
         /\ T \subseteq S \ {x} /\ x \in S => Cardinality(T) + 1 <= Cardinality(S)
<1>1. IsFiniteSet(S) /\ IsFiniteSet(T)
  BY InstancesAssumption, FS_Subset
<1>2. Cardinality(S) \in Nat /\ Cardinality(T) \in Nat
  BY <1>1, FS_CardinalityType
<1>3. T \subseteq S => Cardinality(T) <= Cardinality(S)
  BY Fewer
<1>4. ASSUME T \subseteq S \cup {x}
      PROVE  Cardinality(T) <= Cardinality(S) + 1
  <2>1. IsFiniteSet(S \cup {x}) /\ Cardinality(S \cup {x}) \in {Cardinality(S), Cardinality(S) + 1}
    BY <1>1, FS_AddElement
  <2>2. Cardinality(T) <= Cardinality(S \cup {x})
    BY <1>4, <2>1, FS_Subset
  <2>3. QED
    BY <1>2, <2>1, <2>2
<1>5. ASSUME T \subseteq S \ {x}, x \in S
      PROVE  Cardinality(T) + 1 <= Cardinality(S)
  <2>1. IsFiniteSet(S \ {x}) /\ Cardinality(S \ {x}) = Cardinality(S) - 1
    BY <1>1, <1>5, FS_RemoveElement
  <2>2. Cardinality(T) <= Cardinality(S \ {x})
    BY <1>5, <2>1, FS_Subset
  <2>3. QED
    BY <1>2, <2>1, <2>2
<1>6. QED
  BY <1>2, <1>3, <1>4, <1>5

\* The log only grows, and by one commit at a time.
LEMMA LogGrows ==
  ASSUME TypeOK, NEW k \in {"whole", "streamed"}
  PROVE  /\ Append(wal, k) \in Seq({"whole", "streamed"})
         /\ Len(Append(wal, k)) = Len(wal) + 1
         /\ Len(wal) \in Nat
  BY DEF TypeOK

\* A SELECT that finds some rows and passes others by.
FindStep(i, found, passed) ==
  /\ pc[i] = "executing"
  /\ \A e \in New : born[e] <= received[i] + 1 => e \in found \cup passed
  /\ UNCHANGED faults \/ Fault
  /\ \/ /\ pc' = [pc EXCEPT ![i] = "found"]
        /\ rows' = [rows EXCEPT ![i] = found]
        /\ missed' = missed \cup passed
        /\ UNCHANGED <<received, accepted>>
     \/ found = {} /\ EndExecute(i, passed)
  /\ UNCHANGED <<outbox, wal, born, slot, confirmed, published, refusals>>

\* FindAllNewEvents returns every row whose commit is not ahead, or passes it by,
\* whatever the snapshot leaves out and wherever the reading stops.
LEMMA FindSplits ==
  ASSUME TypeOK, NEW i \in Instances, Find(i)
  PROVE  \E found \in SUBSET New, passed \in SUBSET New : FindStep(i, found, passed)
<1>1. PICK late \in SUBSET New :
        /\ UNCHANGED faults \/ Fault
        /\ \/ /\ pc' = [pc EXCEPT ![i] = "found"]
              /\ rows' = [rows EXCEPT ![i] = New \ late]
              /\ missed' = missed \cup {e \in late : born[e] <= received[i] + 1}
              /\ UNCHANGED <<received, accepted>>
           \/ New \ late = {} /\ EndExecute(i, {e \in late : born[e] <= received[i] + 1})
  BY Zenon DEF Find
<1> DEFINE found == New \ late
           passed == {e \in late : born[e] <= received[i] + 1}
<1>2. found \in SUBSET New /\ passed \in SUBSET New
  OBVIOUS
<1>3. \A e \in New : born[e] <= received[i] + 1 => e \in found \cup passed
  OBVIOUS
<1>4. FindStep(i, found, passed)
  <2> HIDE DEF found, passed
  <2>1. \/ /\ pc' = [pc EXCEPT ![i] = "found"]
           /\ rows' = [rows EXCEPT ![i] = found]
           /\ missed' = missed \cup passed
           /\ UNCHANGED <<received, accepted>>
        \/ found = {} /\ EndExecute(i, passed)
    BY <1>1 DEF found, passed
  <2>2. QED
    BY <1>1, <1>3, <2>1 DEF FindStep, Find
<1>5. QED
  BY <1>2, <1>4

--------------------------------------------------------------------------------
\* Type correctness

\* No step takes a variable out of its type.
LEMMA TypeStep == TypeOK /\ [Next]_vars => TypeOK'
<1> SUFFICES ASSUME TypeOK, [Next]_vars
             PROVE  TypeOK'
  OBVIOUS
<1> USE BoundsAssumption DEF TypeOK, Busy
<1>1. ASSUME NEW e \in Events, Insert(e)
      PROVE  TypeOK'
  BY <1>1, LogGrows DEF Insert, dispatch
<1>2. CASE CreateSlot
  BY <1>2 DEF CreateSlot, dispatch, New
<1>3. ASSUME NEW i \in Instances, Start(i)
      PROVE  TypeOK'
  BY <1>3 DEF Start
<1>4. ASSUME NEW i \in Instances, ReceiveCommit(i)
      PROVE  TypeOK'
  BY <1>4 DEF ReceiveCommit, New
<1>5. ASSUME NEW i \in Instances, Find(i)
      PROVE  TypeOK'
  <2>1. PICK found \in SUBSET New, passed \in SUBSET New : FindStep(i, found, passed)
    BY <1>5, FindSplits
  <2>2. found \in SUBSET Events /\ passed \in SUBSET Events
    BY DEF New
  <2>3. CASE EndExecute(i, passed)
    BY <2>1, <2>2, <2>3 DEF FindStep, EndExecute, Fault
  <2>4. CASE rows' = [rows EXCEPT ![i] = found] /\ pc' = [pc EXCEPT ![i] = "found"]
             /\ missed' = missed \cup passed /\ UNCHANGED <<received, accepted>>
    BY <2>1, <2>2, <2>4 DEF FindStep, Fault
  <2>5. QED
    BY <2>1, <2>3, <2>4 DEF FindStep
<1>6. ASSUME NEW i \in Instances, Send(i)
      PROVE  TypeOK'
  <2>1. PICK S \in SUBSET rows[i] :
          /\ accepted' = [accepted EXCEPT ![i] = S]
          /\ published' = Plus(published, S)
          /\ \/ S = rows[i] /\ UNCHANGED refusals
             \/ S # rows[i] /\ refusals < MaxRefusals /\ refusals' = refusals + 1
    BY <1>6 DEF Send
  <2>2. published' \in [Events -> Nat]
    BY <2>1, PlusAdds
  <2>3. QED
    BY <1>6, <2>1, <2>2 DEF Send
<1>7. ASSUME NEW i \in Instances, Mark(i)
      PROVE  TypeOK'
  BY <1>7, LogGrows DEF Mark, EndExecute
<1>8. ASSUME NEW i \in Instances, ExecuteFails(i)
      PROVE  TypeOK'
  <2>1. published' \in [Events -> Nat]
    <3>1. PICK S : published' = Plus(published, S)
      BY <1>8 DEF ExecuteFails
    <3>2. Plus(published, S) \in [Events -> Nat]
      BY PlusAdds
    <3>3. QED
      BY ONLY <3>1, <3>2
  <2>2. {e \in New : born[e] <= received[i] + 1} \cup rows[i] \in SUBSET Events
    BY DEF New
  <2>3. QED
    BY <1>8, <2>1, <2>2 DEF ExecuteFails, EndExecute, Fault
<1>9. ASSUME NEW i \in Instances, Status(i)
      PROVE  TypeOK'
  BY <1>9 DEF Status, dispatch
<1>10. ASSUME NEW i \in Instances, Disconnect(i)
       PROVE  TypeOK'
  BY <1>10 DEF Disconnect, dispatch, Fault
<1>11. ASSUME NEW i \in Instances, Crash(i)
       PROVE  TypeOK'
  <2>1. PICK S \in SUBSET rows[i] : published' = Plus(published, S)
    BY <1>11 DEF Crash
  <2>2. published' \in [Events -> Nat]
    BY <2>1, PlusAdds
  <2>3. QED
    BY <1>11, <2>2 DEF Crash, Fault
<1>12. CASE UNCHANGED vars
  BY <1>12 DEF vars, dispatch
<1>13. QED
  BY <1>1, <1>2, <1>3, <1>4, <1>5, <1>6, <1>7, <1>8, <1>9, <1>10, <1>11, <1>12
  DEF Next, Progress

\* Every variable of the relay keeps its type.
THEOREM TypeCorrect == Spec => []TypeOK
<1>1. Init => TypeOK
  BY BoundsAssumption DEF Init, TypeOK, Busy
<1>2. QED
  BY <1>1, TypeStep, PTL DEF Spec

--------------------------------------------------------------------------------
\* Safety

\* What EndExecute does to the instance, and that it leaves the others alone.
LEMMA EndLocals ==
  ASSUME TypeOK, NEW i \in Instances, NEW S, EndExecute(i, S)
  PROVE  /\ pc'[i] = "streaming" /\ rows'[i] = {} /\ accepted'[i] = {}
         /\ received'[i] = received[i] + 1
         /\ missed' = missed \cup S
         /\ \A j \in Instances : j # i =>
              /\ pc'[j] = pc[j] /\ rows'[j] = rows[j] /\ accepted'[j] = accepted[j]
              /\ received'[j] = received[j]
  BY DEF EndExecute, TypeOK

\* The shape of the counted sets, for Counting.
LEMMA CountedSets ==
  ASSUME NEW e
  PROVE  /\ Strays(e) \in SUBSET Instances /\ Senders(e) \in SUBSET Instances
         /\ Strays(e)' \in SUBSET Instances /\ Senders(e)' \in SUBSET Instances
  BY DEF Strays, Senders

\* BusyInv, SourceInv and EmittedWasPublished: who holds what.
LEMMA HoldingStep ==
  ASSUME TypeOK, TypeOK', BusyInv, SourceInv, EmittedWasPublished, [Next]_vars
  PROVE  BusyInv' /\ SourceInv' /\ EmittedWasPublished'
<1> USE DEF TypeOK, Busy
<1>1. ASSUME NEW e \in Events, Insert(e)
      PROVE  BusyInv' /\ SourceInv' /\ EmittedWasPublished'
  BY <1>1 DEF Insert, dispatch, BusyInv, SourceInv, EmittedWasPublished
<1>2. ASSUME NEW i \in Instances,
             Start(i) \/ Status(i) \/ Disconnect(i) \/ ReceiveCommit(i)
      PROVE  BusyInv' /\ SourceInv' /\ EmittedWasPublished'
  <2>1. UNCHANGED <<outbox, published, rows, accepted>>
    BY <1>2 DEF Start, Status, Disconnect, ReceiveCommit, dispatch
  <2>2. \A j \in Instances : pc'[j] = pc[j] \/ pc[j] \in {"down", "streaming"}
    BY <1>2 DEF Start, Status, Disconnect, ReceiveCommit, dispatch
  <2>3. QED
    BY <2>1, <2>2 DEF BusyInv, SourceInv, EmittedWasPublished
<1>3. ASSUME NEW i \in Instances, Find(i)
      PROVE  BusyInv' /\ SourceInv' /\ EmittedWasPublished'
  <2>1. PICK found \in SUBSET New, passed \in SUBSET New : FindStep(i, found, passed)
    BY <1>3, FindSplits
  <2>2. UNCHANGED <<outbox, published>> /\ \A e \in found : outbox[e] # "absent"
    BY <2>1 DEF FindStep, New
  <2>3. CASE EndExecute(i, passed)
    <3>1. \A j \in Instances :
            j # i => pc'[j] = pc[j] /\ rows'[j] = rows[j] /\ accepted'[j] = accepted[j]
      BY <2>3, EndLocals
    <3>2. pc'[i] = "streaming" /\ rows'[i] = {} /\ accepted'[i] = {}
      BY <2>3, EndLocals
    <3>3. BusyInv'
      BY ONLY <2>2, <3>1, <3>2, BusyInv DEF BusyInv
    <3>4. QED
      BY <2>2, <3>3 DEF SourceInv, EmittedWasPublished
  <2>4. CASE pc' = [pc EXCEPT ![i] = "found"] /\ rows' = [rows EXCEPT ![i] = found]
             /\ UNCHANGED <<received, accepted>>
    BY <2>1, <2>2, <2>4 DEF FindStep, BusyInv, SourceInv, EmittedWasPublished
  <2>5. QED
    BY <2>1, <2>3, <2>4 DEF FindStep
<1>4. ASSUME NEW i \in Instances, Send(i)
      PROVE  BusyInv' /\ SourceInv' /\ EmittedWasPublished'
  <2>1. PICK S \in SUBSET rows[i] : /\ accepted' = [accepted EXCEPT ![i] = S]
                                    /\ published' = Plus(published, S)
    BY <1>4 DEF Send
  <2>2. \A e \in Events :
          /\ published[e] \in Nat
          /\ published'[e] = IF e \in S THEN published[e] + 1 ELSE published[e]
          /\ published[e] >= 1 \/ e \in S => published'[e] >= 1
    BY <2>1, PublishedGrows
  <2>3. \A e \in S : e \in Events /\ outbox[e] # "absent"
    BY DEF BusyInv
  <2>4. BusyInv'
    <3>1. ASSUME NEW j \in Instances
          PROVE  \A e \in accepted'[j] : published'[e] >= 1
      <4>0. \A e \in accepted[j] : e \in Events /\ published[e] >= 1
        BY DEF BusyInv
      <4>1. \A e \in accepted[j] : published'[e] >= 1
        BY <2>2, <4>0
      <4>2. \A e \in S : published'[e] >= 1
        BY <2>2, <2>3
      <4>3. QED
        BY <2>1, <4>1, <4>2
    <3>2. QED
      BY <1>4, <2>1, <3>1 DEF Send, BusyInv
  <2>5. SourceInv' /\ EmittedWasPublished'
    BY <1>4, <2>2, <2>3 DEF Send, SourceInv, EmittedWasPublished
  <2>6. QED
    BY <2>4, <2>5
<1>5. ASSUME NEW i \in Instances, Mark(i)
      PROVE  BusyInv' /\ SourceInv' /\ EmittedWasPublished'
  <2>1. EndExecute(i, rows[i] \ accepted[i])
    BY <1>5 DEF Mark
  <2>2. BusyInv'
    <3>1. UNCHANGED published /\ \A e \in Events : outbox[e] # "absent" => outbox'[e] # "absent"
      BY <1>5 DEF Mark
    <3>2. \A j \in Instances : \A e \in rows[j] : outbox'[e] # "absent"
      BY <3>1 DEF BusyInv
    <3>3. \A j \in Instances :
            j # i => pc'[j] = pc[j] /\ rows'[j] = rows[j] /\ accepted'[j] = accepted[j]
      BY <2>1, EndLocals
    <3>4. pc'[i] = "streaming" /\ rows'[i] = {} /\ accepted'[i] = {}
      BY <2>1, EndLocals
    <3>5. QED
      BY ONLY <3>1, <3>2, <3>3, <3>4, BusyInv DEF BusyInv
  <2>3. SourceInv' /\ EmittedWasPublished'
    BY <1>5 DEF Mark, BusyInv, SourceInv, EmittedWasPublished
  <2>4. QED
    BY <2>2, <2>3
<1>6. ASSUME NEW i \in Instances, ExecuteFails(i) \/ Crash(i)
      PROVE  BusyInv' /\ SourceInv' /\ EmittedWasPublished'
  <2>1. PICK S \in SUBSET rows[i] : published' = Plus(published, S)
    BY <1>6 DEF ExecuteFails, Crash
  <2>2. \A e \in Events :
          /\ published[e] \in Nat
          /\ published'[e] = IF e \in S THEN published[e] + 1 ELSE published[e]
          /\ published[e] >= 1 \/ e \in S => published'[e] >= 1
    BY <2>1, PublishedGrows
  <2>3. \A e \in S : e \in Events /\ outbox[e] # "absent"
    BY DEF BusyInv
  <2>4. /\ UNCHANGED outbox
        /\ rows'[i] = {} /\ accepted'[i] = {}
        /\ \A j \in Instances : j # i =>
             pc'[j] = pc[j] /\ rows'[j] = rows[j] /\ accepted'[j] = accepted[j]
    BY <1>6, EndLocals DEF ExecuteFails, Crash
  <2>5. BusyInv'
    <3>0. \A j \in Instances : \A e \in accepted[j] : e \in Events /\ published[e] >= 1
      BY DEF BusyInv
    <3>1. \A j \in Instances : \A e \in accepted'[j] : published'[e] >= 1
      BY <2>2, <2>4, <3>0
    <3>2. QED
      BY <2>4, <3>1 DEF BusyInv
  <2>6. SourceInv'
    BY <2>2, <2>3, <2>4 DEF SourceInv
  <2>7. EmittedWasPublished'
    BY <2>2, <2>4 DEF EmittedWasPublished
  <2>8. QED
    BY <2>5, <2>6, <2>7
<1>7. CASE CreateSlot \/ UNCHANGED vars
  BY <1>7 DEF CreateSlot, vars, dispatch, BusyInv, SourceInv, EmittedWasPublished
<1>8. QED
  BY <1>1, <1>2, <1>3, <1>4, <1>5, <1>6, <1>7 DEF Next, Progress

\* The inductive invariant without its counting part.
PassInv == PositionInv /\ FoundInv /\ SkippedHasCause

\* An Execute that ends skips no row, if the one of its commit is settled.
LEMMA SkipsNone ==
  ASSUME TypeOK, SkippedHasCause, NEW i \in Instances,
         UNCHANGED <<slot, born, confirmed>>, New' \subseteq New, missed \subseteq missed',
         received'[i] = received[i] + 1,
         \A j \in Instances : j # i => received'[j] = received[j],
         \A e \in New' : slot = i /\ born[e] = received[i] + 1 => e \in missed'
  PROVE  SkippedHasCause'
<1>1. SUFFICES ASSUME NEW e \in New', e \notin missed', slot # "absent"
               PROVE  born[e] > confirmed /\ (slot \in Instances => born[e] > received'[slot])
  BY DEF SkippedHasCause
<1>2. e \in New /\ e \in Events /\ born[e] \in Nat
  BY DEF New, TypeOK
<1>3. born[e] > confirmed /\ (slot \in Instances => born[e] > received[slot])
  BY <1>1, <1>2 DEF SkippedHasCause
<1>4. CASE slot = i
  <2>1. born[e] > received[i] /\ born[e] # received[i] + 1 /\ received[i] \in Nat
    BY <1>1, <1>3, <1>4 DEF TypeOK
  <2>2. born[e] > received[i] + 1
    BY <1>2, <2>1
  <2>3. QED
    BY <1>3, <1>4, <2>2
<1>5. CASE slot # i
  BY <1>3, <1>5
<1>6. QED
  BY <1>4, <1>5

\* No step passes a commit without leaving its row among the missed ones.
LEMMA PassStep ==
  ASSUME TypeOK, TypeOK', BusyInv, PassInv, [Next]_vars
  PROVE  PassInv'
<1> USE DEF TypeOK, Busy, PassInv
<1>0. Len(wal) \in Nat
  BY LogGrows
<1>1. ASSUME NEW e \in Events, Insert(e)
      PROVE  PassInv'
  <2>1. Len(wal') = Len(wal) + 1
    BY <1>1, LogGrows DEF Insert
  <2>2. PositionInv'
    BY <1>0, <1>1, <2>1 DEF Insert, dispatch, PositionInv
  <2>3. FoundInv' /\ SkippedHasCause'
    <3>1. born'[e] = Len(wal) + 1 /\ \A x \in Events : x # e => born'[x] = born[x]
      BY <1>1 DEF Insert
    <3>2. New' = New \cup {e}
      BY <1>1 DEF Insert, New
    <3>3. QED
      BY <1>0, <1>1, <3>1, <3>2 DEF Insert, dispatch, PositionInv, FoundInv, SkippedHasCause
  <2>4. QED
    BY <2>2, <2>3
<1>2. CASE CreateSlot
  <2>1. New' = New
    BY <1>2 DEF CreateSlot, New
  <2>2. QED
    BY <1>0, <1>2, <2>1, InstancesAssumption
    DEF CreateSlot, dispatch, PositionInv, FoundInv, SkippedHasCause
<1>3. ASSUME NEW i \in Instances, Start(i)
      PROVE  PassInv'
  <2>1. New' = New
    BY <1>3 DEF Start, New
  <2>2. PositionInv' /\ FoundInv'
    BY <1>0, <1>3 DEF Start, PositionInv, FoundInv
  <2>3. SkippedHasCause'
    BY <1>3, <2>1 DEF Start, SkippedHasCause
  <2>4. QED
    BY <2>2, <2>3
<1>4. ASSUME NEW i \in Instances, ReceiveCommit(i)
      PROVE  PassInv'
  <2>1. New' = New
    BY <1>4 DEF ReceiveCommit, New
  <2>2. PositionInv' /\ FoundInv'
    BY <1>0, <1>4 DEF ReceiveCommit, PositionInv, FoundInv
  <2>3. CASE UNCHANGED <<received, missed>>
    <3>1. SkippedHasCause'
      BY <1>4, <2>1, <2>3 DEF ReceiveCommit, SkippedHasCause
    <3>2. QED
      BY <2>2, <3>1
  <2>4. CASE /\ received' = [received EXCEPT ![i] = @ + 1]
             /\ missed' = missed \cup {e \in New : born[e] = received[i] + 1}
    <3>1. \A e \in New : born[e] > received[i] => born[e] > received[i] + 1 \/ e \in missed'
      BY <2>4 DEF New
    <3>2. SkippedHasCause'
      BY <1>4, <2>1, <2>4, <3>1 DEF ReceiveCommit, SkippedHasCause
    <3>3. QED
      BY <2>2, <3>2
  <2>5. QED
    BY <1>4, <2>3, <2>4 DEF ReceiveCommit
<1>5. ASSUME NEW i \in Instances, Find(i)
      PROVE  PassInv'
  <2>1. PICK found \in SUBSET New, passed \in SUBSET New : FindStep(i, found, passed)
    BY <1>5, FindSplits
  <2>2. New' = New
    BY <2>1 DEF FindStep, New
  <2>3. \A e \in New : e \in Events
    BY DEF New
  <2>4. CASE EndExecute(i, passed) /\ found = {}
    <3>0. /\ pc'[i] = "streaming" /\ received'[i] = received[i] + 1
          /\ missed' = missed \cup passed
          /\ \A j \in Instances : j # i =>
               pc'[j] = pc[j] /\ rows'[j] = rows[j] /\ received'[j] = received[j]
      BY <2>4, EndLocals
    <3>1. PositionInv' /\ FoundInv'
      BY <1>0, <2>1, <2>2, <3>0 DEF FindStep, PositionInv, FoundInv
    <3>2. \A e \in New : born[e] = received[i] + 1 => e \in missed'
      BY <2>1, <2>3, <2>4, <3>0 DEF FindStep
    <3>3. SkippedHasCause'
      BY <2>1, <2>2, <3>0, <3>2, SkipsNone DEF FindStep
    <3>4. QED
      BY <3>1, <3>3
  <2>5. CASE pc' = [pc EXCEPT ![i] = "found"] /\ rows' = [rows EXCEPT ![i] = found]
             /\ missed' = missed \cup passed /\ UNCHANGED <<received, accepted>>
    <3>0. \A e \in New : born[e] = received[i] + 1 => e \in found \cup passed
      BY <2>1, <2>3 DEF FindStep
    <3>1. PositionInv' /\ FoundInv'
      BY <1>0, <2>1, <2>2, <2>3, <2>5, <3>0 DEF FindStep, PositionInv, FoundInv
    <3>2. SkippedHasCause'
      BY <2>1, <2>2, <2>3, <2>5 DEF FindStep, SkippedHasCause
    <3>3. QED
      BY <3>1, <3>2
  <2>6. QED
    BY <2>1, <2>4, <2>5 DEF FindStep
<1>6. ASSUME NEW i \in Instances, Send(i)
      PROVE  PassInv'
  <2>1. New' = New
    BY <1>6 DEF Send, New
  <2>2. PositionInv' /\ FoundInv' /\ SkippedHasCause'
    BY <1>6, <2>1 DEF Send, PositionInv, FoundInv, SkippedHasCause
  <2>3. QED
    BY <2>2
<1>7. ASSUME NEW i \in Instances, Mark(i)
      PROVE  PassInv'
  <2>1. EndExecute(i, rows[i] \ accepted[i])
    BY <1>7 DEF Mark
  <2>2. New' = New \ accepted[i]
    BY <1>7 DEF Mark, New
  <2>3. Len(wal') \in {Len(wal), Len(wal) + 1}
    BY <1>7, LogGrows DEF Mark
  <2>0. /\ pc'[i] = "streaming" /\ received'[i] = received[i] + 1
        /\ \A j \in Instances : j # i =>
             pc'[j] = pc[j] /\ rows'[j] = rows[j] /\ received'[j] = received[j]
    BY <2>1, EndLocals
  <2>4. PositionInv' /\ FoundInv'
    <3>1. PositionInv'
      <4>1. UNCHANGED <<slot, confirmed>> /\ Len(wal) <= Len(wal')
        BY <1>0, <1>7, <2>3 DEF Mark
      <4>2. slot = i => received[i] + 1 <= Len(wal)
        BY <1>0, <1>7 DEF Mark, PositionInv
      <4>3. Len(wal') \in Nat
        BY <1>0, <2>3
      <4>4. QED
        BY <1>0, <2>0, <4>1, <4>2, <4>3 DEF PositionInv
    <3>2. FoundInv'
      <4>1. missed \subseteq missed' /\ UNCHANGED <<slot, born>>
        BY <1>7, <2>1, EndLocals DEF Mark
      <4>2. QED
        BY <2>0, <2>2, <4>1 DEF FoundInv
    <3>3. QED
      BY <3>1, <3>2
  <2>5. ASSUME slot = i, NEW e \in New', born[e] = received[i] + 1
        PROVE  e \in missed'
    BY <1>7, <2>1, <2>2, <2>5, EndLocals DEF Mark, FoundInv
  <2>6. \A e \in New' : e \in New /\ e \in Events
    BY <2>2 DEF New
  <2>7. SkippedHasCause'
    <3>1. UNCHANGED <<slot, born, confirmed>> /\ missed \subseteq missed'
      BY <1>7, <2>1, EndLocals DEF Mark
    <3>2. QED
      BY <2>0, <2>5, <2>6, <3>1, SkipsNone
  <2>8. QED
    BY <2>4, <2>7
<1>8. ASSUME NEW i \in Instances, ExecuteFails(i)
      PROVE  PassInv'
  <2>1. EndExecute(i, {e \in New : born[e] <= received[i] + 1} \cup rows[i])
    BY <1>8 DEF ExecuteFails
  <2>2. New' = New /\ \A e \in New : e \in Events
    BY <1>8 DEF ExecuteFails, New
  <2>3. PositionInv' /\ FoundInv'
    BY <1>0, <1>8, <2>1, <2>2, EndLocals DEF ExecuteFails, PositionInv, FoundInv
  <2>4. \A e \in New : born[e] <= received[i] + 1 => e \in missed'
    <3>1. missed' = missed \cup ({e \in New : born[e] <= received[i] + 1} \cup rows[i])
      BY <2>1 DEF EndExecute
    <3>2. QED
      BY ONLY <3>1
  <2>5. SkippedHasCause'
    <3>1. /\ missed \subseteq missed' /\ UNCHANGED <<slot, born, confirmed>>
          /\ received'[i] = received[i] + 1
          /\ \A j \in Instances : j # i => received'[j] = received[j]
      BY <1>8, <2>1, EndLocals DEF ExecuteFails
    <3>2. \A e \in New : born[e] = received[i] + 1 => e \in missed'
      BY <2>2, <2>4
    <3>3. QED
      BY <2>2, <3>1, <3>2, SkipsNone
  <2>6. QED
    BY <2>3, <2>5
<1>9. ASSUME NEW i \in Instances, Status(i)
      PROVE  PassInv'
  <2>1. New' = New
    BY <1>9 DEF Status, New
  <2>2. QED
    BY <1>9, <2>1 DEF Status, dispatch, PositionInv, FoundInv, SkippedHasCause
<1>10. ASSUME NEW i \in Instances, Disconnect(i) \/ Crash(i)
       PROVE  PassInv'
  <2>1. /\ New' = New
        /\ slot' = slot \/ (slot \in Instances /\ slot' = "free")
        /\ UNCHANGED <<wal, born, confirmed, received, missed>>
        /\ \A j \in Instances : slot' = j => pc'[j] = pc[j] /\ rows'[j] = rows[j]
    BY <1>10, InstancesAssumption DEF Disconnect, Crash, New, dispatch
  <2>2. "free" \notin Instances
    BY InstancesAssumption
  <2>3. PositionInv' /\ FoundInv'
    BY <2>1, <2>2 DEF PositionInv, FoundInv
  <2>4. SkippedHasCause'
    <3>1. slot' = "free" => slot' \notin Instances
      BY <2>2
    <3>2. QED
      BY <2>1, <3>1, InstancesAssumption DEF SkippedHasCause
  <2>5. QED
    BY <2>3, <2>4
<1>11. CASE UNCHANGED vars
  BY <1>11 DEF vars, dispatch, New, PositionInv, FoundInv, SkippedHasCause
<1>12. QED
  BY <1>1, <1>2, <1>3, <1>4, <1>5, <1>6, <1>7, <1>8, <1>9, <1>10, <1>11 DEF Next, Progress

\* A step that sends no copy of e, makes no new sender of it and does not let the
\* holder off keeps the budget of e.
LEMMA BudgetQuiet ==
  ASSUME TypeOK, TypeOK', NEW e \in Events, Budget(e),
         published'[e] = published[e], faults' \in {faults, faults + 1},
         outbox'[e] = "emitted" <=> outbox[e] = "emitted",
         outbox[e] = "emitted" => Senders(e)' \subseteq Senders(e),
         outbox[e] # "emitted" => Strays(e)' \subseteq Strays(e),
         Unmarked(e) => Unmarked(e)' \/ faults' = faults + 1
  PROVE  Budget(e)'
<1>1. published[e] \in Nat /\ faults \in Nat
  BY BoundsAssumption DEF TypeOK
<1>2. CASE outbox[e] = "emitted"
  <2>1. /\ Cardinality(Senders(e)) \in Nat /\ Cardinality(Senders(e)') \in Nat
        /\ Cardinality(Senders(e)') <= Cardinality(Senders(e))
    BY <1>2, CountedSets, Fewer
  <2>2. QED
    BY <1>1, <1>2, <2>1 DEF Budget
<1>3. CASE outbox[e] # "emitted"
  <2>1. /\ Cardinality(Strays(e)) \in Nat /\ Cardinality(Strays(e)') \in Nat
        /\ Cardinality(Strays(e)') <= Cardinality(Strays(e))
    BY <1>3, CountedSets, Fewer
  <2>2. QED
    BY <1>1, <1>3, <2>1 DEF Budget
<1>4. QED
  BY <1>2, <1>3

\* No step overdraws the budget of copies.
LEMMA BudgetStep ==
  ASSUME TypeOK, TypeOK', BusyInv, PositionInv, BudgetInv, [Next]_vars
  PROVE  BudgetInv'
<1> SUFFICES ASSUME NEW x \in Events
             PROVE  Budget(x)'
  BY DEF BudgetInv
<1>0. /\ Budget(x)
      /\ published[x] \in Nat /\ faults \in Nat
      /\ \A i \in Instances : i # "free" /\ i # "absent"
  BY BoundsAssumption, InstancesAssumption DEF BudgetInv, TypeOK
<1>1. ASSUME NEW e \in Events, Insert(e)
      PROVE  Budget(x)'
  <2>1. /\ UNCHANGED <<slot, pc, rows, accepted, published, faults>>
        /\ outbox'[x] = "emitted" <=> outbox[x] = "emitted"
    BY <1>1 DEF Insert, dispatch, TypeOK
  <2>2. Senders(x)' = Senders(x) /\ Strays(x)' = Strays(x) /\ Unmarked(x)' = Unmarked(x)
    BY <2>1 DEF Senders, Strays, Unmarked
  <2>3. QED
    BY <1>0, <2>1, <2>2, BudgetQuiet
<1>2. ASSUME CreateSlot \/ UNCHANGED vars \/ \E i \in Instances : Status(i)
      PROVE  Budget(x)'
  <2>1. /\ UNCHANGED <<pc, rows, accepted, published, faults, outbox>>
        /\ slot' = slot \/ (slot = "absent" /\ slot' = "free")
    BY <1>2 DEF CreateSlot, Status, dispatch, vars
  <2>2. Senders(x)' = Senders(x)
    BY <2>1 DEF Senders
  <2>3. Strays(x)' \subseteq Strays(x) /\ (Unmarked(x) => Unmarked(x)')
    BY <1>0, <2>1 DEF Strays, Unmarked
  <2>4. QED
    BY <1>0, <2>1, <2>2, <2>3, BudgetQuiet
<1>3. ASSUME NEW i \in Instances, Start(i) \/ ReceiveCommit(i)
      PROVE  Budget(x)'
  <2>1. /\ UNCHANGED <<rows, accepted, published, faults, outbox>>
        /\ pc'[i] \in {"streaming", "executing"} /\ pc[i] \in {"streaming", "down"}
        /\ \A j \in Instances : j # i => pc'[j] = pc[j]
        /\ slot' = i /\ slot \in {"free", i}
    BY <1>3 DEF Start, ReceiveCommit, TypeOK
  <2>2. Senders(x)' \subseteq Senders(x)
    BY <2>1 DEF Senders
  <2>3. Strays(x)' \subseteq Strays(x) /\ ~Unmarked(x)
    BY <1>0, <2>1 DEF Strays, Unmarked
  <2>4. QED
    BY <1>0, <2>1, <2>2, <2>3, BudgetQuiet
<1>4. ASSUME NEW i \in Instances, Find(i)
      PROVE  Budget(x)'
  <2>1. PICK found \in SUBSET New, passed \in SUBSET New : FindStep(i, found, passed)
    BY <1>4, FindSplits
  <2>2. /\ pc[i] = "executing" /\ pc'[i] \in {"found", "streaming"}
        /\ pc'[i] = "found" => rows'[i] = found
        /\ \A j \in Instances : j # i =>
             pc'[j] = pc[j] /\ rows'[j] = rows[j] /\ accepted'[j] = accepted[j]
        /\ UNCHANGED <<outbox, slot, published>> /\ faults' \in {faults, faults + 1}
    BY <2>1, EndLocals DEF FindStep, Fault, TypeOK
  <2>3. outbox[x] = "emitted" => x \notin found
    BY DEF New
  <2>4. outbox[x] = "emitted" => Senders(x)' \subseteq Senders(x)
    BY <2>2, <2>3 DEF Senders
  <2>5. Strays(x)' \subseteq Strays(x) /\ (Unmarked(x) => Unmarked(x)')
    BY <2>2 DEF Strays, Unmarked
  <2>6. QED
    BY <1>0, <2>2, <2>4, <2>5, BudgetQuiet
<1>5. ASSUME NEW i \in Instances, Send(i)
      PROVE  Budget(x)'
  <2>1. PICK S \in SUBSET rows[i] : /\ accepted' = [accepted EXCEPT ![i] = S]
                                    /\ published' = Plus(published, S)
    BY <1>5 DEF Send
  <2>2. /\ pc[i] = "found" /\ pc'[i] = "sent" /\ accepted'[i] = S
        /\ \A j \in Instances : j # i => pc'[j] = pc[j] /\ accepted'[j] = accepted[j]
        /\ UNCHANGED <<outbox, slot, faults, rows>>
    BY <1>5, <2>1 DEF Send, TypeOK
  <2>3. published'[x] = IF x \in S THEN published[x] + 1 ELSE published[x]
    BY <2>1, PublishedGrows
  <2>4. /\ Senders(x)' \subseteq Senders(x) \ {i}
        /\ Strays(x)' \subseteq Strays(x) \ {i}
        /\ Unmarked(x) => Unmarked(x)'
    BY <2>2 DEF Senders, Strays, Unmarked
  <2>5. CASE x \notin S
    BY <1>0, <2>2, <2>3, <2>4, <2>5, BudgetQuiet
  <2>6. CASE x \in S
    <3>1. i \in Senders(x) /\ (slot # i => i \in Strays(x))
          /\ (slot = i => ~Unmarked(x) /\ Unmarked(x)')
      BY <2>2, <2>6 DEF Senders, Strays, Unmarked
    <3>2. /\ Cardinality(Senders(x)) \in Nat /\ Cardinality(Senders(x)') \in Nat
          /\ Cardinality(Senders(x)') + 1 <= Cardinality(Senders(x))
      BY <2>4, <3>1, CountedSets, Counting
    <3>3. /\ Cardinality(Strays(x)) \in Nat /\ Cardinality(Strays(x)') \in Nat
          /\ Cardinality(Strays(x)') <= Cardinality(Strays(x))
          /\ slot # i => Cardinality(Strays(x)') + 1 <= Cardinality(Strays(x))
      BY <2>4, <3>1, CountedSets, Counting
    <3>4. CASE slot = i
      BY <1>0, <2>2, <2>3, <2>6, <3>1, <3>2, <3>3, <3>4 DEF Budget
    <3>5. CASE slot # i
      BY <1>0, <2>2, <2>3, <2>4, <2>6, <3>2, <3>3, <3>5 DEF Budget
    <3>6. QED
      BY <3>4, <3>5
  <2>7. QED
    BY <2>5, <2>6
<1>6. ASSUME NEW i \in Instances, Mark(i)
      PROVE  Budget(x)'
  <2>1. /\ pc[i] = "sent" /\ pc'[i] = "streaming" /\ rows'[i] = {} /\ accepted'[i] = {}
        /\ \A j \in Instances : j # i =>
             pc'[j] = pc[j] /\ rows'[j] = rows[j] /\ accepted'[j] = accepted[j]
        /\ outbox'[x] = IF x \in accepted[i] THEN "emitted" ELSE outbox[x]
        /\ UNCHANGED <<slot, faults, published>>
    BY <1>6, EndLocals DEF Mark
  <2>2. Senders(x)' \subseteq Senders(x) /\ Strays(x)' \subseteq Strays(x)
    BY <2>1 DEF Senders, Strays
  <2>3. CASE x \notin accepted[i] \/ outbox[x] = "emitted"
    <3>1. x \notin accepted[i] /\ Unmarked(x) => Unmarked(x)'
      BY <2>1 DEF Unmarked
    <3>2. CASE x \notin accepted[i]
      BY <1>0, <2>1, <2>2, <3>1, <3>2, BudgetQuiet
    <3>3. CASE outbox[x] = "emitted"
      <4>1. /\ Cardinality(Senders(x)) \in Nat /\ Cardinality(Senders(x)') \in Nat
            /\ Cardinality(Senders(x)') <= Cardinality(Senders(x))
        BY <2>2, CountedSets, Counting
      <4>2. QED
        BY <1>0, <2>1, <3>3, <4>1 DEF Budget
    <3>4. QED
      BY <2>3, <3>2, <3>3
  <2>4. CASE x \in accepted[i] /\ outbox[x] # "emitted"
    <3>1. Unmarked(x) \/ slot = i => Senders(x)' \subseteq Strays(x)
      BY <2>1 DEF Senders, Strays, Unmarked
    <3>2. slot = i => Unmarked(x)
      BY <2>1, <2>4 DEF Unmarked
    <3>3. /\ Cardinality(Strays(x)) \in Nat /\ Cardinality(Senders(x)') \in Nat
          /\ Unmarked(x) => Cardinality(Senders(x)') <= Cardinality(Strays(x))
      BY <3>1, CountedSets, Counting
    <3>4. Cardinality(Senders(x)') <= Cardinality(Strays(x)) + 1
      <4>1. CASE slot \in Instances
        <5>1. Senders(x)' \subseteq Strays(x) \cup {slot}
          BY <2>1 DEF Senders, Strays
        <5>2. QED
          BY <4>1, <5>1, CountedSets, Counting
      <4>2. CASE slot \notin Instances
        <5>1. Senders(x)' \subseteq Strays(x) \cup {i}
          BY <2>1, <4>2 DEF Senders, Strays
        <5>2. QED
          BY <5>1, CountedSets, Counting
      <4>3. QED
        BY <4>1, <4>2
    <3>5. QED
      BY <1>0, <2>1, <2>4, <3>3, <3>4 DEF Budget
  <2>5. QED
    BY <2>3, <2>4
<1>7. ASSUME NEW i \in Instances, ExecuteFails(i) \/ Crash(i)
      PROVE  Budget(x)'
  <2>1. PICK S \in SUBSET rows[i] : /\ published' = Plus(published, S)
                                    /\ pc[i] # "found" => S = {}
    BY <1>7 DEF ExecuteFails, Crash
  <2>2. /\ pc'[i] \in {"streaming", "down"} /\ rows'[i] = {} /\ accepted'[i] = {}
        /\ \A j \in Instances : j # i =>
             pc'[j] = pc[j] /\ rows'[j] = rows[j] /\ accepted'[j] = accepted[j]
        /\ UNCHANGED outbox /\ faults' = faults + 1
        /\ \A j \in Instances : j # i => (slot' = j <=> slot = j)
    BY <1>0, <1>7, EndLocals DEF ExecuteFails, Crash, Fault, TypeOK
  <2>3. published'[x] = IF x \in S THEN published[x] + 1 ELSE published[x]
    BY <2>1, PublishedGrows
  <2>4. /\ Senders(x)' \subseteq Senders(x) \ {i}
        /\ Strays(x)' \subseteq Strays(x) \ {i}
    BY <2>2 DEF Senders, Strays
  <2>5. CASE x \notin S
    BY <1>0, <2>2, <2>3, <2>4, <2>5, BudgetQuiet
  <2>6. CASE x \in S
    <3>1. /\ pc[i] = "found" /\ i \in Senders(x)
          /\ slot # i => i \in Strays(x)
          /\ slot = i => ~Unmarked(x)
      BY <2>1, <2>6 DEF Senders, Strays, Unmarked
    <3>2. /\ Cardinality(Senders(x)) \in Nat /\ Cardinality(Senders(x)') \in Nat
          /\ Cardinality(Senders(x)') + 1 <= Cardinality(Senders(x))
      BY <2>4, <3>1, CountedSets, Counting
    <3>3. /\ Cardinality(Strays(x)) \in Nat /\ Cardinality(Strays(x)') \in Nat
          /\ Cardinality(Strays(x)') <= Cardinality(Strays(x))
          /\ slot # i => Cardinality(Strays(x)') + 1 <= Cardinality(Strays(x))
      BY <2>4, <3>1, CountedSets, Counting
    <3>4. QED
      BY <1>0, <2>2, <2>3, <2>6, <3>1, <3>2, <3>3 DEF Budget
  <2>7. QED
    BY <2>5, <2>6
<1>8. ASSUME NEW i \in Instances, Disconnect(i)
      PROVE  Budget(x)'
  <2>1. /\ slot = i /\ slot' = "free" /\ faults' = faults + 1
        /\ UNCHANGED <<outbox, pc, rows, accepted, published>>
    BY <1>8 DEF Disconnect, Fault, dispatch
  <2>2. Senders(x)' \subseteq Senders(x) /\ Strays(x)' \subseteq Strays(x) \cup {i}
    BY <2>1 DEF Senders, Strays
  <2>3. /\ Cardinality(Senders(x)) \in Nat /\ Cardinality(Senders(x)') \in Nat
        /\ Cardinality(Senders(x)') <= Cardinality(Senders(x))
        /\ Cardinality(Strays(x)) \in Nat /\ Cardinality(Strays(x)') \in Nat
        /\ Cardinality(Strays(x)') <= Cardinality(Strays(x)) + 1
    BY <2>2, CountedSets, Counting
  <2>4. CASE pc[i] = "sent"
    <3>1. Strays(x)' \subseteq Strays(x)
      BY <2>1, <2>4 DEF Strays
    <3>2. Cardinality(Strays(x)') <= Cardinality(Strays(x))
      BY <3>1, CountedSets, Counting
    <3>3. QED
      BY <1>0, <2>1, <2>3, <3>2 DEF Budget
  <2>5. CASE pc[i] # "sent"
    <3>1. ~Unmarked(x)
      BY <2>1, <2>5 DEF Unmarked
    <3>2. QED
      BY <1>0, <2>1, <2>3, <3>1 DEF Budget
  <2>6. QED
    BY <2>4, <2>5
<1>9. QED
  BY <1>1, <1>2, <1>3, <1>4, <1>5, <1>6, <1>7, <1>8 DEF Next, Progress

\* Every step of the relay preserves the inductive invariant.
LEMMA InvariantStep == IInv /\ [Next]_vars => IInv'
<1> SUFFICES ASSUME IInv, [Next]_vars
             PROVE  IInv'
  OBVIOUS
<1>1. TypeOK'
  BY TypeStep DEF IInv
<1>2. BusyInv' /\ SourceInv' /\ EmittedWasPublished'
  BY <1>1, HoldingStep DEF IInv
<1>3. PassInv'
  BY <1>1, PassStep DEF IInv, PassInv
<1>4. BudgetInv'
  BY <1>1, BudgetStep DEF IInv
<1>5. QED
  BY <1>1, <1>2, <1>3, <1>4 DEF IInv, PassInv

\* The inductive invariant holds in every reachable state.
THEOREM Invariance == Spec => []IInv
<1>1. Init => IInv
  <2> SUFFICES ASSUME Init
               PROVE  IInv
    OBVIOUS
  <2>1. TypeOK
    BY BoundsAssumption DEF Init, TypeOK, Busy
  <2>2. BusyInv /\ SourceInv /\ EmittedWasPublished
    BY DEF Init, BusyInv, SourceInv, EmittedWasPublished
  <2>3. PositionInv /\ FoundInv /\ SkippedHasCause
    BY InstancesAssumption DEF Init, PositionInv, FoundInv, SkippedHasCause
  <2>4. \A e \in Events : Strays(e) = {}
    BY DEF Init, Strays
  <2>5. BudgetInv
    <3>1. Cardinality({}) = 0
      BY FS_EmptySet
    <3>2. \A e \in Events : published[e] = 0 /\ faults = 0 /\ outbox[e] = "absent"
      BY DEF Init
    <3>3. \A e \in Events : published[e] + Cardinality(Strays(e)) <= faults
      BY <2>4, <3>1, <3>2
    <3>4. QED
      BY <2>4, <3>1, <3>2, <3>3 DEF BudgetInv, Budget
  <2>6. QED
    BY <2>1, <2>2, <2>3, <2>5 DEF IInv
<1>2. QED
  BY <1>1, InvariantStep, PTL DEF Spec

\* A new row behind the position was missed by a dispatch, never by the slot.
THEOREM NothingSkipped == Spec => []SkippedHasCause
<1>1. IInv => SkippedHasCause
  BY DEF IInv
<1>2. QED
  BY <1>1, Invariance, PTL

\* A marked row has a copy on the topic.
THEOREM NoLoss == Spec => []EmittedWasPublished
<1>1. IInv => EmittedWasPublished
  BY DEF IInv
<1>2. QED
  BY <1>1, Invariance, PTL

\* Each copy beyond the first has a fault of its own.
THEOREM DuplicateBound == Spec => []DuplicatesNeedFaults
<1>1. ASSUME IInv
      PROVE  DuplicatesNeedFaults
  <2> SUFFICES ASSUME NEW e \in Events
               PROVE  published[e] <= faults + 1
    BY DEF DuplicatesNeedFaults
  <2>1. Budget(e) /\ published[e] \in Nat /\ faults \in Nat
    BY <1>1, BoundsAssumption DEF IInv, BudgetInv, TypeOK
  <2>2. Cardinality(Senders(e)) \in Nat /\ Cardinality(Strays(e)) \in Nat
    BY CountedSets, Fewer
  <2>3. QED
    BY <2>1, <2>2 DEF Budget
<1>2. QED
  BY <1>1, Invariance, PTL

--------------------------------------------------------------------------------
\* Positions

\* Neither the slot nor its holder ever goes back in the log, whichever instance
\* confirms what and whoever takes the slot over: no commit is dispatched again by
\* the one that has it (outbox.go:127-213).
PositionsAdvance ==
  [][/\ confirmed' >= confirmed
     /\ slot \in Instances /\ slot' = slot => received'[slot] >= received[slot]
     /\ slot' \in Instances /\ slot' # slot => received'[slot'] >= confirmed]_vars

\* Every step of the relay goes forward.
LEMMA PositionStep ==
  IInv /\ [Next]_vars =>
    /\ confirmed' >= confirmed
    /\ slot \in Instances /\ slot' = slot => received'[slot] >= received[slot]
    /\ slot' \in Instances /\ slot' # slot => received'[slot'] >= confirmed
<1> DEFINE Forward ==
      /\ confirmed' >= confirmed
      /\ slot \in Instances /\ slot' = slot => received'[slot] >= received[slot]
      /\ slot' \in Instances /\ slot' # slot => received'[slot'] >= confirmed
<1> SUFFICES ASSUME IInv, [Next]_vars
             PROVE  Forward
  OBVIOUS
<1>1. confirmed \in Nat /\ received \in [Instances -> Nat] /\ Len(wal) \in Nat
  BY DEF IInv, TypeOK
<1>2. confirmed <= Len(wal) /\ \A i \in Instances : slot = i => confirmed <= received[i]
  BY DEF IInv, PositionInv
<1>3. slot \in Instances \cup {"absent", "free"}
  BY DEF IInv, TypeOK
<1>4. "absent" \notin Instances /\ "free" \notin Instances
  BY InstancesAssumption
<1>5. ASSUME confirmed' = confirmed, slot' = slot, \A i \in Instances : received'[i] >= received[i]
      PROVE  Forward
  BY <1>1, <1>5
<1>6. ASSUME NEW i \in Instances, NEW S, EndExecute(i, S), confirmed' = confirmed, slot' = slot
      PROVE  Forward
  BY <1>1, <1>5, <1>6 DEF EndExecute
<1>7. CASE CreateSlot
  BY <1>1, <1>2, <1>4, <1>7 DEF CreateSlot
<1>8. ASSUME NEW e \in Events, Insert(e)
      PROVE  Forward
  BY <1>1, <1>5, <1>8 DEF Insert, dispatch
<1>9. ASSUME NEW i \in Instances, Start(i)
      PROVE  Forward
  BY <1>1, <1>4, <1>9 DEF Start
<1>10. ASSUME NEW i \in Instances, ReceiveCommit(i)
       PROVE  Forward
  BY <1>1, <1>5, <1>10 DEF ReceiveCommit
<1>11. ASSUME NEW i \in Instances, Find(i)
       PROVE  Forward
  BY <1>1, <1>5, <1>6, <1>11 DEF Find
<1>12. ASSUME NEW i \in Instances, Send(i) \/ Mark(i) \/ ExecuteFails(i)
       PROVE  Forward
  BY <1>1, <1>5, <1>6, <1>12 DEF Send, Mark, ExecuteFails
<1>13. ASSUME NEW i \in Instances, Status(i)
       PROVE  Forward
  BY <1>1, <1>2, <1>13 DEF Status, dispatch
<1>14. ASSUME NEW i \in Instances, Disconnect(i)
       PROVE  Forward
  BY <1>1, <1>4, <1>14 DEF Disconnect, dispatch
<1>15. ASSUME NEW i \in Instances, Crash(i)
       PROVE  Forward
  BY <1>1, <1>3, <1>4, <1>15 DEF Crash
<1>16. CASE UNCHANGED vars
  BY <1>1, <1>5, <1>16 DEF vars, dispatch
<1>17. QED
  BY <1>7, <1>8, <1>9, <1>10, <1>11, <1>12, <1>13, <1>14, <1>15, <1>16 DEF Next, Progress

\* The positions only advance.
THEOREM SlotAdvances == Spec => PositionsAdvance
<1>1. QED
  BY PositionStep, Invariance, PTL DEF Spec, PositionsAdvance

--------------------------------------------------------------------------------
\* Refinement

\* A step of the relay is a step, or a stutter, of the abstract outbox.
LEMMA RefinementStep == IInv /\ [Next]_vars => [Outbox!Next]_Outbox!vars
<1> SUFFICES ASSUME IInv, [Next]_vars
             PROVE  Outbox!Next \/ UNCHANGED <<outbox, published>>
  BY DEF Outbox!vars
<1> USE DEF IInv, TypeOK
<1>1. ASSUME NEW e \in Events, Insert(e)
      PROVE  Outbox!Next
  BY <1>1 DEF Insert, Outbox!Next, Outbox!Record
<1>2. ASSUME NEW i \in Instances, Send(i) \/ ExecuteFails(i) \/ Crash(i)
      PROVE  Outbox!Next
  <2>1. PICK S \in SUBSET rows[i] : published' = Plus(published, S)
    BY <1>2 DEF Send, ExecuteFails, Crash
  <2>2. S \in SUBSET Events /\ \A e \in S : outbox[e] # "absent"
    BY DEF BusyInv
  <2>3. Outbox!Deliver(S)
    BY <1>2, <2>1, <2>2 DEF Outbox!Deliver, Plus, Send, ExecuteFails, Crash
  <2>4. QED
    BY <2>2, <2>3 DEF Outbox!Next
<1>3. ASSUME NEW i \in Instances, Mark(i)
      PROVE  Outbox!Next
  <2> DEFINE S == {e \in accepted[i] : outbox[e] = "new"}
  <2>1. \A e \in accepted[i] : e \in Events /\ outbox[e] # "absent" /\ published[e] >= 1
    BY DEF BusyInv
  <2>2. outbox' = [e \in Events |-> IF e \in S THEN "emitted" ELSE outbox[e]]
    BY <1>3, <2>1 DEF Mark
  <2>3. Outbox!Settle(S)
    BY <1>3, <2>1, <2>2 DEF Mark, Outbox!Settle
  <2>4. S \in SUBSET Events
    OBVIOUS
  <2>5. QED
    BY <2>3, <2>4 DEF Outbox!Next
<1>4. ASSUME NEW i \in Instances,
             Start(i) \/ ReceiveCommit(i) \/ Find(i) \/ Status(i) \/ Disconnect(i)
      PROVE  UNCHANGED <<outbox, published>>
  BY <1>4 DEF Start, ReceiveCommit, Find, Status, Disconnect
<1>5. CASE CreateSlot \/ UNCHANGED vars
  BY <1>5 DEF CreateSlot, vars
<1>6. QED
  BY <1>1, <1>2, <1>3, <1>4, <1>5 DEF Next, Progress

\* The replication relay implements the abstract outbox.
THEOREM Refinement == Spec => ImplementsAtLeastOnce
<1>1. Init => Outbox!Init
  BY DEF Init, Outbox!Init
<1>2. QED
  BY <1>1, RefinementStep, Invariance, PTL DEF Spec, ImplementsAtLeastOnce, Outbox!Spec
================================================================================
