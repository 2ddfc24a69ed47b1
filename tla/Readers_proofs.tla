----------------------------- MODULE Readers_proofs -----------------------------
(***************************************************************************)
(* Proofs about the two requests that read in parts what others extend     *)
(* meanwhile: RouteMatching, for any chunk size from two, tracks of any    *)
(* length and responses with any number of matchings, and LedgerQuery, for *)
(* any events, times, bounds and sizes of pages.                           *)
(***************************************************************************)
EXTENDS RouteMatching, LedgerQuery, FiniteSetTheorems, TLAPS

--------------------------------------------------------------------------------
\* RouteMatching: the inductive invariant

\* The request has a result made of chunks.
Matched == n >= 2 /\ (job = "distance" \/ token)

\* The result has come as far as the loop.
BehindInv == \A i \in 1..Len(lines) : lines[i][2] <= start

\* What the loop has passed is in the result, or Mapbox left it out.
DoneInv ==
  pc # "idle" /\ Matched =>
    \A leg \in 0 .. n - 2 : leg < start => Covers(lines, leg) \/ leg \in lost

\* Between requests there is no result; a result that is ready is complete.
PhaseInv ==
  /\ pc = "idle" => lines = <<>>
  /\ pc = "chunks" => Matched
  /\ pc = "ready" /\ Matched => start >= n - 1

IInv == TypeOK /\ LinesInOrder /\ ChunksFit /\ BehindInv /\ DoneInv /\ PhaseInv

--------------------------------------------------------------------------------
\* Chunks

\* Where a turn of the loop begins and ends.
LEMMA ChunkBounds ==
  ASSUME TypeOK, start < n - 1
  PROVE  /\ start \in Nat /\ n \in Nat /\ ChunkEnd \in Nat
         /\ start + 2 <= ChunkEnd /\ ChunkEnd <= n /\ ChunkEnd <= start + W
         /\ ChunkEnd - 1 <= NextStart /\ NextStart \in 0 .. MaxPoints + W
         /\ (ChunkEnd - 1 = NextStart \/ ChunkEnd = n)
<1>1. start \in Nat /\ n \in Nat /\ W \in Nat /\ W >= 2 /\ MaxPoints \in Nat /\ n <= MaxPoints
  BY WAssumption, BoundsAssumption DEF TypeOK
<1>2. CASE start + W > n
  BY <1>1, <1>2 DEF ChunkEnd, NextStart
<1>3. CASE start + W <= n
  <2>1. ChunkEnd = start + W
    BY <1>1, <1>3 DEF ChunkEnd
  <2>2. QED
    BY <1>1, <1>3, <2>1 DEF NextStart
<1>4. QED
  BY <1>1, <1>2, <1>3

\* Lines of a chunk behind lines that end before it.
LEMMA LinesAppended ==
  ASSUME NEW s \in Seq(Points \X Points), NEW m \in Seq(Points \X Points),
         InOrder(s), InOrder(m), NEW a \in Nat,
         \A i \in 1..Len(s) : s[i][2] <= a,
         \A i \in 1..Len(m) : a <= m[i][1]
  PROVE  InOrder(s \o m)
<1> DEFINE t == s \o m
<1> SUFFICES ASSUME NEW i \in 1..Len(t), NEW j \in 1..Len(t), i < j
             PROVE  t[i][2] <= t[j][1]
  BY DEF InOrder
<1>0. Len(t) = Len(s) + Len(m) /\ Len(s) \in Nat /\ Len(m) \in Nat
  OBVIOUS
<1>1. CASE j <= Len(s)
  <2>1. t[i] = s[i] /\ t[j] = s[j] /\ i \in 1..Len(s) /\ j \in 1..Len(s)
    BY <1>0, <1>1
  <2>2. QED
    BY <2>1 DEF InOrder
<1>2. CASE i > Len(s)
  <2>1. t[i] = m[i - Len(s)] /\ t[j] = m[j - Len(s)]
        /\ i - Len(s) \in 1..Len(m) /\ j - Len(s) \in 1..Len(m) /\ i - Len(s) < j - Len(s)
    BY <1>0, <1>2
  <2>2. QED
    BY <2>1 DEF InOrder
<1>3. CASE i <= Len(s) /\ j > Len(s)
  <2>1. t[i] = s[i] /\ t[j] = m[j - Len(s)] /\ i \in 1..Len(s) /\ j - Len(s) \in 1..Len(m)
    BY <1>0, <1>3
  <2>2. ASSUME NEW k \in 1..Len(s)
        PROVE  s[k][2] <= a /\ s[k][2] \in Nat
    <3>1. s[k] \in Points \X Points
      BY ONLY <2>2, s \in Seq(Points \X Points)
    <3>2. QED
      BY <2>2, <3>1 DEF Points
  <2>3. ASSUME NEW k \in 1..Len(m)
        PROVE  a <= m[k][1] /\ m[k][1] \in Nat
    <3>1. m[k] \in Points \X Points
      BY ONLY <2>3, m \in Seq(Points \X Points)
    <3>2. QED
      BY <2>3, <3>1 DEF Points
  <2> DEFINE x == s[i][2]
             y == m[j - Len(s)][1]
  <2>4. x <= a /\ x \in Nat /\ a <= y /\ y \in Nat
    BY ONLY <2>1, <2>2, <2>3
  <2> HIDE DEF x, y
  <2>5. x <= y
    BY ONLY <2>4, a \in Nat
  <2>6. t[i][2] = x /\ t[j][1] = y
    BY ONLY <2>1 DEF x, y
  <2>7. QED
    BY ONLY <2>5, <2>6
<1>4. QED
  BY <1>0, <1>1, <1>2, <1>3

\* What is covered stays covered.
LEMMA CoversBoth ==
  ASSUME NEW s \in Seq(Points \X Points), NEW m \in Seq(Points \X Points), NEW leg,
         Covers(s, leg) \/ Covers(m, leg)
  PROVE  Covers(s \o m, leg)
<1>0. Len(s \o m) = Len(s) + Len(m) /\ Len(s) \in Nat /\ Len(m) \in Nat
  OBVIOUS
<1>1. CASE Covers(s, leg)
  <2>1. PICK i \in 1..Len(s) : s[i][1] <= leg /\ leg < s[i][2]
    BY <1>1 DEF Covers
  <2>2. (s \o m)[i] = s[i] /\ i \in 1..Len(s \o m)
    BY <1>0
  <2>3. QED
    BY <2>1, <2>2 DEF Covers
<1>2. CASE Covers(m, leg)
  <2>1. PICK i \in 1..Len(m) : m[i][1] <= leg /\ leg < m[i][2]
    BY <1>2 DEF Covers
  <2>2. (s \o m)[Len(s) + i] = m[i] /\ Len(s) + i \in 1..Len(s \o m)
    BY <1>0
  <2>3. QED
    BY <2>1, <2>2 DEF Covers
<1>3. QED
  BY <1>1, <1>2

\* A turn of the loop adds lines of its chunk, and says which legs have none.
Adds(m) ==
  /\ m \in Seq(Points \X Points)
  /\ InOrder(m)
  /\ \A i \in 1..Len(m) : start <= m[i][1] /\ m[i][2] <= ChunkEnd - 1
  /\ lines' = lines \o m
  /\ lost \subseteq lost' /\ lost' \subseteq Points
  /\ \A leg \in start .. ChunkEnd - 2 : Covers(m, leg) \/ leg \in lost'

\* A response of Mapbox does.
LEMMA MatchAdds ==
  ASSUME TypeOK, start < n - 1, NEW m \in Matchings(start, ChunkEnd - 1), Match(m)
  PROVE  Adds(m)
<1> DEFINE L == (start .. ChunkEnd - 1) \X (start .. ChunkEnd - 1)
<1>1. InOrder(m)
  BY DEF Matchings
<1>2. PICK k \in 0..MaxMatchings : m \in [1..k -> L]
  BY DEF Matchings
<1>3. start .. ChunkEnd - 1 \subseteq Points /\ start .. ChunkEnd - 2 \subseteq Points
  <2>1. start \in Nat /\ ChunkEnd \in Nat /\ n \in Nat /\ ChunkEnd <= n
    BY ChunkBounds
  <2>2. n <= MaxPoints /\ MaxPoints \in Nat
    BY BoundsAssumption DEF TypeOK
  <2>3. QED
    BY ONLY <2>1, <2>2 DEF Points
<1>4. k \in Nat /\ Len(m) = k /\ m \in Seq(L)
  BY <1>2, BoundsAssumption
<1>5. m \in Seq(Points \X Points)
  BY <1>2, <1>3, <1>4
<1>6. \A i \in 1..Len(m) : start <= m[i][1] /\ m[i][2] <= ChunkEnd - 1
  <2> SUFFICES ASSUME NEW i \in 1..Len(m)
               PROVE  start <= m[i][1] /\ m[i][2] <= ChunkEnd - 1
    OBVIOUS
  <2>1. m[i] \in L
    BY <1>2, <1>4
  <2>2. m[i][1] \in start .. ChunkEnd - 1 /\ m[i][2] \in start .. ChunkEnd - 1
    BY <2>1
  <2>3. QED
    BY <2>2, ChunkBounds
<1>7. lines' = lines \o m
  BY DEF Match
<1>8. lost \subseteq lost' /\ lost' \subseteq Points
      /\ \A leg \in start .. ChunkEnd - 2 : Covers(m, leg) \/ leg \in lost'
  BY <1>3 DEF Match, TypeOK
<1>9. QED
  BY <1>1, <1>5, <1>6, <1>7, <1>8 DEF Adds

\* So do the straight lines.
LEMMA FallBackAdds ==
  ASSUME TypeOK, start < n - 1, FallBack
  PROVE  Adds(<<<<start, ChunkEnd - 1>>>>)
<1> DEFINE e == <<start, ChunkEnd - 1>>
           m == <<e>>
<1>1. start \in Points /\ ChunkEnd - 1 \in Points
  BY ChunkBounds, BoundsAssumption DEF TypeOK, Points
<1>2. m \in Seq(Points \X Points) /\ Len(m) = 1 /\ m[1] = e
  BY <1>1
<1>3. InOrder(m)
  BY <1>2 DEF InOrder
<1>4. \A i \in 1..Len(m) : start <= m[i][1] /\ m[i][2] <= ChunkEnd - 1
  BY <1>2, ChunkBounds
<1>5. lines' = lines \o m
  BY <1>1 DEF FallBack, TypeOK
<1>6. lost' = lost /\ lost \subseteq Points
  BY DEF FallBack, TypeOK
<1>7. \A leg \in start .. ChunkEnd - 2 : Covers(m, leg)
  <2> SUFFICES ASSUME NEW leg \in start .. ChunkEnd - 2
               PROVE  m[1][1] <= leg /\ leg < m[1][2]
    BY <1>2 DEF Covers
  <2>1. QED
    BY <1>2, ChunkBounds
<1>8. QED
  BY <1>2, <1>3, <1>4, <1>5, <1>6, <1>7 DEF Adds

\* A turn of the loop keeps the invariant.
LEMMA ChunkStep ==
  ASSUME IInv, MatchChunk
  PROVE  IInv'
<1>0. TypeOK /\ start < n - 1 /\ pc = "chunks" /\ Matched
  BY DEF IInv, MatchChunk, PhaseInv
<1>1. PICK m : Adds(m)
  BY <1>0, MatchAdds, FallBackAdds DEF MatchChunk
<1>2. /\ m \in Seq(Points \X Points) /\ lines \in Seq(Points \X Points) /\ lines' = lines \o m
      /\ Len(lines) \in Nat /\ Len(m) \in Nat /\ Len(lines') = Len(lines) + Len(m)
  BY <1>0, <1>1 DEF Adds, TypeOK
<1>3. /\ start' = NextStart /\ asked' = ChunkEnd - start
      /\ UNCHANGED <<token, track, pc, job, n>>
  BY DEF MatchChunk
<1>4. \A i \in 1..Len(lines') : lines'[i][2] <= ChunkEnd - 1
  <2> SUFFICES ASSUME NEW i \in 1..Len(lines')
               PROVE  lines'[i][2] <= ChunkEnd - 1
    OBVIOUS
  <2>1. CASE i <= Len(lines)
    <3>1. lines'[i] = lines[i] /\ i \in 1..Len(lines)
      BY <1>2, <2>1
    <3>2. lines[i][2] <= start /\ lines[i] \in Points \X Points
      BY <1>2, <3>1 DEF IInv, BehindInv
    <3>3. lines[i][2] \in Nat
      BY <3>2 DEF Points
    <3>4. QED
      BY <1>0, <3>1, <3>2, <3>3, ChunkBounds
  <2>2. CASE i > Len(lines)
    <3>1. lines'[i] = m[i - Len(lines)] /\ i - Len(lines) \in 1..Len(m)
      BY <1>2, <2>2
    <3>2. QED
      BY <1>1, <3>1 DEF Adds
  <2>3. QED
    BY <1>2, <2>1, <2>2
<1>5. lines' \in Seq(Points \X Points)
  BY <1>2
<1>6. \A i \in 1..Len(lines') : lines'[i][2] \in Nat
  BY <1>5 DEF Points
<1>7. TypeOK'
  <2>1. \A i \in 1..Len(lines') : lines'[i][2] < n
    BY <1>0, <1>4, <1>6, ChunkBounds
  <2>2. lost' \subseteq Points
    BY <1>1 DEF Adds
  <2>3. start' \in 0 .. MaxPoints + W /\ asked' \in Nat
    BY <1>0, <1>3, ChunkBounds
  <2>4. QED
    BY ONLY <1>0, <1>3, <1>5, <2>1, <2>2, <2>3 DEF TypeOK
<1>8. LinesInOrder'
  <2>1. InOrder(lines) /\ InOrder(m) /\ (\A i \in 1..Len(lines) : lines[i][2] <= start)
        /\ (\A i \in 1..Len(m) : start <= m[i][1]) /\ start \in Nat
    BY <1>0, <1>1, ChunkBounds DEF IInv, LinesInOrder, BehindInv, Adds
  <2>2. InOrder(lines \o m)
    BY <1>2, <2>1, LinesAppended
  <2>3. QED
    BY <1>2, <2>2 DEF LinesInOrder
<1>9. ChunksFit'
  BY <1>0, <1>3, ChunkBounds, WAssumption DEF ChunksFit
<1>10. BehindInv'
  <2>1. ChunkEnd - 1 <= start' /\ ChunkEnd - 1 \in Int /\ start' \in Nat
    BY <1>0, <1>3, ChunkBounds
  <2>2. ASSUME NEW i \in 1..Len(lines')
        PROVE  lines'[i][2] <= start'
    <3> DEFINE x == lines'[i][2]
    <3>1. x <= ChunkEnd - 1 /\ x \in Nat
      BY ONLY <1>4, <1>6, <2>2
    <3> HIDE DEF x
    <3>2. x <= start'
      BY ONLY <2>1, <3>1
    <3>3. QED
      BY ONLY <3>2 DEF x
  <2>3. QED
    BY ONLY <2>2 DEF BehindInv
<1>11. DoneInv'
  <2> SUFFICES ASSUME NEW leg \in 0 .. n - 2, leg < start'
               PROVE  Covers(lines', leg) \/ leg \in lost'
    BY <1>3 DEF DoneInv, Matched
  <2>1. CASE leg < start
    <3>1. Covers(lines, leg) \/ leg \in lost
      BY <1>0, <2>1 DEF IInv, DoneInv
    <3>2. QED
      BY <1>1, <1>2, <3>1, CoversBoth DEF Adds
  <2>2. CASE leg >= start
    <3>1. leg \in start .. ChunkEnd - 2
      BY <1>0, <1>3, <2>2, ChunkBounds
    <3>2. Covers(m, leg) \/ leg \in lost'
      BY <1>1, <3>1 DEF Adds
    <3>3. QED
      BY <1>2, <3>2, CoversBoth
  <2>3. QED
    BY <1>0, <2>1, <2>2, ChunkBounds
<1>12. PhaseInv'
  BY <1>0, <1>3 DEF PhaseInv, Matched
<1>13. QED
  BY <1>7, <1>8, <1>9, <1>10, <1>11, <1>12 DEF IInv

--------------------------------------------------------------------------------
\* The invariant

\* No request has asked for anything yet.
LEMMA InitInv == Init => IInv
BY WAssumption, BoundsAssumption
   DEF Init, IInv, TypeOK, Points, LinesInOrder, InOrder, ChunksFit, BehindInv, DoneInv, PhaseInv

\* Every step keeps the invariant.
LEMMA NextInv == IInv /\ [Next]_vars => IInv'
<1> SUFFICES ASSUME IInv, [Next]_vars
             PROVE  IInv'
  OBVIOUS
<1>1. CASE AddPoint
  <2>1. track' \in 0..MaxPoints
    BY <1>1, BoundsAssumption DEF AddPoint, IInv, TypeOK
  <2>2. UNCHANGED <<token, pc, job, n, start, lines, lost, asked>>
    BY <1>1 DEF AddPoint
  <2>3. QED
    BY <2>1, <2>2 DEF IInv, TypeOK, LinesInOrder, ChunksFit, BehindInv, DoneInv, PhaseInv, Matched
<1>2. ASSUME NEW j \in {"distance", "route"}, ReadTrack(j)
      PROVE  IInv'
  <2>1. lines = <<>> /\ lines' = <<>>
    BY <1>2 DEF ReadTrack, IInv, PhaseInv
  <2>2. QED
    BY <1>2, <2>1, WAssumption, BoundsAssumption
       DEF ReadTrack, IInv, TypeOK, LinesInOrder, InOrder, ChunksFit, BehindInv, DoneInv, PhaseInv,
           Matched
<1>3. CASE MatchChunk
  BY <1>3, ChunkStep
<1>4. CASE EndLoop
  BY <1>4 DEF EndLoop, IInv, TypeOK, LinesInOrder, InOrder, ChunksFit, BehindInv, DoneInv, Covers,
        PhaseInv, Matched
<1>5. CASE Answer
  BY <1>5, WAssumption, BoundsAssumption
     DEF Answer, IInv, TypeOK, LinesInOrder, InOrder, ChunksFit, BehindInv, DoneInv, PhaseInv, Matched
<1>6. CASE UNCHANGED vars
  BY <1>6 DEF vars, IInv, TypeOK, LinesInOrder, InOrder, ChunksFit, BehindInv, DoneInv, Covers,
        PhaseInv, Matched
<1>7. QED
  BY <1>1, <1>2, <1>3, <1>4, <1>5, <1>6 DEF Next

--------------------------------------------------------------------------------
\* Theorems

\* The invariant holds in every state of a request.
THEOREM Invariance == Spec => []IInv
<1>1. QED
  BY InitInv, NextInv, PTL DEF Spec

\* Every variable of a request keeps its type, and no line leaves the track.
THEOREM TypeCorrect == Spec => []TypeOK
<1>1. IInv => TypeOK
  BY DEF IInv
<1>2. QED
  BY Invariance, <1>1, PTL

\* No leg is measured twice.
THEOREM NoLegTwice == Spec => []LinesInOrder
<1>1. IInv => LinesInOrder
  BY DEF IInv
<1>2. QED
  BY Invariance, <1>1, PTL

\* No leg is lost but by Mapbox.
THEOREM NoLegLost == Spec => []GapsAreMapboxs
<1>1. IInv => GapsAreMapboxs
  <2> SUFFICES ASSUME IInv, pc = "ready", n >= 2, job = "distance" \/ token,
                      NEW leg \in 0 .. n - 2
               PROVE  Covers(lines, leg) \/ leg \in lost
    BY DEF GapsAreMapboxs
  <2>1. start >= n - 1 /\ start \in Nat /\ n \in Nat
    BY WAssumption, BoundsAssumption DEF IInv, PhaseInv, Matched, TypeOK
  <2>2. leg < start
    BY <2>1
  <2>3. QED
    BY <2>2 DEF IInv, DoneInv, Matched
<1>2. QED
  BY Invariance, <1>1, PTL

\* No chunk is too long for Mapbox, or a single point.
THEOREM ChunksFitMapbox == Spec => []ChunksFit
<1>1. IInv => ChunksFit
  BY DEF IInv
<1>2. QED
  BY Invariance, <1>1, PTL

--------------------------------------------------------------------------------
\* LedgerQuery: texts and their order

\* A text is of one of three forms.
LEMMA TextForm ==
  ASSUME NEW t \in Nat
  PROVE  LET second == t \div 100 + 1
             tenth == (t \div 10) % 10
             hundredth == t % 10
         IN  /\ second \in Nat /\ tenth \in 0..9 /\ hundredth \in 0..9
             /\ t = 100 * (second - 1) + 10 * tenth + hundredth
             /\ hundredth # 0 => Text(t) = <<second, 0, tenth + 1, hundredth + 1, 11>>
             /\ hundredth = 0 /\ tenth # 0 => Text(t) = <<second, 0, tenth + 1, 11>>
             /\ hundredth = 0 /\ tenth = 0 => Text(t) = <<second, 11>>
<1> DEFINE second == t \div 100 + 1
           tenth == (t \div 10) % 10
           hundredth == t % 10
<1>1. second \in Nat /\ tenth \in 0..9 /\ hundredth \in 0..9
  OBVIOUS
<1>2. t = 100 * (second - 1) + 10 * tenth + hundredth
  OBVIOUS
<1>3. /\ hundredth # 0 => Text(t) = <<second, 0, tenth + 1, hundredth + 1, 11>>
      /\ hundredth = 0 /\ tenth # 0 => Text(t) = <<second, 0, tenth + 1, 11>>
      /\ hundredth = 0 /\ tenth = 0 => Text(t) = <<second, 11>>
  BY DEF Text
<1>4. QED
  BY <1>1, <1>2, <1>3

Second(t) == t \div 100 + 1
Tenth(t) == (t \div 10) % 10
Hundredth(t) == t % 10
Whole(t) == Tenth(t) = 0 /\ Hundredth(t) = 0

\* A text is a sequence of numbers.
LEMMA TextType ==
  ASSUME NEW t \in Nat
  PROVE  Len(Text(t)) \in Nat /\ \A i \in 1..Len(Text(t)) : Text(t)[i] \in Nat
<1>1. Text(t) \in Seq(Nat)
  <2> DEFINE second == t \div 100 + 1
             tenth == (t \div 10) % 10
             hundredth == t % 10
  <2>1. second \in Nat /\ tenth \in 0..9 /\ hundredth \in 0..9
    OBVIOUS
  <2>2. tenth + 1 \in Nat /\ hundredth + 1 \in Nat
    BY <2>1
  <2> HIDE DEF second, tenth, hundredth
  <2>3. /\ <<second, 0, tenth + 1, hundredth + 1, 11>> \in Seq(Nat)
        /\ <<second, 0, tenth + 1, 11>> \in Seq(Nat)
        /\ <<second, 11>> \in Seq(Nat)
    BY <2>1, <2>2
  <2>4. \/ Text(t) = <<second, 0, tenth + 1, hundredth + 1, 11>>
        \/ Text(t) = <<second, 0, tenth + 1, 11>>
        \/ Text(t) = <<second, 11>>
    BY DEF Text, second, tenth, hundredth
  <2>5. QED
    BY <2>3, <2>4
<1>2. ASSUME NEW s \in Seq(Nat)
      PROVE  Len(s) \in Nat /\ \A i \in 1..Len(s) : s[i] \in Nat
  OBVIOUS
<1>3. QED
  BY <1>1, <1>2

\* The first character that differs decides.
LEMMA TextLessAt ==
  ASSUME NEW t \in Nat, NEW u \in Nat, NEW k \in Nat \ {0},
         k <= Len(Text(t)), k <= Len(Text(u)),
         Text(t)[k] < Text(u)[k],
         \A i \in 1 .. k - 1 : Text(t)[i] = Text(u)[i]
  PROVE  TextLess(t, u)
BY TextType DEF TextLess

\* No text is less than itself.
LEMMA TextLessIrreflexive ==
  ASSUME NEW t \in Nat
  PROVE  ~TextLess(t, t)
<1>1. \A k \in 1..Len(Text(t)) : Text(t)[k] \in Nat
  BY TextType
<1>2. QED
  BY <1>1 DEF TextLess

LEMMA TextLessTransitive ==
  ASSUME NEW t \in Nat, NEW u \in Nat, NEW v \in Nat, TextLess(t, u), TextLess(u, v)
  PROVE  TextLess(t, v)
<1>1. /\ \A i \in 1..Len(Text(t)) : Text(t)[i] \in Nat
      /\ \A i \in 1..Len(Text(u)) : Text(u)[i] \in Nat
      /\ \A i \in 1..Len(Text(v)) : Text(v)[i] \in Nat
      /\ Len(Text(t)) \in Nat /\ Len(Text(u)) \in Nat /\ Len(Text(v)) \in Nat
  BY TextType
<1>2. PICK k \in 1..Len(Text(t)) :
        /\ k <= Len(Text(u)) /\ Text(t)[k] < Text(u)[k]
        /\ \A i \in 1 .. k - 1 : Text(t)[i] = Text(u)[i]
  BY DEF TextLess
<1>3. PICK m \in 1..Len(Text(u)) :
        /\ m <= Len(Text(v)) /\ Text(u)[m] < Text(v)[m]
        /\ \A i \in 1 .. m - 1 : Text(u)[i] = Text(v)[i]
  BY DEF TextLess
<1>4. /\ k \in Nat /\ 1 <= k /\ k <= Len(Text(t)) /\ k <= Len(Text(u))
      /\ m \in Nat /\ 1 <= m /\ m <= Len(Text(u)) /\ m <= Len(Text(v))
  BY ONLY <1>1, <1>2, <1>3
<1>5. CASE k <= m
  <2>1. k \in Nat \ {0} /\ k <= Len(Text(v)) /\ k <= Len(Text(t))
    BY ONLY <1>1, <1>4, <1>5
  <2>2. Text(t)[k] \in Nat /\ Text(u)[k] \in Nat /\ Text(v)[k] \in Nat
    BY ONLY <1>1, <1>4, <2>1
  <2>3. k = m \/ k \in 1 .. m - 1
    BY ONLY <1>4, <1>5
  <2>4. Text(t)[k] < Text(v)[k]
    <3>1. CASE k = m
      BY ONLY <1>2, <1>3, <2>2, <3>1
    <3>2. CASE k \in 1 .. m - 1
      <4>1. Text(u)[k] = Text(v)[k]
        BY ONLY <1>3, <3>2
      <4>2. QED
        BY ONLY <1>2, <4>1
    <3>3. QED
      BY ONLY <2>3, <3>1, <3>2
  <2>5. \A i \in 1 .. k - 1 : i \in 1 .. m - 1
    BY ONLY <1>4, <1>5
  <2>6. \A i \in 1 .. k - 1 : Text(t)[i] = Text(v)[i]
    BY ONLY <1>2, <1>3, <2>5
  <2>7. QED
    BY <2>1, <2>4, <2>6, TextLessAt
<1>6. CASE m < k
  <2>1. m \in Nat \ {0} /\ m <= Len(Text(v)) /\ m <= Len(Text(t))
    BY ONLY <1>1, <1>4, <1>6
  <2>2. m \in 1 .. k - 1 /\ \A i \in 1 .. m - 1 : i \in 1 .. k - 1
    BY ONLY <1>4, <1>6
  <2>3. Text(t)[m] < Text(v)[m]
    BY ONLY <1>2, <1>3, <2>2
  <2>4. \A i \in 1 .. m - 1 : Text(t)[i] = Text(v)[i]
    BY ONLY <1>2, <1>3, <2>2
  <2>5. QED
    BY <2>1, <2>3, <2>4, TextLessAt
<1>7. QED
  BY ONLY <1>4, <1>5, <1>6

\* When one text is less than another: by its second; a fraction before none; by
\* the tenth; by the hundredth, of which none is behind any.
LEMMA TextLessWhen ==
  ASSUME NEW t \in Nat, NEW u \in Nat,
         \/ Second(t) < Second(u)
         \/ Second(t) = Second(u) /\ ~Whole(t) /\ Whole(u)
         \/ Second(t) = Second(u) /\ ~Whole(t) /\ ~Whole(u) /\ Tenth(t) < Tenth(u)
         \/ /\ Second(t) = Second(u) /\ ~Whole(t) /\ ~Whole(u) /\ Tenth(t) = Tenth(u)
            /\ Hundredth(t) # 0
            /\ Hundredth(u) = 0 \/ Hundredth(t) < Hundredth(u)
  PROVE  TextLess(t, u)
<1> DEFINE Form(x) ==
      /\ Hundredth(x) # 0 =>
           Text(x) = <<Second(x), 0, Tenth(x) + 1, Hundredth(x) + 1, 11>>
      /\ Hundredth(x) = 0 /\ Tenth(x) # 0 => Text(x) = <<Second(x), 0, Tenth(x) + 1, 11>>
      /\ Hundredth(x) = 0 /\ Tenth(x) = 0 => Text(x) = <<Second(x), 11>>
<1>1. Form(t) /\ Form(u)
  BY TextForm DEF Second, Tenth, Hundredth
<1>2. /\ Second(t) \in Nat /\ Tenth(t) \in 0..9 /\ Hundredth(t) \in 0..9
      /\ Second(u) \in Nat /\ Tenth(u) \in 0..9 /\ Hundredth(u) \in 0..9
  BY TextForm DEF Second, Tenth, Hundredth
<1>3. /\ Len(Text(t)) \in {2, 4, 5} /\ Len(Text(u)) \in {2, 4, 5}
      /\ Text(t)[1] = Second(t) /\ Text(u)[1] = Second(u)
      /\ Text(t)[2] = (IF Whole(t) THEN 11 ELSE 0) /\ Text(u)[2] = (IF Whole(u) THEN 11 ELSE 0)
  BY <1>1, <1>2 DEF Whole
<1>4. ASSUME ~Whole(t), ~Whole(u)
      PROVE  /\ Len(Text(t)) \in {4, 5} /\ Len(Text(u)) \in {4, 5}
             /\ Text(t)[3] = Tenth(t) + 1 /\ Text(u)[3] = Tenth(u) + 1
             /\ Text(t)[4] = (IF Hundredth(t) = 0 THEN 11 ELSE Hundredth(t) + 1)
             /\ Text(u)[4] = (IF Hundredth(u) = 0 THEN 11 ELSE Hundredth(u) + 1)
  BY <1>1, <1>2, <1>4 DEF Whole
<1> HIDE DEF Form
<1>5. CASE Second(t) < Second(u)
  <2>1. \A i \in 1 .. 1 - 1 : Text(t)[i] = Text(u)[i]
    OBVIOUS
  <2>2. 1 <= Len(Text(t)) /\ 1 <= Len(Text(u)) /\ Text(t)[1] < Text(u)[1]
    BY <1>3, <1>5
  <2>3. QED
    BY <2>1, <2>2, TextLessAt
<1>6. CASE Second(t) = Second(u) /\ ~Whole(t) /\ Whole(u)
  <2>1. \A i \in 1 .. 2 - 1 : Text(t)[i] = Text(u)[i]
    BY <1>3, <1>6
  <2>2. 2 <= Len(Text(t)) /\ 2 <= Len(Text(u)) /\ Text(t)[2] < Text(u)[2]
    BY <1>3, <1>6
  <2>3. QED
    BY <2>1, <2>2, TextLessAt
<1>7. CASE Second(t) = Second(u) /\ ~Whole(t) /\ ~Whole(u) /\ Tenth(t) < Tenth(u)
  <2>1. \A i \in 1 .. 3 - 1 : Text(t)[i] = Text(u)[i]
    BY ONLY <1>3, <1>7
  <2>2. /\ Len(Text(t)) \in {4, 5} /\ Len(Text(u)) \in {4, 5}
        /\ Text(t)[3] = Tenth(t) + 1 /\ Text(u)[3] = Tenth(u) + 1
    BY ONLY <1>4, <1>7
  <2>3. 3 <= Len(Text(t)) /\ 3 <= Len(Text(u)) /\ Text(t)[3] < Text(u)[3]
    BY ONLY <1>2, <1>7, <2>2
  <2>4. QED
    BY ONLY t \in Nat, u \in Nat, 3 \in Nat \ {0}, <2>1, <2>3, TextLessAt
<1>8. CASE /\ Second(t) = Second(u) /\ ~Whole(t) /\ ~Whole(u) /\ Tenth(t) = Tenth(u)
           /\ Hundredth(t) # 0
           /\ Hundredth(u) = 0 \/ Hundredth(t) < Hundredth(u)
  <2>1. /\ Len(Text(t)) \in {4, 5} /\ Len(Text(u)) \in {4, 5}
        /\ Text(t)[3] = Tenth(t) + 1 /\ Text(u)[3] = Tenth(u) + 1
        /\ Text(t)[4] = Hundredth(t) + 1
        /\ Text(u)[4] = (IF Hundredth(u) = 0 THEN 11 ELSE Hundredth(u) + 1)
    BY ONLY <1>4, <1>8
  <2>2. Text(t)[1] = Text(u)[1] /\ Text(t)[2] = Text(u)[2] /\ Text(t)[3] = Text(u)[3]
    BY ONLY <1>3, <1>8, <2>1
  <2>3. \A i \in 1 .. 4 - 1 : i = 1 \/ i = 2 \/ i = 3
    OBVIOUS
  <2>4. \A i \in 1 .. 4 - 1 : Text(t)[i] = Text(u)[i]
    BY ONLY <2>2, <2>3
  <2>5. 4 <= Len(Text(t)) /\ 4 <= Len(Text(u))
    BY ONLY <2>1
  <2>6. Text(t)[4] < Text(u)[4]
    BY ONLY <1>2, <1>8, <2>1
  <2>7. QED
    BY ONLY t \in Nat, u \in Nat, 4 \in Nat \ {0}, <2>4, <2>5, <2>6, TextLessAt
<1>9. QED
  BY <1>5, <1>6, <1>7, <1>8

\* Two times have texts of which one is less.
LEMMA TextLessTotal ==
  ASSUME NEW t \in Nat, NEW u \in Nat, t # u
  PROVE  TextLess(t, u) \/ TextLess(u, t)
<1>1. /\ Second(t) \in Nat /\ Tenth(t) \in 0..9 /\ Hundredth(t) \in 0..9
      /\ Second(u) \in Nat /\ Tenth(u) \in 0..9 /\ Hundredth(u) \in 0..9
      /\ t = 100 * (Second(t) - 1) + 10 * Tenth(t) + Hundredth(t)
      /\ u = 100 * (Second(u) - 1) + 10 * Tenth(u) + Hundredth(u)
  BY TextForm DEF Second, Tenth, Hundredth
<1>2. Second(t) # Second(u) \/ Tenth(t) # Tenth(u) \/ Hundredth(t) # Hundredth(u)
  BY <1>1
<1>3. QED
  BY <1>1, <1>2, TextLessWhen DEF Whole

--------------------------------------------------------------------------------
\* LedgerQuery: the order of items

\* Items have numbers and times.
LEMMA ItemType ==
  ASSUME NEW x \in Items
  PROVE  x.id \in Nat /\ x.at \in Nat /\ x = [id |-> x.id, at |-> x.at]
BY EventsAssumption, TimesAssumption DEF Items

\* The order by time is strict and total.
LEMMA ByTimeOrder ==
  /\ \A x \in Items : ~ByTime(x, x)
  /\ \A x, y, z \in Items : ByTime(x, y) /\ ByTime(y, z) => ByTime(x, z)
  /\ \A x, y \in Items : x = y \/ ByTime(x, y) \/ ByTime(y, x)
<1>1. \A x \in Items : ~ByTime(x, x)
  BY ItemType, TextLessIrreflexive DEF ByTime
<1>2. ASSUME NEW x \in Items, NEW y \in Items, NEW z \in Items, ByTime(x, y), ByTime(y, z)
      PROVE  ByTime(x, z)
  <2>1. TextLess(x.at, y.at) /\ TextLess(y.at, z.at) => TextLess(x.at, z.at)
    BY ItemType, TextLessTransitive
  <2>2. QED
    BY <1>2, <2>1, ItemType DEF ByTime
<1>3. ASSUME NEW x \in Items, NEW y \in Items, x # y
      PROVE  ByTime(x, y) \/ ByTime(y, x)
  <2>1. x.at # y.at => TextLess(x.at, y.at) \/ TextLess(y.at, x.at)
    BY ItemType, TextLessTotal
  <2>2. x.at = y.at => x.id < y.id \/ y.id < x.id
    BY <1>3, ItemType
  <2>3. QED
    BY <2>1, <2>2 DEF ByTime
<1>4. QED
  BY <1>1, <1>2, <1>3

\* So is the order of a scan.
LEMMA ByPartitionOrder ==
  /\ \A x \in Items : ~ByPartition(x, x)
  /\ \A x, y, z \in Items : ByPartition(x, y) /\ ByPartition(y, z) => ByPartition(x, z)
  /\ \A x, y \in Items : x = y \/ ByPartition(x, y) \/ ByPartition(y, x)
<1>1. \A x \in Items : ~ByPartition(x, x)
  BY ItemType, TextLessIrreflexive DEF ByPartition
<1>2. ASSUME NEW x \in Items, NEW y \in Items, NEW z \in Items,
             ByPartition(x, y), ByPartition(y, z)
      PROVE  ByPartition(x, z)
  <2>1. TextLess(x.at, y.at) /\ TextLess(y.at, z.at) => TextLess(x.at, z.at)
    BY ItemType, TextLessTransitive
  <2>2. QED
    BY <1>2, <2>1, ItemType DEF ByPartition
<1>3. ASSUME NEW x \in Items, NEW y \in Items, x # y
      PROVE  ByPartition(x, y) \/ ByPartition(y, x)
  <2>1. x.at # y.at => TextLess(x.at, y.at) \/ TextLess(y.at, x.at)
    BY ItemType, TextLessTotal
  <2>2. x.at = y.at => x.id # y.id
    BY <1>3, ItemType
  <2>3. QED
    BY <2>1, <2>2, ItemType DEF ByPartition
<1>4. QED
  BY <1>1, <1>2, <1>3

\* Every query has its strict and total order.
LEMMA BeforeOrder ==
  ASSUME query \in Queries
  PROVE  /\ \A x \in Items : ~Before(x, x)
         /\ \A x, y, z \in Items : Before(x, y) /\ Before(y, z) => Before(x, z)
         /\ \A x, y \in Items : x = y \/ Before(x, y) \/ Before(y, x)
<1>1. CASE query.of = "scan"
  <2>1. \A x, y \in Items : Before(x, y) <=> ByPartition(x, y)
    BY <1>1 DEF Before
  <2>2. QED
    BY <2>1, ByPartitionOrder
<1>2. CASE query.of = "index" /\ query.desc
  <2>1. \A x, y \in Items : Before(x, y) <=> ByTime(y, x)
    BY <1>2 DEF Before
  <2>2. QED
    BY <2>1, ByTimeOrder
<1>3. CASE query.of = "index" /\ ~query.desc
  <2>1. \A x, y \in Items : Before(x, y) <=> ByTime(x, y)
    BY <1>3 DEF Before
  <2>2. QED
    BY <2>1, ByTimeOrder
<1>4. QED
  BY <1>1, <1>2, <1>3 DEF Queries

--------------------------------------------------------------------------------
\* LedgerQuery: the inductive invariant

Selected(S) == {x \in S : InRange(x)}
UpTo(x, l) == x = l \/ Before(x, l)
Collected == {collected[i] : i \in 1..Len(collected)}

\* What was collected is in the table, was asked for and does not lie behind the last
\* item, once; without a last item there is nothing.
CollectedInv ==
  /\ \A i, j \in 1..Len(collected) : i < j => Before(collected[i], collected[j])
  /\ Collected \subseteq Selected(table)
  /\ last = {} => collected = <<>>
  /\ \A l \in last : \A i \in 1..Len(collected) : UpTo(collected[i], l)

\* What a read must see unless it goes back.
Known == base \cup seen

\* What is known has been collected as far as the loop has come; and every item of
\* base that was not shown has had as many of the known before it as the page skips.
Knows ==
  /\ \A x \in Selected(Known), l \in last : UpTo(x, l) => x \in Collected
  /\ phase = "answer" => Selected(Known) \subseteq Collected
  /\ \A x \in Selected(base) \ shown : Cardinality({y \in Selected(Known) : Before(y, x)}) >= offset

KnownInv ==
  /\ base \subseteq settled /\ seen \subseteq table
  /\ phase \in {"read", "answer"} /\ ~wentBack => Knows

\* Between pages nothing is kept.
RestInv ==
  /\ phase \in {"idle", "done"} => collected = <<>> /\ last = {}
  /\ phase = "idle" => offset = 0 /\ base = {} /\ shown = {} /\ seen = {} /\ ~wentBack

LedgerInv ==
  /\ LedgerTypeOK
  /\ IsFiniteSet(table) /\ IsFiniteSet(shown)
  /\ CollectedInv
  /\ KnownInv
  /\ RestInv
  /\ PagesMissNothing

--------------------------------------------------------------------------------
\* LedgerQuery: lemmas

\* A prefix of a sequence has no more items than places, and as many if it repeats
\* none.
LEMMA PrefixSize ==
  ASSUME NEW s \in Seq(Items), NEW a \in Nat, NEW b \in Nat, b <= Len(s)
  PROVE  LET S == {s[i] : i \in a + 1 .. b}
         IN  /\ IsFiniteSet(S) /\ Cardinality(S) \in Nat
             /\ a <= b => Cardinality(S) <= b - a
             /\ b <= a => Cardinality(S) = 0
             /\ (\A i, j \in a + 1 .. b : s[i] = s[j] => i = j) /\ a <= b =>
                  Cardinality(S) = b - a
<1> DEFINE I == a + 1 .. b
           S == {s[i] : i \in I}
           f == [i \in I |-> s[i]]
<1>1. IsFiniteSet(I) /\ Cardinality(I) = IF b <= a THEN 0 ELSE b - a
  <2>1. IsFiniteSet(I) /\ Cardinality(I) = IF a + 1 > b THEN 0 ELSE b - (a + 1) + 1
    BY FS_Interval
  <2>2. QED
    BY <2>1
<1>2. f \in Surjection(I, S)
  BY DEF Surjection
<1>3. /\ IsFiniteSet(S) /\ Cardinality(S) <= Cardinality(I)
      /\ Cardinality(S) = Cardinality(I) <=> f \in Injection(I, S)
  BY <1>1, <1>2, FS_Surjection
<1>4. (\A i, j \in I : s[i] = s[j] => i = j) => f \in Injection(I, S)
  BY DEF Injection, IsInjective
<1>5. Cardinality(S) \in Nat
  BY <1>3, FS_CardinalityType
<1> HIDE DEF S, I, f
<1>6. /\ a <= b => Cardinality(S) <= b - a
      /\ b <= a => Cardinality(S) = 0
      /\ (\A i, j \in I : s[i] = s[j] => i = j) /\ a <= b => Cardinality(S) = b - a
  BY <1>1, <1>3, <1>4, <1>5
<1>7. QED
  BY <1>3, <1>5, <1>6 DEF S, I

\* What holds of every state of a query.
LEMMA LedgerTypes ==
  ASSUME LedgerInv
  PROVE  /\ query \in Queries /\ table \subseteq Items /\ settled \subseteq table
         /\ IsFiniteSet(table) /\ base \subseteq table /\ Known \subseteq table
         /\ collected \in Seq(Items) /\ Len(collected) \in Nat
         /\ \A i \in 1..Len(collected) : collected[i] \in Items
         /\ offset \in Nat /\ Limit \in Nat \ {0}
         /\ \A l \in last : last = {l} /\ l \in Items
<1>1. /\ query \in Queries /\ table \subseteq Items /\ settled \subseteq table
      /\ collected \in Seq(Items) /\ offset \in Nat /\ Limit \in Nat \ {0}
      /\ \A l \in last : last = {l} /\ l \in Items
  BY LimitAssumption DEF LedgerInv, LedgerTypeOK
<1>2. base \subseteq table /\ Known \subseteq table
  BY <1>1 DEF LedgerInv, KnownInv, Known
<1>3. IsFiniteSet(table)
  BY DEF LedgerInv
<1>4. Len(collected) \in Nat /\ \A i \in 1..Len(collected) : collected[i] \in Items
  BY ONLY <1>1
<1>5. QED
  BY <1>1, <1>2, <1>3, <1>4

\* A time is read as it was: the order and the range of a query depend on nothing else.
LEMMA QueryStays ==
  ASSUME query' = query
  PROVE  /\ \A x, y : Before(x, y)' <=> Before(x, y)
         /\ \A x : InRange(x)' <=> InRange(x)
         /\ \A x, y : UpTo(x, y)' <=> UpTo(x, y)
BY DEF Before, InRange, UpTo

\* The items that lie up to the last one, or are ahead.
LEMMA AheadOrCollected ==
  ASSUME LedgerInv, Knows, NEW x \in Selected(Known), x \notin Ahead
  PROVE  x \in Collected
<1>1. x \in Items /\ x \in table /\ InRange(x)
  BY LedgerTypes DEF Selected
<1>2. PICK l \in last : ~Before(l, x)
  BY <1>1 DEF Ahead
<1>3. l \in Items
  BY <1>2, LedgerTypes
<1>4. UpTo(x, l)
  BY <1>1, <1>2, <1>3, LedgerTypes, BeforeOrder DEF UpTo
<1>5. QED
  BY <1>2, <1>4 DEF Knows

\* An item that was not shown is not collected before the page begins.
LEMMA BehindOffset ==
  ASSUME LedgerInv, Knows,
         NEW p \in 1..Len(collected), collected[p] \in Selected(base) \ shown
  PROVE  p > offset
<1> DEFINE x == collected[p]
           D == {y \in Selected(Known) : Before(y, x)}
           C == {collected[i] : i \in 0 + 1 .. p - 1}
<1>1. x \in Items /\ p \in Nat /\ p - 1 \in Nat /\ p <= Len(collected)
  BY LedgerTypes
<1>2. PICK l \in last : UpTo(x, l)
  BY <1>1, LedgerTypes DEF LedgerInv, CollectedInv
<1>3. D \subseteq C
  <2> SUFFICES ASSUME NEW y \in Selected(Known), Before(y, x)
               PROVE  y \in C
    OBVIOUS
  <2>1. y \in Items /\ l \in Items
    BY <1>2, LedgerTypes DEF Selected
  <2>2. UpTo(y, l)
    BY <1>1, <1>2, <2>1, LedgerTypes, BeforeOrder DEF UpTo
  <2>3. PICK j \in 1..Len(collected) : y = collected[j]
    BY <1>2, <2>2 DEF Knows, Collected
  <2>4. j # p
    BY <1>1, <2>3, LedgerTypes, BeforeOrder
  <2>5. ~(p < j)
    <3>1. p < j => Before(x, y)
      BY <2>3 DEF LedgerInv, CollectedInv
    <3>2. QED
      BY <1>1, <2>1, <3>1, LedgerTypes, BeforeOrder
  <2>6. j \in 0 + 1 .. p - 1
    BY <1>1, <2>4, <2>5, LedgerTypes
  <2>7. QED
    BY <2>3, <2>6
<1>4. IsFiniteSet(C) /\ Cardinality(C) <= p - 1 /\ Cardinality(C) \in Nat
  <2>1. 0 \in Nat /\ p - 1 \in Nat /\ p - 1 <= Len(collected) /\ 0 <= p - 1
    BY <1>1, LedgerTypes
  <2>2. IsFiniteSet(C) /\ Cardinality(C) <= (p - 1) - 0 /\ Cardinality(C) \in Nat
    BY <2>1, LedgerTypes, PrefixSize
  <2>3. QED
    BY <2>2, <1>1
<1>5. Cardinality(D) <= Cardinality(C) /\ Cardinality(D) \in Nat
  BY <1>3, <1>4, FS_Subset, FS_CardinalityType
<1>6. Cardinality(D) >= offset
  BY DEF Knows
<1> HIDE DEF D, C
<1>7. QED
  BY <1>1, <1>4, <1>5, <1>6, LedgerTypes

--------------------------------------------------------------------------------
\* LedgerQuery: the steps

\* A step beside the query.
LEMMA BesideStep ==
  ASSUME LedgerInv, LedgerTypeOK', IsFiniteSet(table'),
         table \subseteq table', settled \subseteq settled',
         UNCHANGED <<phase, query, offset, collected, last, base, shown, seen, wentBack>>
  PROVE  LedgerInv'
<1>1. /\ \A S : Selected(S)' = Selected(S)
      /\ Collected' = Collected /\ Known' = Known
      /\ \A x, y : UpTo(x, y)' <=> UpTo(x, y)
  BY QueryStays DEF Selected, Collected, Known
<1>2. RestInv' /\ IsFiniteSet(shown')
  BY DEF LedgerInv, RestInv
<1>3. CollectedInv'
  BY <1>1, QueryStays DEF LedgerInv, CollectedInv, Selected
<1>4. KnownInv'
  <2>1. Knows => Knows'
    <3>1. \A x : {y \in Selected(Known) : Before(y, x)}' = {y \in Selected(Known) : Before(y, x)}
      BY <1>1, QueryStays
    <3>2. QED
      BY <1>1, <3>1, QueryStays DEF Knows, Selected
  <2>2. QED
    BY <2>1 DEF LedgerInv, KnownInv
<1>5. PagesMissNothing'
  BY QueryStays DEF LedgerInv, PagesMissNothing
<1>6. QED
  BY <1>2, <1>3, <1>4, <1>5 DEF LedgerInv

\* The consumer saves an event.
LEMMA SaveStep ==
  ASSUME LedgerInv, NEW x \in Items, SaveEvent(x)
  PROVE  LedgerInv'
<1>1. LedgerTypeOK'
  BY DEF LedgerInv, LedgerTypeOK, SaveEvent
<1>2. IsFiniteSet(table')
  BY FS_AddElement DEF LedgerInv, SaveEvent
<1>3. QED
  BY <1>1, <1>2, BesideStep DEF SaveEvent

\* An item has settled.
LEMMA SettleStep ==
  ASSUME LedgerInv, NEW x \in Items, Settle(x)
  PROVE  LedgerInv'
<1>1. LedgerTypeOK'
  BY DEF LedgerInv, LedgerTypeOK, Settle
<1>2. IsFiniteSet(table')
  BY DEF LedgerInv, Settle
<1>3. QED
  BY <1>1, <1>2, BesideStep DEF Settle

\* A client begins: nothing has been read.
LEMMA BeginStep ==
  ASSUME LedgerInv, NEW q \in Queries, Begin(q)
  PROVE  LedgerInv'
<1>0. /\ collected = <<>> /\ last = {} /\ offset = 0 /\ shown = {} /\ seen = {}
      /\ UNCHANGED <<table, settled, offset, collected, last, shown, seen, wentBack>>
      /\ phase' = "read" /\ query' = q /\ base' = settled
  BY DEF Begin, LedgerInv, RestInv
<1>1. table \subseteq Items /\ settled \subseteq table /\ IsFiniteSet(table)
  BY LedgerTypes
<1>2. LedgerTypeOK'
  <2>1. Len(collected') = 0
    BY <1>0
  <2>2. 0 <= offset + Limit
    BY <1>0, LimitAssumption
  <2>3. QED
    BY <1>0, <1>1, <2>1, <2>2 DEF LedgerInv, LedgerTypeOK
<1>3. CollectedInv' /\ RestInv' /\ PagesMissNothing'
  BY <1>0 DEF CollectedInv, Collected, RestInv, PagesMissNothing
<1>4. KnownInv'
  <2>1. ASSUME NEW x
        PROVE  Cardinality({y \in Selected(Known) : Before(y, x)}') >= 0
    <3> DEFINE D == {y \in Selected(Known) : Before(y, x)}'
    <3>1. D \subseteq table
      BY <1>0, <1>1 DEF Selected, Known
    <3> HIDE DEF D
    <3>2. IsFiniteSet(D)
      BY <1>1, <3>1, FS_Subset
    <3>3. Cardinality(D) \in Nat
      BY <3>2, FS_CardinalityType
    <3>4. QED
      BY <3>3 DEF D
  <2>2. Knows'
    BY <1>0, <2>1 DEF Knows
  <2>3. QED
    BY <1>0, <2>2 DEF KnownInv
<1>5. QED
  BY <1>0, <1>1, <1>2, <1>3, <1>4 DEF LedgerInv

\* The loop evaluates the next item that it sees: it passes by nothing that is known,
\* or goes back.
LEMMA EvaluateStep ==
  ASSUME LedgerInv, NEW x \in Items, Evaluate(x)
  PROVE  LedgerInv'
<1>0. /\ phase = "read" /\ x \in Ahead /\ last' = {x}
      /\ UNCHANGED <<table, settled, phase, query, offset, base, shown, seen>>
      /\ PassBy({y \in Ahead : Before(y, x)})
      /\ collected' = IF InRange(x) THEN Append(collected, x) ELSE collected
      /\ x \in table /\ \A l \in last : Before(l, x)
  BY DEF Evaluate, Ahead
<1>1. /\ \A S : Selected(S)' = Selected(S)
      /\ \A y, z : Before(y, z)' <=> Before(y, z)
      /\ \A y, z : UpTo(y, z)' <=> UpTo(y, z)
      /\ \A y : InRange(y)' <=> InRange(y)
      /\ Known' = Known
  BY <1>0, QueryStays DEF Selected, Known
<1>2. /\ collected' \in Seq(Items) /\ Len(collected') \in Nat
      /\ Len(collected') = IF InRange(x) THEN Len(collected) + 1 ELSE Len(collected)
      /\ \A i \in 1..Len(collected) : collected'[i] = collected[i]
      /\ InRange(x) => collected'[Len(collected) + 1] = x
  <2>1. collected \in Seq(Items) /\ Len(collected) \in Nat
    BY LedgerTypes
  <2>2. QED
    BY ONLY <1>0, <2>1, x \in Items
<1>3. Collected' = IF InRange(x) THEN Collected \cup {x} ELSE Collected
  <2>1. CASE InRange(x)
    <3>1. 1..Len(collected') = (1..Len(collected)) \cup {Len(collected) + 1}
      BY <1>2, <2>1, LedgerTypes
    <3>2. QED
      BY <1>2, <2>1, <3>1 DEF Collected
  <2>2. CASE ~InRange(x)
    BY <1>0, <2>2 DEF Collected
  <2>3. QED
    BY <2>1, <2>2
<1>4. \A i \in 1..Len(collected) : Before(collected[i], x)
  <2> SUFFICES ASSUME NEW i \in 1..Len(collected)
               PROVE  Before(collected[i], x)
    OBVIOUS
  <2>1. last # {}
    BY LedgerTypes DEF LedgerInv, CollectedInv
  <2>2. PICK l \in last : UpTo(collected[i], l) /\ Before(l, x)
    BY <1>0, <2>1 DEF LedgerInv, CollectedInv
  <2>3. QED
    BY <2>2, LedgerTypes, BeforeOrder DEF UpTo
<1>5. LedgerTypeOK'
  <2>1. query.of = "index" => Len(collected') <= offset + Limit
    <3>1. query.of = "index" => ~(Len(collected) >= offset + Limit)
      BY DEF Evaluate, MayGoOn, Enough, LedgerInv, LedgerTypeOK, Queries
    <3>2. QED
      BY <1>2, <3>1, LedgerTypes
  <2>2. wentBack' \in BOOLEAN
    BY <1>0 DEF PassBy
  <2>3. QED
    BY <1>0, <1>2, <2>1, <2>2 DEF LedgerInv, LedgerTypeOK
<1>6. ASSUME NEW i \in 1..Len(collected'), NEW j \in 1..Len(collected'), i < j
      PROVE  Before(collected'[i], collected'[j])
  <2>1. i \in 1..Len(collected)
    BY <1>2, <1>6, LedgerTypes
  <2>2. CASE j \in 1..Len(collected)
    BY <1>2, <1>6, <2>1, <2>2 DEF LedgerInv, CollectedInv
  <2>3. CASE j \notin 1..Len(collected)
    <3>1. InRange(x) /\ j = Len(collected) + 1
      BY <1>2, <2>3, LedgerTypes
    <3>2. QED
      BY <1>2, <1>4, <2>1, <3>1
  <2>4. QED
    BY <2>2, <2>3
<1>7. CollectedInv'
  <2>1. Collected' \subseteq Selected(table)
    BY <1>0, <1>3 DEF LedgerInv, CollectedInv, Selected
  <2>2. \A i \in 1..Len(collected') : UpTo(collected'[i], x)
    <3> SUFFICES ASSUME NEW i \in 1..Len(collected')
                 PROVE  UpTo(collected'[i], x)
      OBVIOUS
    <3>1. CASE i \in 1..Len(collected)
      BY <1>2, <1>4, <3>1 DEF UpTo
    <3>2. CASE i \notin 1..Len(collected)
      <4>1. InRange(x) /\ i = Len(collected) + 1
        BY <1>2, <3>2, LedgerTypes
      <4>2. QED
        BY <1>2, <4>1 DEF UpTo
    <3>3. QED
      BY <3>1, <3>2
  <2>3. QED
    BY <1>0, <1>1, <1>6, <2>1, <2>2 DEF CollectedInv
<1>8. KnownInv'
  <2> SUFFICES ASSUME ~wentBack'
               PROVE  Knows'
    BY <1>0 DEF LedgerInv, KnownInv
  <2>0. /\ {y \in Ahead : Before(y, x)} \cap settled = {}
        /\ {y \in Ahead : Before(y, x)} \cap seen = {}
        /\ ~wentBack
    BY <1>0 DEF PassBy
  <2>1. Knows /\ base \subseteq settled
    BY <1>0, <2>0 DEF LedgerInv, KnownInv
  <2>2. \A y \in Selected(Known) : UpTo(y, x) => y \in Collected'
    <3> SUFFICES ASSUME NEW y \in Selected(Known), UpTo(y, x)
                 PROVE  y \in Collected'
      OBVIOUS
    <3>1. InRange(y) /\ y \in Items /\ (y \in settled \/ y \in seen)
      BY <2>1, LedgerTypes DEF Selected, Known
    <3>2. CASE y = x
      BY <1>3, <3>1, <3>2
    <3>3. CASE y # x /\ y \in Ahead
      <4>1. Before(y, x)
        BY <3>3 DEF UpTo
      <4>2. QED
        BY <2>0, <3>1, <3>3, <4>1
    <3>4. CASE y \notin Ahead
      BY <1>3, <2>1, <3>4, AheadOrCollected
    <3>5. QED
      BY <3>2, <3>3, <3>4
  <2>3. \A z : {y \in Selected(Known) : Before(y, z)}' = {y \in Selected(Known) : Before(y, z)}
    BY <1>1
  <2>4. QED
    BY <1>0, <1>1, <2>1, <2>2, <2>3 DEF Knows
<1>9. RestInv' /\ PagesMissNothing' /\ IsFiniteSet(table') /\ IsFiniteSet(shown')
  BY <1>0 DEF LedgerInv, RestInv, PagesMissNothing
<1>10. QED
  BY <1>5, <1>7, <1>8, <1>9 DEF LedgerInv

\* A call comes to the end: everything that is known has been collected, or the read
\* goes back.
LEMMA EndStep ==
  ASSUME LedgerInv, EndOfItems
  PROVE  LedgerInv'
<1>0. /\ phase = "read" /\ PassBy(Ahead) /\ phase' = "answer"
      /\ UNCHANGED <<table, settled, query, offset, collected, last, base, shown, seen>>
  BY DEF EndOfItems
<1>1. /\ \A S : Selected(S)' = Selected(S)
      /\ Collected' = Collected /\ Known' = Known
      /\ \A y, z : Before(y, z)' <=> Before(y, z)
      /\ \A y, z : UpTo(y, z)' <=> UpTo(y, z)
  BY <1>0, QueryStays DEF Selected, Collected, Known
<1>2. IsFiniteSet(table') /\ IsFiniteSet(shown') /\ RestInv' /\ PagesMissNothing'
  BY <1>0 DEF LedgerInv, RestInv, PagesMissNothing
<1>3. LedgerTypeOK'
  <2>1. wentBack' \in BOOLEAN
    BY <1>0 DEF PassBy
  <2>2. QED
    BY <1>0, <2>1 DEF LedgerInv, LedgerTypeOK
<1>4. CollectedInv'
  BY <1>0, <1>1 DEF LedgerInv, CollectedInv
<1>5. KnownInv'
  <2> SUFFICES ASSUME ~wentBack'
               PROVE  Knows'
    BY <1>0 DEF LedgerInv, KnownInv
  <2>0. Ahead \cap settled = {} /\ Ahead \cap seen = {} /\ ~wentBack
    BY <1>0 DEF PassBy
  <2>1. Knows /\ base \subseteq settled
    BY <1>0, <2>0 DEF LedgerInv, KnownInv
  <2>2. Selected(Known) \subseteq Collected
    <3> SUFFICES ASSUME NEW y \in Selected(Known)
                 PROVE  y \in Collected
      OBVIOUS
    <3>1. y \in settled \/ y \in seen
      BY <2>1 DEF Selected, Known
    <3>2. QED
      BY <2>0, <2>1, <3>1, AheadOrCollected
  <2>3. QED
    BY <1>0, <1>1, <2>1, <2>2 DEF Knows
<1>6. QED
  BY <1>2, <1>3, <1>4, <1>5 DEF LedgerInv

\* A call fails: the page is begun again.
LEMMA FailStep ==
  ASSUME LedgerInv, Fail
  PROVE  LedgerInv'
<1>0. /\ phase = "read" /\ collected' = <<>> /\ last' = {}
      /\ UNCHANGED <<table, settled, phase, query, offset, base, shown, seen, wentBack>>
  BY DEF Fail
<1>1. /\ \A S : Selected(S)' = Selected(S) /\ Known' = Known
      /\ \A y, z : Before(y, z)' <=> Before(y, z)
  BY <1>0, QueryStays DEF Selected, Known
<1>2. LedgerTypeOK'
  <2>1. Len(collected') = 0 /\ 0 <= offset + Limit
    BY <1>0, LedgerTypes
  <2>2. QED
    BY <1>0, <2>1 DEF LedgerInv, LedgerTypeOK
<1>3. CollectedInv' /\ RestInv' /\ PagesMissNothing' /\ IsFiniteSet(table') /\ IsFiniteSet(shown')
  BY <1>0 DEF LedgerInv, CollectedInv, Collected, RestInv, PagesMissNothing
<1>4. KnownInv'
  <2>1. Knows => Knows'
    BY <1>0, <1>1 DEF Knows
  <2>2. QED
    BY <1>0, <2>1 DEF LedgerInv, KnownInv
<1>5. QED
  BY <1>2, <1>3, <1>4 DEF LedgerInv

\* An item behind the items of a page that is not the last has all of them, and all
\* that were skipped, before it.
LEMMA PageBefore ==
  ASSUME LedgerInv, Knows, Enough,
         NEW x \in Selected(base) \ (shown \cup Page), NEW i \in 1 .. offset + Limit
  PROVE  Before(collected[i], x)
<1>1. /\ offset + Limit \in Nat /\ offset + Limit <= Len(collected) /\ i \in 1..Len(collected)
      /\ collected[i] \in Items /\ x \in Items /\ x \in Selected(Known)
  <2>1. offset + Limit \in Nat /\ offset + Limit <= Len(collected) /\ i \in 1..Len(collected)
    BY LedgerTypes DEF Enough
  <2>2. x \in base /\ base \subseteq Known /\ InRange(x)
    BY DEF Selected, Known
  <2>3. QED
    BY <2>1, <2>2, LedgerTypes DEF Selected
<1>2. CASE x \in Collected
  <2>1. PICK p \in 1..Len(collected) : x = collected[p]
    BY <1>2 DEF Collected
  <2>2. p > offset
    BY <2>1, BehindOffset
  <2>3. p \notin offset + 1 .. offset + Limit
    BY <2>1 DEF Page
  <2>4. i < p
    BY <1>1, <2>2, <2>3, LedgerTypes
  <2>5. QED
    BY <1>1, <2>1, <2>4 DEF LedgerInv, CollectedInv
<1>3. CASE x \notin Collected
  <2>1. PICK l \in last : UpTo(collected[i], l)
    <3>1. last # {}
      BY <1>1, LedgerTypes DEF LedgerInv, CollectedInv
    <3>2. QED
      BY <1>1, <3>1 DEF LedgerInv, CollectedInv
  <2>2. ~UpTo(x, l) /\ l \in Items
    BY <1>1, <1>3, <2>1, LedgerTypes DEF Knows
  <2>3. Before(l, x)
    BY <1>1, <2>2, LedgerTypes, BeforeOrder DEF UpTo
  <2>4. QED
    BY <1>1, <2>1, <2>2, <2>3, LedgerTypes, BeforeOrder DEF UpTo
<1>4. QED
  BY <1>2, <1>3

\* So it has as many as the next page will skip.
LEMMA NextPageKnows ==
  ASSUME LedgerInv, Knows, Enough,
         NEW x \in Selected(base) \ (shown \cup Page)
  PROVE  Cardinality({y \in Selected(Known \cup Collected) : Before(y, x)}) >= offset + Limit
<1> DEFINE n2 == offset + Limit
           C == {collected[i] : i \in 0 + 1 .. n2}
           D == {y \in Selected(Known \cup Collected) : Before(y, x)}
<1>1. n2 \in Nat /\ n2 <= Len(collected) /\ 0 <= n2
  BY LedgerTypes DEF Enough
<1>2. \A i, j \in 0 + 1 .. n2 : collected[i] = collected[j] => i = j
  <2> SUFFICES ASSUME NEW i \in 0 + 1 .. n2, NEW j \in 0 + 1 .. n2, i # j
               PROVE  collected[i] # collected[j]
    OBVIOUS
  <2>1. i \in 1..Len(collected) /\ j \in 1..Len(collected) /\ (i < j \/ j < i)
    BY <1>1, LedgerTypes
  <2>2. Before(collected[i], collected[j]) \/ Before(collected[j], collected[i])
    BY <2>1 DEF LedgerInv, CollectedInv
  <2>3. QED
    BY <2>1, <2>2, LedgerTypes, BeforeOrder
<1>3. C \subseteq D
  <2> SUFFICES ASSUME NEW i \in 0 + 1 .. n2
               PROVE  collected[i] \in D
    OBVIOUS
  <2>1. i \in 1..Len(collected) /\ i \in 1 .. offset + Limit
    BY <1>1, LedgerTypes
  <2>2. collected[i] \in Selected(Known \cup Collected)
    BY <2>1 DEF LedgerInv, CollectedInv, Collected, Selected
  <2>3. QED
    BY <2>1, <2>2, PageBefore
<1>4. Cardinality(C) = n2 - 0
  <2> HIDE DEF n2
  <2>1. 0 \in Nat
    OBVIOUS
  <2>2. QED
    BY <1>1, <1>2, <2>1, LedgerTypes, PrefixSize
<1>5. IsFiniteSet(D)
  <2>1. D \subseteq table
    BY LedgerTypes DEF Selected, LedgerInv, CollectedInv
  <2>2. QED
    BY <2>1, LedgerTypes, FS_Subset
<1>6. Cardinality(C) <= Cardinality(D) /\ Cardinality(D) \in Nat
  BY <1>3, <1>5, FS_Subset, FS_CardinalityType
<1> HIDE DEF C, D
<1>7. Cardinality(D) >= n2
  BY <1>1, <1>4, <1>6
<1>8. QED
  BY <1>7 DEF D

\* The client gets a page.
LEMMA AnswerStep ==
  ASSUME LedgerInv, AnswerPage
  PROVE  LedgerInv'
<1>0. /\ phase = "answer" \/ (phase = "read" /\ Enough)
      /\ shown' = shown \cup Page /\ offset' = offset + Limit /\ collected' = <<>> /\ last' = {}
      /\ phase' = IF Enough THEN "read" ELSE "done"
      /\ seen' = seen \cup Collected
      /\ UNCHANGED <<table, settled, query, base, wentBack>>
  BY DEF AnswerPage, Collected
<1>1. /\ \A S : Selected(S)' = Selected(S) /\ Known' = Known \cup Collected
      /\ \A y, z : Before(y, z)' <=> Before(y, z)
      /\ \A y : InRange(y)' <=> InRange(y)
  BY <1>0, QueryStays DEF Selected, Known
<1> DEFINE b == IF Enough THEN offset + Limit ELSE Len(collected)
<1>2. b \in Nat /\ b <= Len(collected) /\ b <= offset + Limit
  BY LedgerTypes DEF Enough
<1>3. /\ IsFiniteSet(Page) /\ Cardinality(Page) \in Nat /\ Cardinality(Page) <= Limit
  <2>1. Page = {collected[i] : i \in offset + 1 .. b}
    BY DEF Page
  <2> HIDE DEF b
  <2>2. /\ IsFiniteSet(Page) /\ Cardinality(Page) \in Nat
        /\ offset <= b => Cardinality(Page) <= b - offset
        /\ b <= offset => Cardinality(Page) = 0
    BY <1>2, <2>1, LedgerTypes, PrefixSize
  <2>3. QED
    BY <1>2, <2>2, LedgerTypes
<1>4. IsFiniteSet(shown') /\ Cardinality(shown') <= offset'
  <2>1. /\ IsFiniteSet(shown) /\ Cardinality(shown) \in Nat /\ Cardinality(shown) <= offset
    BY FS_CardinalityType DEF LedgerInv, LedgerTypeOK
  <2>2. /\ IsFiniteSet(shown \cup Page)
        /\ Cardinality(shown \cup Page)
             = Cardinality(shown) + Cardinality(Page) - Cardinality(shown \cap Page)
    BY <1>3, <2>1, FS_Union
  <2>3. Cardinality(shown \cap Page) \in Nat
    BY <1>3, FS_Intersection, FS_CardinalityType
  <2>4. QED
    BY <1>0, <1>3, <2>1, <2>2, <2>3, LedgerTypes
<1>5. Page \subseteq Items /\ Collected \subseteq Items
  BY <1>2, LedgerTypes DEF Page, Collected
<1>6. LedgerTypeOK'
  <2>1. Len(collected') = 0 /\ 0 <= offset' + Limit /\ offset' \in Nat
    BY <1>0, LedgerTypes
  <2>2. QED
    BY <1>0, <1>4, <1>5, <2>1 DEF LedgerInv, LedgerTypeOK
<1>7. CollectedInv' /\ RestInv' /\ IsFiniteSet(table')
  BY <1>0 DEF LedgerInv, CollectedInv, Collected, RestInv
<1>8. ~wentBack' => Knows
  BY <1>0 DEF LedgerInv, KnownInv
<1>9. KnownInv'
  <2>1. base' \subseteq settled' /\ seen' \subseteq table'
    BY <1>0 DEF LedgerInv, KnownInv, CollectedInv, Selected
  <2>2. ASSUME Enough, ~wentBack'
        PROVE  Knows'
    <3>1. \A x \in Selected(base) \ (shown \cup Page) :
            Cardinality({y \in Selected(Known \cup Collected) : Before(y, x)}) >= offset + Limit
      BY <1>8, <2>2, NextPageKnows
    <3>2. \A x : {y \in Selected(Known) : Before(y, x)}'
                   = {y \in Selected(Known \cup Collected) : Before(y, x)}
      BY <1>1
    <3>3. QED
      BY <1>0, <1>1, <2>2, <3>1, <3>2 DEF Knows
  <2>3. QED
    BY <1>0, <2>1, <2>2 DEF KnownInv
<1>10. PagesMissNothing'
  <2> SUFFICES ASSUME ~Enough, ~wentBack', NEW x \in base, InRange(x)
               PROVE  x \in shown \cup Page
    BY <1>0, <1>1 DEF PagesMissNothing
  <2>1. x \in Selected(Known) /\ x \in Selected(base)
    BY DEF Known, Selected
  <2>2. PICK p \in 1..Len(collected) : x = collected[p]
    BY <1>0, <1>8, <2>1 DEF Knows, Collected
  <2>3. CASE x \notin shown
    <3>1. p > offset
      BY <1>8, <2>1, <2>2, <2>3, BehindOffset
    <3>2. p \in offset + 1 .. b
      BY <2>2, <3>1, LedgerTypes
    <3>3. QED
      BY <2>2, <3>2 DEF Page
  <2>4. QED
    BY <2>3
<1>11. QED
  BY <1>4, <1>6, <1>7, <1>9, <1>10 DEF LedgerInv

\* The client starts over.
LEMMA ForgetStep ==
  ASSUME LedgerInv, Forget
  PROVE  LedgerInv'
<1>1. /\ phase' = "idle" /\ offset' = 0 /\ collected' = <<>> /\ last' = {}
      /\ base' = {} /\ shown' = {} /\ seen' = {} /\ wentBack' = FALSE
      /\ UNCHANGED <<table, settled, query>>
  BY DEF Forget
<1>2. LedgerTypeOK'
  <2>1. Len(<<>>) = 0 /\ Cardinality({}) = 0 /\ 0 <= 0 + Limit
    BY LedgerTypes, FS_EmptySet
  <2>2. wentBack' \in BOOLEAN
    BY <1>1
  <2>3. QED
    BY <1>1, <2>1, <2>2 DEF LedgerInv, LedgerTypeOK
<1>3. IsFiniteSet(table') /\ IsFiniteSet(shown')
  BY <1>1, FS_EmptySet DEF LedgerInv
<1>4. CollectedInv' /\ KnownInv' /\ RestInv' /\ PagesMissNothing'
  BY <1>1 DEF CollectedInv, Collected, KnownInv, RestInv, PagesMissNothing
<1>5. QED
  BY <1>2, <1>3, <1>4 DEF LedgerInv

\* Every step keeps the invariant.
LEMMA LedgerStep == LedgerInv /\ [LedgerNext]_ledgerVars => LedgerInv'
<1> SUFFICES ASSUME LedgerInv, [LedgerNext]_ledgerVars
             PROVE  LedgerInv'
  OBVIOUS
<1>1. ASSUME NEW x \in Items, SaveEvent(x) \/ Settle(x) \/ Evaluate(x)
      PROVE  LedgerInv'
  BY <1>1, SaveStep, SettleStep, EvaluateStep
<1>2. ASSUME NEW q \in Queries, Begin(q)
      PROVE  LedgerInv'
  BY <1>2, BeginStep
<1>3. CASE EndOfItems
  BY <1>3, EndStep
<1>4. CASE Fail
  BY <1>4, FailStep
<1>5. CASE AnswerPage
  BY <1>5, AnswerStep
<1>6. CASE Forget
  BY <1>6, ForgetStep
<1>7. CASE UNCHANGED ledgerVars
  <2>1. LedgerTypeOK'
    BY <1>7 DEF ledgerVars, LedgerInv, LedgerTypeOK
  <2>2. QED
    BY <1>7, <2>1, BesideStep DEF ledgerVars, LedgerInv
<1>8. QED
  BY <1>1, <1>2, <1>3, <1>4, <1>5, <1>6, <1>7 DEF LedgerNext

--------------------------------------------------------------------------------
\* LedgerQuery: theorems

\* The invariant holds in every state of the ledger and its client.
THEOREM LedgerInvariance == LedgerSpec => []LedgerInv
<1>1. LedgerInit => LedgerInv
  <2> SUFFICES ASSUME LedgerInit
               PROVE  LedgerInv
    OBVIOUS
  <2>1. Len(<<>>) = 0 /\ Cardinality({}) = 0 /\ IsFiniteSet({}) /\ 0 <= 0 + Limit
    BY LimitAssumption, FS_EmptySet
  <2>2. query \in Queries
    BY DEF LedgerInit, Queries
  <2>3. wentBack \in BOOLEAN
    BY DEF LedgerInit
  <2>4. LedgerTypeOK
    BY <2>1, <2>2, <2>3 DEF LedgerInit, LedgerTypeOK
  <2>5. QED
    BY <2>1, <2>4
       DEF LedgerInit, LedgerInv, CollectedInv, Collected, KnownInv, RestInv, PagesMissNothing
<1>2. QED
  BY <1>1, LedgerStep, PTL DEF LedgerSpec

\* Every variable keeps its type; a Query has no more than the loop needs, and the
\* pages show no more than they were asked for.
THEOREM LedgerTypeCorrect == LedgerSpec => []LedgerTypeOK
<1>1. LedgerInv => LedgerTypeOK
  BY DEF LedgerInv
<1>2. QED
  BY LedgerInvariance, <1>1, PTL

\* The calls of a page repeat nothing, and those of an index keep to its order.
THEOREM NoItemTwice == LedgerSpec => []PageInOrder
<1>1. LedgerInv => PageInOrder
  <2> SUFFICES ASSUME LedgerInv, NEW i \in 1..Len(collected), NEW j \in 1..Len(collected), i < j
               PROVE  /\ collected[i] # collected[j]
                      /\ query.of = "index" =>
                           IF query.desc THEN ByTime(collected[j], collected[i])
                                         ELSE ByTime(collected[i], collected[j])
    BY DEF PageInOrder
  <2>1. Before(collected[i], collected[j])
    BY DEF LedgerInv, CollectedInv
  <2>2. QED
    BY <2>1, LedgerTypes, BeforeOrder DEF Before
<1>2. QED
  BY LedgerInvariance, <1>1, PTL

\* Pages by offset show everything that had settled when the client began, however
\* much is saved meanwhile, unless a read goes back on an earlier page.
THEOREM NothingPassedBy == LedgerSpec => []PagesMissNothing
<1>1. LedgerInv => PagesMissNothing
  BY DEF LedgerInv
<1>2. QED
  BY LedgerInvariance, <1>1, PTL

\* What a bound leaves out although it lies ahead in time: a whole second, the
\* fractions of that second; a tenth, its hundredths.
Hides(g, t) ==
  /\ Second(t) = Second(g)
  /\ ~Whole(t)
  /\ Whole(g) \/ (Tenth(t) = Tenth(g) /\ Hundredth(g) = 0 /\ Hundredth(t) # 0)

\* Texts are in the order of time but for that.
LEMMA TextIsTime ==
  ASSUME NEW g \in Nat, NEW t \in Nat, t >= g
  PROVE  TextLess(t, g) <=> Hides(g, t)
<1>1. /\ Second(t) \in Nat /\ Tenth(t) \in 0..9 /\ Hundredth(t) \in 0..9
      /\ Second(g) \in Nat /\ Tenth(g) \in 0..9 /\ Hundredth(g) \in 0..9
      /\ t = 100 * (Second(t) - 1) + 10 * Tenth(t) + Hundredth(t)
      /\ g = 100 * (Second(g) - 1) + 10 * Tenth(g) + Hundredth(g)
  BY TextForm DEF Second, Tenth, Hundredth
<1>2. TextLess(g, t) => ~TextLess(t, g)
  BY TextLessTransitive, TextLessIrreflexive
<1>3. CASE Hides(g, t)
  <2>1. TextLess(t, g)
    BY <1>1, <1>3, TextLessWhen DEF Hides, Whole
  <2>2. QED
    BY <1>3, <2>1
<1>4. CASE ~Hides(g, t)
  <2>1. CASE t = g
    BY <1>4, <2>1, TextLessIrreflexive
  <2>2. CASE t # g
    <3>1. \/ Second(g) < Second(t)
          \/ Second(g) = Second(t) /\ Tenth(g) < Tenth(t)
          \/ Second(g) = Second(t) /\ Tenth(g) = Tenth(t) /\ Hundredth(g) < Hundredth(t)
      BY <1>1, <2>2
    <3>2. TextLess(g, t)
      BY <1>1, <1>4, <3>1, TextLessWhen DEF Hides, Whole
    <3>3. QED
      BY <1>2, <1>4, <3>2
  <2>3. QED
    BY <2>1, <2>2
<1>5. QED
  BY <1>3, <1>4

\* A client that asks for the events from a time on, and none of whose reads goes back,
\* gets all that had settled, but for those that its bound hides.
THEOREM GteUpToHidden ==
  LedgerSpec =>
    [](phase = "done" /\ ~wentBack /\ query.lte = None =>
         \A x \in base : x.at >= query.gte /\ ~(query.gte # None /\ Hides(query.gte, x.at)) =>
           x \in shown)
<1>1. LedgerInv =>
        (phase = "done" /\ ~wentBack /\ query.lte = None =>
           \A x \in base : x.at >= query.gte /\ ~(query.gte # None /\ Hides(query.gte, x.at)) =>
             x \in shown)
  <2> SUFFICES ASSUME LedgerInv, phase = "done", ~wentBack, query.lte = None, NEW x \in base,
                      x.at >= query.gte, ~(query.gte # None /\ Hides(query.gte, x.at))
               PROVE  x \in shown
    OBVIOUS
  <2>1. x \in Items /\ query.gte \in Nat
    BY LedgerTypes, TimesAssumption DEF LedgerInv, LedgerTypeOK, Queries, None
  <2>2. InRange(x)
    BY <2>1, ItemType, TextIsTime DEF InRange
  <2>3. QED
    BY <2>2 DEF LedgerInv, PagesMissNothing
<1>2. QED
  BY LedgerInvariance, <1>1, PTL

================================================================================
