----------------------------- MODULE RouteMatching -----------------------------
(***************************************************************************)
(* The road distance of EndBooking and the route of GET /bookings/{id}/    *)
(* route: the points of a track are cut into chunks that overlap by one    *)
(* point, Mapbox is asked about each, and a chunk without an answer counts *)
(* as the straight lines between its points.  Requests share nothing but   *)
(* the track, which uploads extend meanwhile, so one is followed at a time.*)
(*                                                                         *)
(* The points of a request are numbered from 0 in the order of their       *)
(* recording; leg i leads from point i to point i + 1.                     *)
(***************************************************************************)
EXTENDS Naturals, Sequences

CONSTANTS W,            \* maxWaypoints
          MaxPoints,    \* bound: points of the track
          MaxMatchings  \* bound: matchings of one response

ASSUME WAssumption == W \in Nat /\ W >= 2
ASSUME BoundsAssumption == MaxPoints \in Nat \ {0} /\ MaxMatchings \in Nat

VARIABLES token,  \* MAPBOX_ACCESS_TOKEN is set
          track,  \* rows of gps_track_points
          pc,     \* "idle", "chunks" in the loop, "ready" to answer
          job,    \* "distance" (of EndBooking) or "route"
          n,      \* points it read
          start,  \* first point of the next chunk
          lines,  \* its result: first and last point of each line
          lost,   \* history: legs a response of Mapbox left out
          asked   \* history: points of the last chunk

vars == <<token, track, pc, job, n, start, lines, lost, asked>>

Points == 0 .. MaxPoints - 1

\* Every line ends at a point the request read.
TypeOK ==
  /\ token \in BOOLEAN
  /\ track \in 0..MaxPoints
  /\ pc \in {"idle", "chunks", "ready"}
  /\ job \in {"distance", "route"}
  /\ n \in 0..MaxPoints
  /\ start \in 0 .. MaxPoints + W
  /\ lines \in Seq(Points \X Points)
  /\ lost \subseteq Points
  /\ asked \in Nat
  /\ \A i \in 1..Len(lines) : lines[i][2] < n

Init ==
  /\ token \in BOOLEAN
  /\ track = 0
  /\ pc = "idle"
  /\ job = "route"
  /\ n = 0
  /\ start = 0
  /\ lines = <<>>
  /\ lost = {}
  /\ asked = 0

--------------------------------------------------------------------------------
\* Lines

\* Each line starts where those before it have ended, or after.
InOrder(s) == \A i, j \in 1..Len(s) : i < j => s[i][2] <= s[j][1]

\* What a response can hold: lines along the points a to b, in their order.
Matchings(a, b) ==
  {m \in UNION {[1..k -> (a..b) \X (a..b)] : k \in 0..MaxMatchings} :
     InOrder(m) /\ \A i \in 1..Len(m) : m[i][1] < m[i][2]}

Covers(s, leg) == \E i \in 1..Len(s) : s[i][1] <= leg /\ leg < s[i][2]

--------------------------------------------------------------------------------
\* The track

\* One INSERT of AddTrackPoints.
AddPoint ==
  /\ track < MaxPoints
  /\ track' = track + 1
  /\ UNCHANGED <<token, pc, job, n, start, lines, lost, asked>>

--------------------------------------------------------------------------------
\* A request

\* GetTrackPoints reads the track in one statement.  An end whose read fails goes
\* on without points; fewer than two have no legs, and a route without a token
\* stays empty.
ReadTrack(j) ==
  /\ pc = "idle"
  /\ job' = j
  /\ \/ n' = track
     \/ j = "distance" /\ n' = 0
  /\ pc' = IF n' >= 2 /\ (j = "distance" \/ token) THEN "chunks" ELSE "ready"
  /\ start' = 0
  /\ UNCHANGED <<token, track, lines, lost, asked>>

\* The chunk is points[start:end].
ChunkEnd == IF start + W > n THEN n ELSE start + W

\* Mutants of NextStart: the chunks do not share a point; they share two.
NextStartApart == start + W
NextStartBack == start + W - 2

NextStart == start + W - 1

\* A response with code "Ok": what it left out is missing from the result.
\* MatchRoute takes no matchings for an error, CalculateRoadDistance for zero metres.
Match(m) ==
  /\ token
  /\ m # <<>> \/ job = "distance"
  /\ lines' = lines \o m
  /\ lost' = lost \cup {leg \in start .. ChunkEnd - 2 : ~Covers(m, leg)}

\* Mutant of FallBack: its line runs to the end of the chunk, which is exclusive.
FallBackLong ==
  /\ lines' = lines \o <<<<start, ChunkEnd>>>>
  /\ UNCHANGED lost

\* A request that failed, another status or code: haversineChain and rawLine.
FallBack ==
  /\ lines' = lines \o <<<<start, ChunkEnd - 1>>>>
  /\ UNCHANGED lost

\* One turn of the loop, in CalculateRoadDistance as in MatchRoute.
MatchChunk ==
  /\ pc = "chunks"
  /\ start < n - 1
  /\ FallBack \/ \E m \in Matchings(start, ChunkEnd - 1) : Match(m)
  /\ start' = NextStart
  /\ asked' = ChunkEnd - start
  /\ UNCHANGED <<token, track, pc, job, n>>

EndLoop ==
  /\ pc = "chunks"
  /\ start >= n - 1
  /\ pc' = "ready"
  /\ UNCHANGED <<token, track, job, n, start, lines, lost, asked>>

\* The metres go to the transaction of EndBooking, the lines to the client.
Answer ==
  /\ pc = "ready"
  /\ pc' = "idle"
  /\ lines' = <<>>
  /\ lost' = {}
  /\ n' = 0
  /\ start' = 0
  /\ UNCHANGED <<token, track, job, asked>>

Next ==
  \/ AddPoint \/ MatchChunk \/ EndLoop \/ Answer
  \/ \E j \in {"distance", "route"} : ReadTrack(j)

Spec == Init /\ [][Next]_vars

--------------------------------------------------------------------------------
\* Properties

\* No leg is measured or drawn twice, and the lines run along the track, however
\* its chunks were answered (map_matching.go:52-69, 158-167).
LinesInOrder == InOrder(lines)

\* A leg that is missing from a result is one that Mapbox left out of a response
\* for its chunk: neither the seams of the chunks nor a failure lose any
\* (map_matching.go:51-69, 158-167).
GapsAreMapboxs ==
  pc = "ready" /\ n >= 2 /\ (job = "distance" \/ token) =>
    \A leg \in 0 .. n - 2 : Covers(lines, leg) \/ leg \in lost

\* Mapbox is asked about at least two points and at most maxWaypoints, the last
\* chunk included (map_matching.go:18, 52-57).
ChunksFit == asked # 0 => asked \in 2..W
================================================================================
