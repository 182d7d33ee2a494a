---------------------------- MODULE MissionProofs ----------------------------
(***************************************************************************)
(* Proofs about the mission the host loop drives, on top of                *)
(* AgentHostProofs: what a log looks like, where every call is, how the    *)
(* plan of a resume or a replay follows the recording, and from these the  *)
(* order of the waves, what a finished run guarantees, what a replay       *)
(* reproduces and the promise of the mission.                              *)
(***************************************************************************)
EXTENDS AgentHostProofs

N == Len(AgentList)

\* The log l is the beginning of the log r.
Prefix(l, r) == Len(l) <= Len(r) /\ \A i \in 1..Len(l) : l[i] = r[i]

-----------------------------------------------------------------------------
(***************************************************************************)
(* The shape of a log.  The first wave stands in a fixed place; after it   *)
(* come blocks of injected events, each closed by the requests its answer  *)
(* asks for and by the mark of the settled window.  Every condition looks  *)
(* back only: a prefix of a log (a crash) has the shape of a log.          *)
(***************************************************************************)
\* The whole first wave is answered within the first n events of l.
AllReported(l, n) ==
  \A k \in 1..N : \E j \in Responses(l) : j <= n /\ l[j].cause = 2 + k

\* What the behaviors request when the response at c is processed.
Wave(l, c) ==
  IF l[c].worker \in Agents
  THEN IF AllReported(l, c) THEN AfterLastReport ELSE <<>>
  ELSE IF l[c].worker = Gate THEN SynthesisWave ELSE <<>>

RequestAt(l, i, w, cause) ==
  l[i] = Event("agent.requested", w, cause, l[i].ver, TRUE, 0)

\* What may stand at i > 3 + N, by what stands before it.
InBlock(l, i) ==
  /\ l[i].type \in InjectedTypes /\ l[i].cause # 1 /\ l[i].ver = 0
  /\ l[i - 1].type \in {"runtime.idle", "finding.recorded"}
AskedBy(l, i) ==
  /\ l[i - 1].type = "agent.responded"
  /\ Wave(l, i - 1) = <<l[i].worker>>
  /\ RequestAt(l, i, l[i].worker, i - 1)
Settled(l, i) ==
  /\ l[i] = Idle
  /\ \/ l[i - 1].type \in {"finding.recorded", "agent.requested"}
     \/ l[i - 1].type = "agent.responded" /\ Wave(l, i - 1) = <<>>
Finished(l, i) == l[i].type = "mission.completed" /\ l[i - 1] = Idle

WellPlaced(l, i) ==
  /\ i = 1 => l[i] = Started
  /\ i = 2 => l[i] = Fact
  /\ i \in 3..(2 + N) => RequestAt(l, i, AgentList[i - 2], 1)
  /\ i = 3 + N => l[i] = Idle
  /\ i > 3 + N => InBlock(l, i) \/ AskedBy(l, i) \/ Settled(l, i) \/ Finished(l, i)

Shape(l) == \A i \in 1..Len(l) : WellPlaced(l, i)

\* The agents are numbered without repetition, and are not the gate or the synthesizer.
LEMMA MissionFacts ==
  /\ N \in Nat /\ N >= 1
  /\ \A k \in 1..N : AgentList[k] \in Agents
  /\ \A w \in Agents : \E k \in 1..N : w = AgentList[k]
  /\ \A j, k \in 1..N : AgentList[j] = AgentList[k] => j = k
  /\ Gate \notin Agents /\ Synthesizer \notin Agents /\ Gate # Synthesizer
<1>1. AgentList \in Seq(STRING) /\ AgentList # <<>>
  BY AgentsAssumption
<1>2. N \in Nat \ {0}
  BY <1>1, EmptySeq DEF N
<1>3. /\ \A j, k \in 1..N : AgentList[j] = AgentList[k] => j = k
      /\ Gate \notin Agents /\ Synthesizer \notin Agents
  BY AgentsAssumption DEF N
<1>4. Gate # Synthesizer
  BY DEF Gate, Synthesizer
<1> QED
  BY <1>2, <1>3, <1>4 DEF Agents, N

\* A response asks for nothing, for the gate or for the synthesizer.
LEMMA WaveCases ==
  ASSUME NEW l, NEW c
  PROVE  \/ Wave(l, c) = <<>>
         \/ /\ HasGate /\ Wave(l, c) = <<Gate>>
            /\ l[c].worker \in Agents /\ AllReported(l, c)
         \/ /\ HasSynthesis /\ Wave(l, c) = <<Synthesizer>>
            /\ \/ ~HasGate /\ l[c].worker \in Agents /\ AllReported(l, c)
               \/ l[c].worker = Gate
BY DEF Wave, AfterLastReport, SynthesisWave

\* Sequences of one element and of none.
LEMMA OneOrNone ==
  /\ \A w : <<w>> # <<>> /\ Len(<<w>>) = 1 /\ <<w>>[1] = w
  /\ Len(<<>>) = 0
OBVIOUS

\* What a prefix shows of the requests and answers of the whole.
LEMMA PrefixEvents ==
  ASSUME NEW l \in Seq(Events), NEW r \in Seq(Events), Prefix(l, r)
  PROVE  /\ Len(l) \in Nat /\ Len(r) \in Nat /\ Len(l) <= Len(r)
         /\ \A i \in 1..Len(l) : i \in 1..Len(r) /\ l[i] = r[i]
         /\ \A i \in 1..Len(l) : /\ i \in Requests(l) <=> i \in Requests(r)
                                 /\ i \in Responses(l) <=> i \in Responses(r)
                                 /\ i \in Findings(l) <=> i \in Findings(r)
         /\ Requests(l) \subseteq Requests(r) /\ Responses(l) \subseteq Responses(r)
         /\ Findings(l) \subseteq Findings(r)
         /\ Requests(l) \subseteq 1..Len(l) /\ Responses(l) \subseteq 1..Len(l)
         /\ Findings(l) \subseteq 1..Len(l)
<1>1. Len(l) \in Nat /\ Len(r) \in Nat /\ Len(l) <= Len(r)
  BY LenProperties DEF Prefix
<1>2. \A i \in 1..Len(l) : i \in 1..Len(r) /\ l[i] = r[i]
  BY <1>1 DEF Prefix
<1> QED
  BY <1>1, <1>2 DEF Requests, Responses, Findings

\* What a response asks for is decided by what stands before it.
LEMMA WavePrefix ==
  ASSUME NEW l \in Seq(Events), NEW r \in Seq(Events), Prefix(l, r),
         NEW c \in 1..Len(l)
  PROVE  Wave(l, c) = Wave(r, c) /\ (AllReported(l, c) <=> AllReported(r, c))
<1>1. /\ Len(l) \in Nat /\ Len(r) \in Nat /\ Len(l) <= Len(r)
      /\ \A i \in 1..Len(l) : l[i] = r[i]
      /\ \A i \in 1..Len(l) : i \in Responses(l) <=> i \in Responses(r)
      /\ Responses(l) \subseteq 1..Len(l)
  BY PrefixEvents
<1>2. \A i \in Responses(r) : i <= c => i \in 1..Len(l)
  BY <1>1 DEF Responses
<1>3. AllReported(l, c) <=> AllReported(r, c)
  BY <1>1, <1>2 DEF AllReported
<1> QED
  BY <1>1, <1>3 DEF Wave

\* So is where an event may stand,
LEMMA PlacedPrefix ==
  ASSUME NEW l \in Seq(Events), NEW r \in Seq(Events), Prefix(l, r),
         NEW i \in 1..Len(l)
  PROVE  WellPlaced(l, i) <=> WellPlaced(r, i)
<1>1. Len(l) \in Nat /\ \A j \in 1..Len(l) : l[j] = r[j]
  BY PrefixEvents
<1>2. CASE i > 3 + N
  <2>1. i - 1 \in 1..Len(l)
    BY <1>1, <1>2, MissionFacts
  <2>2. l[i] = r[i] /\ l[i - 1] = r[i - 1] /\ Wave(l, i - 1) = Wave(r, i - 1)
    BY <1>1, <2>1, WavePrefix
  <2> QED
    BY <1>2, <2>2, MissionFacts
       DEF WellPlaced, InBlock, AskedBy, Settled, Finished, RequestAt
<1>3. CASE ~(i > 3 + N)
  BY <1>1, <1>3 DEF WellPlaced, RequestAt
<1> QED
  BY <1>2, <1>3

\* and a prefix of a log has the shape of a log.
LEMMA ShapePrefix ==
  ASSUME NEW l \in Seq(Events), NEW r \in Seq(Events), Prefix(l, r), Shape(r)
  PROVE  Shape(l)
BY PlacedPrefix, PrefixEvents DEF Shape

\* Three ways to get a prefix: an event appended,
LEMMA PrefixOfAppend ==
  ASSUME NEW l \in Seq(Events), NEW e \in Events
  PROVE  Prefix(l, Append(l, e))
BY AppendLog DEF Prefix

\* a wave of requests appended,
LEMMA PrefixOfWave ==
  ASSUME NEW l \in Seq(Events), NEW t \in Seq(Events)
  PROVE  Prefix(l, l \o t)
<1>1. /\ Len(l) \in Nat /\ Len(t) \in Nat /\ Len(l \o t) = Len(l) + Len(t)
      /\ \A i \in 1..(Len(l) + Len(t)) :
           (l \o t)[i] = IF i <= Len(l) THEN l[i] ELSE t[i - Len(l)]
  BY ConcatProperties, LenProperties
<1> QED
  BY <1>1 DEF Prefix

\* and the rest cut off by a crash.
LEMMA PrefixOfCut ==
  ASSUME NEW l \in Seq(Events), NEW n \in 0..Len(l)
  PROVE  Prefix(SubSeq(l, 1, n), l)
<1>1. Len(l) \in Nat
  BY LenProperties
<1> QED
  BY <1>1, PrefixLog DEF Prefix

\* Growing a log by one event.
LEMMA ShapeAppend ==
  ASSUME NEW l \in Seq(Events), NEW e \in Events, Shape(l),
         WellPlaced(Append(l, e), Len(l) + 1)
  PROVE  Shape(Append(l, e))
<1> DEFINE m == Append(l, e)
<1>1. m \in Seq(Events) /\ Len(l) \in Nat /\ Len(m) = Len(l) + 1 /\ Prefix(l, m)
  BY AppendLog, PrefixOfAppend
<1> HIDE DEF m
<1>2. \A i \in 1..Len(l) : WellPlaced(m, i)
  BY <1>1, PlacedPrefix DEF Shape
<1>3. \A i \in 1..Len(m) : i \in 1..Len(l) \/ i = Len(l) + 1
  BY <1>1
<1> QED
  BY <1>1, <1>2, <1>3 DEF Shape, m

\* Where each kind of event stands.
LEMMA ShapeRead ==
  ASSUME NEW l \in Seq(Events), Shape(l), NEW i \in 1..Len(l)
  PROVE  /\ i \in Nat /\ l[i] \in Events
         /\ i = 1 => l[i].type = "mission.started"
         /\ i = 2 => l[i].type = "finding.recorded" /\ l[i].cause = 1
         /\ i \in 3..(2 + N) => /\ i \in Requests(l) /\ l[i].worker = AgentList[i - 2]
                                /\ l[i].cause = 1
         /\ i = 3 + N => l[i] = Idle
         /\ i > 3 + N => i - 1 \in 1..Len(l)
         /\ i \in Requests(l) => i \in 3..(2 + N) \/ (i > 3 + N /\ AskedBy(l, i))
         /\ i \in Responses(l) => i > 3 + N /\ InBlock(l, i)
         /\ i \in Findings(l) => i = 2 \/ (i > 3 + N /\ InBlock(l, i))
         /\ l[i].type = "runtime.idle" => i >= 3 + N /\ l[i] = Idle
         /\ l[i].type = "mission.completed" => i > 3 + N /\ Finished(l, i)
<1>1. i \in Nat /\ l[i] \in Events /\ WellPlaced(l, i) /\ N \in Nat /\ N >= 1
  BY ElementOfSeq, LenProperties, MissionFacts DEF Shape
<1>2. /\ Started.type = "mission.started" /\ Fact.type = "finding.recorded"
      /\ Fact.cause = 1 /\ Idle.type = "runtime.idle"
  BY DEF Started, Fact, Idle, Event
<1>3. i = 1 \/ i = 2 \/ i \in 3..(2 + N) \/ i = 3 + N \/ i > 3 + N
  BY <1>1
<1>4. i \in Requests(l) <=> l[i].type = "agent.requested"
  BY DEF Requests
<1>5. i \in Responses(l) <=> l[i].type = "agent.responded"
  BY DEF Responses
<1>6. i \in Findings(l) <=> l[i].type = "finding.recorded"
  BY DEF Findings
<1>7. CASE i = 1 \/ i = 2 \/ i = 3 + N
  BY <1>1, <1>2, <1>4, <1>5, <1>6, <1>7 DEF WellPlaced
<1>8. CASE i \in 3..(2 + N)
  <2>1. l[i].type = "agent.requested" /\ l[i].worker = AgentList[i - 2]
        /\ l[i].cause = 1
    BY <1>1, <1>8 DEF WellPlaced, RequestAt, Event
  <2> QED
    BY <1>1, <1>4, <1>5, <1>6, <1>8, <2>1
<1>9. CASE i > 3 + N
  <2>1. i - 1 \in 1..Len(l) /\ i # 1 /\ i # 2 /\ i \notin 3..(2 + N) /\ i # 3 + N
    BY <1>1, <1>9
  <2>2. CASE InBlock(l, i)
    BY <1>4, <1>5, <1>6, <1>9, <1>1, <2>1, <2>2 DEF InBlock, InjectedTypes
  <2>3. CASE AskedBy(l, i)
    <3>1. l[i].type = "agent.requested"
      BY <2>3 DEF AskedBy, RequestAt, Event
    <3> QED
      BY <1>4, <1>5, <1>6, <1>9, <1>1, <2>1, <2>3, <3>1
  <2>4. CASE Settled(l, i)
    BY <1>2, <1>4, <1>5, <1>6, <1>9, <1>1, <2>1, <2>4 DEF Settled
  <2>5. CASE Finished(l, i)
    <3>1. l[i].type = "mission.completed"
      BY <2>5 DEF Finished
    <3> QED
      BY <1>4, <1>5, <1>6, <1>9, <1>1, <2>1, <2>5, <3>1
  <2> QED
    BY <1>1, <1>9, <2>2, <2>3, <2>4, <2>5 DEF WellPlaced
<1> QED
  BY <1>3, <1>7, <1>8, <1>9

\* What follows an event of a log: the same whatever the rest of the log is.
LEMMA NextEvent ==
  ASSUME NEW l \in Seq(Events), Shape(l), NEW i \in 1..Len(l), i + 1 \in 1..Len(l),
         i >= 2 + N
  PROVE  /\ l[i].type = "agent.requested" => l[i + 1] = Idle
         /\ l[i].type = "agent.responded" =>
              IF Wave(l, i) = <<>> THEN l[i + 1] = Idle ELSE AskedBy(l, i + 1)
         /\ l[i].type = "finding.recorded" => l[i + 1] = Idle \/ InBlock(l, i + 1)
         /\ l[i].type = "runtime.idle" =>
              InBlock(l, i + 1) \/ Finished(l, i + 1)
         /\ l[i].type # "mission.completed"
<1>1. i \in Nat /\ N \in Nat /\ N >= 1 /\ WellPlaced(l, i + 1) /\ (i + 1) - 1 = i
  BY MissionFacts, LenProperties DEF Shape
<1>2. Idle.type = "runtime.idle"
  BY DEF Idle, Event
<1>3. CASE i = 2 + N
  <2>1. l[i + 1] = Idle
    BY <1>1, <1>3 DEF WellPlaced
  <2>2. i \in Requests(l)
    BY <1>1, <1>3, ShapeRead
  <2> QED
    BY <1>3, <2>1, <2>2 DEF Requests
<1>4. CASE i > 2 + N
  <2>1. \/ InBlock(l, i + 1) \/ AskedBy(l, i + 1)
        \/ Settled(l, i + 1) \/ Finished(l, i + 1)
    BY <1>1, <1>4 DEF WellPlaced
  <2>2. CASE InBlock(l, i + 1)
    BY <1>1, <2>2 DEF InBlock
  <2>3. CASE AskedBy(l, i + 1)
    BY <1>1, <2>3, OneOrNone DEF AskedBy
  <2>4. CASE Settled(l, i + 1)
    BY <1>1, <2>4 DEF Settled
  <2>5. CASE Finished(l, i + 1)
    BY <1>1, <1>2, <2>5 DEF Finished
  <2> QED
    BY <2>1, <2>2, <2>3, <2>4, <2>5
<1> QED
  BY <1>1, <1>3, <1>4

\* The four ways a log grows once the first wave is settled.
LEMMA GrowBlock ==
  ASSUME NEW l \in Seq(Events), Shape(l), Len(l) >= 3 + N,
         l[Len(l)].type \in {"runtime.idle", "finding.recorded"},
         NEW e \in Events, e.type \in InjectedTypes, e.cause # 1, e.ver = 0
  PROVE  Shape(Append(l, e))
<1>1. /\ Len(l) \in Nat /\ Append(l, e)[Len(l) + 1] = e
      /\ Len(l) \in 1..Len(l) /\ Append(l, e)[Len(l)] = l[Len(l)]
      /\ N \in Nat /\ (Len(l) + 1) - 1 = Len(l) /\ Len(l) + 1 > 3 + N
  BY AppendLog, MissionFacts
<1>2. InBlock(Append(l, e), Len(l) + 1)
  BY <1>1 DEF InBlock
<1> QED
  BY <1>1, <1>2, ShapeAppend DEF WellPlaced

\* The shape bears the requests that the last answer asks for,
LEMMA GrowAsked ==
  ASSUME NEW l \in Seq(Events), Shape(l), Len(l) >= 3 + N,
         l[Len(l)].type = "agent.responded",
         NEW e \in Events, NEW w, Wave(l, Len(l)) = <<w>>,
         e = Event("agent.requested", w, Len(l), e.ver, TRUE, 0)
  PROVE  Shape(Append(l, e))
<1> DEFINE m == Append(l, e)
<1>1. /\ m \in Seq(Events) /\ Len(l) \in Nat /\ m[Len(l) + 1] = e
      /\ Len(l) \in 1..Len(l) /\ m[Len(l)] = l[Len(l)]
      /\ N \in Nat /\ (Len(l) + 1) - 1 = Len(l) /\ Len(l) + 1 > 3 + N
      /\ Prefix(l, m)
  BY AppendLog, MissionFacts, PrefixOfAppend
<1> HIDE DEF m
<1>2. Wave(m, Len(l)) = <<w>> /\ e.worker = w
  <2>1. Wave(m, Len(l)) = Wave(l, Len(l))
    BY <1>1, WavePrefix
  <2>2. e.worker = w
    BY DEF Event
  <2> QED
    BY <2>1, <2>2
<1>3. AskedBy(m, Len(l) + 1)
  BY <1>1, <1>2 DEF AskedBy, RequestAt
<1>4. WellPlaced(m, Len(l) + 1)
  BY <1>1, <1>3 DEF WellPlaced
<1> QED
  BY <1>4, ShapeAppend DEF m

\* the mark of a settled window,
LEMMA GrowIdle ==
  ASSUME NEW l \in Seq(Events), Shape(l), Len(l) >= 2 + N,
         \/ l[Len(l)].type \in {"finding.recorded", "agent.requested"}
         \/ l[Len(l)].type = "agent.responded" /\ Wave(l, Len(l)) = <<>>
  PROVE  Shape(Append(l, Idle))
<1> DEFINE m == Append(l, Idle)
<1>0. Idle \in Events
  BY TypesOfEvents, WorkersFacts DEF Idle, Event, Events
<1>1. /\ m \in Seq(Events) /\ Len(l) \in Nat /\ m[Len(l) + 1] = Idle
      /\ N \in Nat /\ N >= 1 /\ (Len(l) + 1) - 1 = Len(l)
      /\ Len(l) \in 1..Len(l) /\ m[Len(l)] = l[Len(l)] /\ Prefix(l, m)
  BY <1>0, AppendLog, MissionFacts, PrefixOfAppend
<1>2. Wave(m, Len(l)) = Wave(l, Len(l))
  BY <1>1, WavePrefix
<1> HIDE DEF m
<1>3. Settled(m, Len(l) + 1)
  BY <1>1, <1>2 DEF Settled
<1>4. WellPlaced(m, Len(l) + 1)
  BY <1>1, <1>3 DEF WellPlaced
<1> QED
  BY <1>0, <1>4, ShapeAppend DEF m

\* and the end of the mission.
LEMMA GrowFinished ==
  ASSUME NEW l \in Seq(Events), Shape(l), Len(l) >= 3 + N, l[Len(l)] = Idle,
         NEW e \in Events, e.type = "mission.completed"
  PROVE  Shape(Append(l, e))
<1>1. /\ Len(l) \in Nat /\ Append(l, e)[Len(l) + 1] = e
      /\ Len(l) \in 1..Len(l) /\ Append(l, e)[Len(l)] = l[Len(l)]
      /\ N \in Nat /\ (Len(l) + 1) - 1 = Len(l) /\ Len(l) + 1 > 3 + N
  BY AppendLog, MissionFacts
<1>2. Finished(Append(l, e), Len(l) + 1)
  BY <1>1 DEF Finished
<1> QED
  BY <1>1, <1>2, ShapeAppend DEF WellPlaced

\* A log that is only seeded, and the first wave on it.
LEMMA SeedShape ==
  /\ Seed \in Seq(Events) /\ Len(Seed) = 2 /\ Seed[1] = Started /\ Seed[2] = Fact
  /\ Shape(Seed) /\ Shape(<<>>)
  /\ Requests(Seed) = {} /\ Responses(Seed) = {} /\ Findings(Seed) = {2}
<1>1. Seed \in Seq(Events) /\ Len(Seed) = 2 /\ Seed[1] = Started /\ Seed[2] = Fact
  BY SeedType DEF Seed
<1>2. 1..2 = {1, 2} /\ N \in Nat /\ N >= 1
  BY MissionFacts
<1>3. Shape(Seed)
  BY <1>1, <1>2 DEF Shape, WellPlaced
<1>4. Shape(<<>>)
  BY OneOrNone DEF Shape
<1>5. Started.type = "mission.started" /\ Fact.type = "finding.recorded"
  BY DEF Started, Fact, Event
<1>6. Findings(Seed) = {2}
  BY <1>1, <1>2, <1>5 DEF Findings
<1> QED
  BY <1>1, <1>3, <1>4, <1>6, SeedType

\* The seed and a request to every agent are the beginning of a log.
LEMMA FirstWaveShape ==
  ASSUME NEW t \in Seq(Events), Len(t) = N,
         \A k \in 1..N :
           t[k] = Event("agent.requested", AgentList[k], 1, t[k].ver, TRUE, 0)
  PROVE  Shape(Seed \o t) /\ Len(Seed \o t) = 2 + N
<1> DEFINE m == Seed \o t
<1>1. /\ Len(m) = 2 + N /\ N \in Nat
      /\ \A i \in 1..(2 + N) : m[i] = IF i <= 2 THEN Seed[i] ELSE t[i - 2]
  <2>1. Seed \in Seq(Events) /\ Len(Seed) = 2 /\ N \in Nat
    BY SeedShape, MissionFacts
  <2>2. /\ Len(m) = Len(Seed) + Len(t)
        /\ \A i \in 1..(Len(Seed) + Len(t)) :
             m[i] = IF i <= Len(Seed) THEN Seed[i] ELSE t[i - Len(Seed)]
    BY <2>1, ConcatProperties
  <2> QED
    BY <2>1, <2>2
<1> HIDE DEF m
<1>2. m[1] = Started /\ m[2] = Fact
  BY <1>1, SeedShape
<1>3. \A i \in 3..(2 + N) : i - 2 \in 1..N /\ m[i] = t[i - 2]
  BY <1>1
<1>4. \A i \in 3..(2 + N) : RequestAt(m, i, AgentList[i - 2], 1)
  BY <1>3 DEF RequestAt
<1>5. \A i \in 1..(2 + N) : i # 3 + N /\ ~(i > 3 + N)
  BY <1>1
<1>6. Shape(m)
  BY <1>1, <1>2, <1>4, <1>5 DEF Shape, WellPlaced
<1> QED
  BY <1>1, <1>6 DEF m

-----------------------------------------------------------------------------
(***************************************************************************)
(* What the shape and single answers say of the waves.                     *)
(***************************************************************************)
LEMMA RequestCases ==
  ASSUME NEW l \in Seq(Events), Shape(l), NEW p \in Requests(l)
  PROVE  /\ p \in 1..Len(l) /\ p \in Nat /\ p >= 3
         /\ \/ p \in 3..(2 + N) /\ l[p].worker \in Agents /\ l[p].worker = AgentList[p - 2]
            \/ /\ p > 3 + N /\ AskedBy(l, p)
               /\ p - 1 \in Responses(l) /\ l[p].worker \in {Gate, Synthesizer}
               /\ l[p].worker \notin Agents /\ Wave(l, p - 1) = <<l[p].worker>>
<1>1. p \in 1..Len(l) /\ p \in Nat /\ N \in Nat /\ N >= 1
  BY ShapeRead, MissionFacts DEF Requests
<1>2. p \in 3..(2 + N) \/ (p > 3 + N /\ AskedBy(l, p))
  BY <1>1, ShapeRead
<1>3. CASE p \in 3..(2 + N)
  <2>1. p - 2 \in 1..N
    BY <1>1, <1>3
  <2>2. l[p].worker = AgentList[p - 2]
    BY <1>1, <1>3, ShapeRead
  <2> QED
    BY <1>1, <1>3, <2>1, <2>2, MissionFacts
<1>4. CASE p > 3 + N /\ AskedBy(l, p)
  <2>1. p - 1 \in 1..Len(l) /\ l[p - 1].type = "agent.responded"
        /\ Wave(l, p - 1) = <<l[p].worker>>
    BY <1>1, <1>4, LenProperties DEF AskedBy
  <2>2. l[p].worker \in {Gate, Synthesizer}
    BY <2>1, WaveCases, OneOrNone
  <2> QED
    BY <1>1, <1>4, <2>1, <2>2, MissionFacts DEF Responses
<1> QED
  BY <1>2, <1>3, <1>4

\* Agents' answers are to the first wave.
LEMMA AgentCause ==
  ASSUME NEW l \in Seq(Events), Shape(l), OneAnswerIn(l),
         NEW r \in Responses(l), l[r].worker \in Agents
  PROVE  l[r].cause \in 3..(2 + N)
<1>1. l[r].cause \in Requests(l) /\ l[l[r].cause].worker = l[r].worker
  BY DEF OneAnswerIn
<1> QED
  BY <1>1, RequestCases

\* Only one report completes the first wave: the last.
LEMMA LastIsOne ==
  ASSUME NEW l \in Seq(Events), Shape(l), OneAnswerIn(l),
         NEW c \in Responses(l), NEW d \in Responses(l),
         l[c].worker \in Agents, AllReported(l, c),
         l[d].worker \in Agents, AllReported(l, d)
  PROVE  c = d
<1>1. \A r, s \in Responses(l) :
        l[r].worker \in Agents /\ AllReported(l, s) => r <= s
  <2> SUFFICES ASSUME NEW r \in Responses(l), NEW s \in Responses(l),
                      l[r].worker \in Agents, AllReported(l, s)
               PROVE  r <= s
    OBVIOUS
  <2>1. l[r].cause \in 3..(2 + N) /\ N \in Nat
    BY AgentCause, MissionFacts
  <2>2. l[r].cause - 2 \in 1..N /\ 2 + (l[r].cause - 2) = l[r].cause
    BY <2>1
  <2>3. PICK j \in Responses(l) : j <= s /\ l[j].cause = l[r].cause
    BY <2>2 DEF AllReported
  <2> QED
    BY <2>3 DEF OneAnswerIn
<1>2. c \in Nat /\ d \in Nat
  BY LenProperties DEF Responses
<1> QED
  BY <1>1, <1>2

\* Who asked for a request of the later waves.
LEMMA Askers ==
  ASSUME NEW l \in Seq(Events), Shape(l), OneAnswerIn(l),
         NEW p \in Requests(l), p > 2 + N
  PROVE  /\ p - 1 \in Responses(l) /\ p - 1 \in Nat /\ p - 1 < p
         /\ \/ /\ HasGate /\ l[p].worker = Gate
               /\ l[p - 1].worker \in Agents /\ AllReported(l, p - 1)
            \/ /\ ~HasGate /\ l[p].worker = Synthesizer
               /\ l[p - 1].worker \in Agents /\ AllReported(l, p - 1)
            \/ /\ l[p].worker = Synthesizer /\ l[p - 1].worker = Gate
               /\ l[p - 1].cause \in Requests(l) /\ l[p - 1].cause < p - 1
               /\ l[l[p - 1].cause].worker = Gate /\ l[p - 1].cause > 2 + N
<1>1. /\ p \in Nat /\ p > 3 + N /\ p - 1 \in Responses(l)
      /\ Wave(l, p - 1) = <<l[p].worker>>
  BY RequestCases, MissionFacts
<1>2. \/ /\ HasGate /\ l[p].worker = Gate
         /\ l[p - 1].worker \in Agents /\ AllReported(l, p - 1)
      \/ /\ l[p].worker = Synthesizer
         /\ \/ ~HasGate /\ l[p - 1].worker \in Agents /\ AllReported(l, p - 1)
            \/ l[p - 1].worker = Gate
  BY <1>1, WaveCases, OneOrNone
<1>3. ASSUME l[p - 1].worker = Gate
      PROVE  /\ l[p - 1].cause \in Requests(l) /\ l[p - 1].cause < p - 1
             /\ l[l[p - 1].cause].worker = Gate /\ l[p - 1].cause > 2 + N
  <2>1. /\ l[p - 1].cause \in Requests(l) /\ l[p - 1].cause < p - 1
        /\ l[l[p - 1].cause].worker = Gate
    BY <1>1, <1>3 DEF OneAnswerIn
  <2>2. l[p - 1].cause \notin 3..(2 + N) /\ l[p - 1].cause \in Nat /\ l[p - 1].cause >= 3
    BY <2>1, RequestCases, MissionFacts
  <2> QED
    BY <2>1, <2>2, MissionFacts
<1>4. p - 1 \in Nat /\ p - 1 < p
  BY <1>1, MissionFacts
<1> QED
  BY <1>1, <1>2, <1>3, <1>4

\* A worker is asked once.
LEMMA AskedOnce ==
  ASSUME NEW l \in Seq(Events), Shape(l), OneAnswerIn(l),
         NEW p \in Requests(l), NEW q \in Requests(l), l[p].worker = l[q].worker
  PROVE  p = q
<1>1. p \in Nat /\ q \in Nat /\ N \in Nat
  BY RequestCases, MissionFacts
<1>2. CASE l[p].worker \in Agents
  <2>1. /\ p \in 3..(2 + N) /\ q \in 3..(2 + N)
        /\ AgentList[p - 2] = AgentList[q - 2]
    BY <1>2, RequestCases
  <2>2. p - 2 \in 1..N /\ q - 2 \in 1..N
    BY <1>1, <2>1
  <2>3. p - 2 = q - 2
    BY <2>1, <2>2, MissionFacts
  <2> QED
    BY <1>1, <2>3
<1>3. CASE l[p].worker \notin Agents
  <2>1. p > 2 + N /\ q > 2 + N
    BY <1>1, <1>3, RequestCases
\* Two gate requests are asked for by the one last report.
  <2>2. \A s, t \in Requests(l) : l[s].worker = Gate /\ l[t].worker = Gate => s = t
    <3> SUFFICES ASSUME NEW s \in Requests(l), NEW t \in Requests(l),
                        l[s].worker = Gate, l[t].worker = Gate
                 PROVE  s = t
      OBVIOUS
    <3>1. s > 2 + N /\ t > 2 + N /\ s \in Nat /\ t \in Nat
      BY RequestCases, MissionFacts
    <3>2. /\ s - 1 \in Responses(l) /\ t - 1 \in Responses(l)
          /\ l[s - 1].worker \in Agents /\ AllReported(l, s - 1)
          /\ l[t - 1].worker \in Agents /\ AllReported(l, t - 1)
      BY <3>1, Askers, MissionFacts
    <3>3. s - 1 = t - 1
      BY <3>2, LastIsOne
    <3> QED
      BY <3>1, <3>3
  <2>3. CASE l[p].worker = Gate
    BY <2>2, <2>3
  <2>4. CASE l[p].worker # Gate
    <3>1. l[p].worker = Synthesizer /\ l[q].worker = Synthesizer
      BY <2>1, <2>4, Askers
    <3>2. CASE ~HasGate
      <4>1. l[p - 1].worker # Gate /\ l[q - 1].worker # Gate
        BY <2>1, <3>2, Askers, MissionFacts
      <4>2. /\ p - 1 \in Responses(l) /\ q - 1 \in Responses(l)
            /\ l[p - 1].worker \in Agents /\ AllReported(l, p - 1)
            /\ l[q - 1].worker \in Agents /\ AllReported(l, q - 1)
        BY <2>1, <3>1, <4>1, Askers, MissionFacts
      <4>3. p - 1 = q - 1
        BY <4>2, LastIsOne
      <4> QED
        BY <1>1, <4>3
    <3>3. CASE HasGate
      <4>1. /\ p - 1 \in Responses(l) /\ q - 1 \in Responses(l)
            /\ l[p - 1].cause \in Requests(l) /\ l[l[p - 1].cause].worker = Gate
            /\ l[q - 1].cause \in Requests(l) /\ l[l[q - 1].cause].worker = Gate
        BY <2>1, <3>1, <3>3, Askers, MissionFacts
      <4>2. l[p - 1].cause = l[q - 1].cause
        BY <2>2, <4>1
      <4>3. p - 1 = q - 1
        BY <4>1, <4>2 DEF OneAnswerIn
      <4> QED
        BY <1>1, <4>3
    <3> QED
      BY <3>2, <3>3
  <2> QED
    BY <2>3, <2>4
<1> QED
  BY <1>2, <1>3

\* A later wave starts only when every earlier request is answered.
LEMMA WavesAreSequential ==
  ASSUME NEW l \in Seq(Events), Shape(l), OneAnswerIn(l),
         NEW p \in Requests(l), p > 2 + N, NEW q \in Requests(l), q < p
  PROVE  \E r \in Responses(l) : r < p /\ l[r].cause = q
<1>1. p \in Nat /\ q \in Nat /\ N \in Nat /\ q >= 3
  BY RequestCases, MissionFacts
\* The wave of agents, once it is reported.
<1>2. ASSUME NEW s \in Nat, s < p, AllReported(l, s), q <= 2 + N
      PROVE  \E r \in Responses(l) : r < p /\ l[r].cause = q
  <2>1. q - 2 \in 1..N /\ 2 + (q - 2) = q
    BY <1>1, <1>2
  <2>2. PICK r \in Responses(l) : r <= s /\ l[r].cause = q
    BY <1>2, <2>1 DEF AllReported
  <2>3. r \in Nat
    BY LenProperties DEF Responses
  <2> QED
    BY <1>1, <1>2, <2>2, <2>3
<1>3. CASE l[p - 1].worker \in Agents /\ AllReported(l, p - 1)
  <2>1. q <= 2 + N
    <3> SUFFICES ASSUME q > 2 + N PROVE FALSE
      BY <1>1
    <3>1. PICK s \in Requests(l) : /\ s > 2 + N /\ s <= q
                                   /\ s - 1 \in Responses(l)
                                   /\ l[s - 1].worker \in Agents /\ AllReported(l, s - 1)
      <4>1. CASE l[q - 1].worker \in Agents
        <5>1. AllReported(l, q - 1) /\ q - 1 \in Responses(l)
          BY <4>1, Askers, MissionFacts
        <5> QED
          BY <1>1, <4>1, <5>1
      <4>2. CASE l[q - 1].worker \notin Agents
        <5>1. /\ l[q - 1].cause \in Requests(l) /\ l[q - 1].cause < q - 1
              /\ l[l[q - 1].cause].worker = Gate /\ l[q - 1].cause > 2 + N
          BY <4>2, Askers
        <5> DEFINE s == l[q - 1].cause
        <5>2. s \in Nat /\ s <= q
          BY <1>1, <5>1, RequestCases
        <5>3. s - 1 \in Responses(l) /\ l[s - 1].worker \in Agents /\ AllReported(l, s - 1)
          BY <5>1, Askers, MissionFacts
        <5> QED
          BY <5>1, <5>2, <5>3
      <4> QED
        BY <4>1, <4>2
    <3>2. p - 1 \in Responses(l)
      BY Askers
    <3>3. s - 1 = p - 1
      BY <1>3, <3>1, <3>2, LastIsOne
    <3>4. s \in Nat
      BY RequestCases
    <3> QED
      BY <1>1, <3>1, <3>3, <3>4
  <2>2. p - 1 \in Nat /\ p - 1 < p
    BY Askers
  <2> QED
    BY <1>2, <1>3, <2>1, <2>2
<1>4. CASE l[p - 1].worker = Gate
  <2> DEFINE g == l[p - 1].cause
  <2>1. /\ p - 1 \in Responses(l) /\ p - 1 \in Nat /\ p - 1 < p
        /\ l[p].worker = Synthesizer
        /\ g \in Requests(l) /\ g < p - 1 /\ l[g].worker = Gate /\ g > 2 + N
    BY <1>4, Askers, MissionFacts
  <2>2. /\ g - 1 \in Nat /\ g - 1 < p /\ AllReported(l, g - 1)
    <3>1. g - 1 \in Nat /\ g - 1 < g /\ AllReported(l, g - 1)
      BY <2>1, Askers, MissionFacts
    <3> QED
      BY <1>1, <2>1, <3>1, RequestCases
  <2>3. CASE q <= 2 + N
    BY <1>2, <2>2, <2>3
  <2>4. CASE q > 2 + N
    <3>1. l[q].worker # Synthesizer
      BY <1>1, <2>1, AskedOnce
    <3>2. l[q].worker = Gate
      BY <2>4, <3>1, Askers
    <3>3. q = g
      BY <2>1, <3>2, AskedOnce
    <3> QED
      BY <2>1, <3>3
  <2> QED
    BY <1>1, <2>3, <2>4
<1> QED
  BY <1>3, <1>4, Askers

-----------------------------------------------------------------------------
(***************************************************************************)
(* The behaviors count reports; every agent reports once, so the count is  *)
(* that of the answered agents.                                            *)
(***************************************************************************)
LEMMA LastReportMeans ==
  ASSUME log \in Seq(Events), Shape(log), OneAnswerIn(log), NEW i \in 1..Len(log)
  PROVE  LastReport(i) <=> AllReported(log, i)
<1> DEFINE S == Reports(i)
           T == 3..(2 + N)
           f == [r \in S |-> log[r].cause]
<1>1. N \in Nat /\ IsFiniteSet(T) /\ Cardinality(T) = N
  <2>1. N \in Nat /\ 3 \in Int /\ 2 + N \in Int /\ N >= 1
    BY MissionFacts
  <2>2. IsFiniteSet(T) /\ Cardinality(T) = IF 3 > 2 + N THEN 0 ELSE (2 + N) - 3 + 1
    BY <2>1, FS_Interval
  <2> QED
    BY <2>1, <2>2
<1>2. \A r \in S : r \in Responses(log) /\ log[r].worker \in Agents /\ r <= i
  BY DEF Reports
<1>3. f \in [S -> T]
  BY <1>2, AgentCause
<1>4. \A r, s \in S : f[r] = f[s] => r = s
  BY <1>2 DEF OneAnswerIn
<1>5. f \in Injection(S, T)
  BY <1>3, <1>4 DEF Injection, IsInjective
<1>6. Cardinality(S) = N <=> f \in Surjection(S, T)
  BY <1>1, <1>5, FS_Injection
<1>7. f \in Surjection(S, T) <=> \A t \in T : \E r \in S : f[r] = t
  BY <1>3 DEF Surjection
<1>8. (\A t \in T : \E r \in S : f[r] = t) => AllReported(log, i)
  <2> SUFFICES ASSUME \A t \in T : \E r \in S : f[r] = t, NEW k \in 1..N
               PROVE  \E j \in Responses(log) : j <= i /\ log[j].cause = 2 + k
    BY DEF AllReported
  <2>1. 2 + k \in T
    BY <1>1
  <2>2. PICK r \in S : f[r] = 2 + k
    BY <2>1
  <2> QED
    BY <1>2, <2>2
<1>9. AllReported(log, i) => \A t \in T : \E r \in S : f[r] = t
  <2> SUFFICES ASSUME AllReported(log, i), NEW t \in T
               PROVE  \E r \in S : f[r] = t
    OBVIOUS
  <2>1. t - 2 \in 1..N /\ 2 + (t - 2) = t
    BY <1>1
  <2>2. PICK r \in Responses(log) : r <= i /\ log[r].cause = t
    BY <2>1 DEF AllReported
  <2>3. t \in Requests(log) /\ log[t].worker = log[r].worker
    BY <2>2 DEF OneAnswerIn
  <2>4. log[t].worker \in Agents
    BY <1>1, <2>3, RequestCases
  <2>5. r \in S
    BY <2>2, <2>3, <2>4 DEF Reports
  <2> QED
    BY <2>2, <2>5
<1> QED
  BY <1>6, <1>7, <1>8, <1>9 DEF LastReport, N

\* The behaviors' reaction to an event of a shaped log.
LEMMA ReactionMeans ==
  ASSUME log \in Seq(Events), Shape(log), OneAnswerIn(log), NEW i \in 1..Len(log)
  PROVE  Reaction(i) = IF log[i].type = "mission.started" THEN AgentList
                       ELSE IF log[i].type = "agent.responded" THEN Wave(log, i)
                       ELSE <<>>
<1>1. LastReport(i) <=> AllReported(log, i)
  BY LastReportMeans
<1>2. Gate \notin Agents
  BY MissionFacts
<1>3. CASE log[i].type = "mission.started"
  BY <1>3 DEF Reaction
<1>4. CASE log[i].type = "agent.responded"
  <2>1. CASE log[i].worker \in Agents
    BY <1>1, <1>2, <1>4, <2>1 DEF Reaction, Wave
  <2>2. CASE log[i].worker \notin Agents
    BY <1>4, <2>2 DEF Reaction, Wave
  <2> QED
    BY <2>1, <2>2
<1>5. CASE log[i].type \notin {"mission.started", "agent.responded"}
  BY <1>5 DEF Reaction
<1> QED
  BY <1>3, <1>4, <1>5

-----------------------------------------------------------------------------
(***************************************************************************)
(* Where the loop stands in the log, what it still has to process, and     *)
(* what is left of a window.  Nothing is assumed of edits, interrupts,     *)
(* exceptions or crashes.                                                  *)
(***************************************************************************)
LastType == log[Len(log)].type
\* The log may take an injected event, and every answer in it is processed.
Standing ==
  /\ Len(log) >= 3 + N /\ LastType \in {"runtime.idle", "finding.recorded"}
  /\ \A i \in Responses(log) : i <= cursor
\* The one answer not processed yet is the last event.
OneToProcess == \A i \in Responses(log) : i > cursor => i = Len(log)

LoopPlace ==
  /\ cursor <= Len(log)
  /\ pc = "settle" =>
       /\ cursor = 0 => log = Seed
       /\ cursor > 0 => Len(log) >= 2 + N
       /\ LastType # "mission.completed" /\ OneToProcess
       /\ \A i \in Responses(log) : i = Len(log) => i > cursor \/ Wave(log, i) = <<>>
  /\ pc \in {"check", "wait", "group"} => cursor > 0
  /\ pc \in {"check", "wait"} => Standing
  /\ pc = "check" /\ reason # "raised" => cursor = Len(log) /\ log[Len(log)] = Idle
  /\ pc = "group" =>
       /\ Len(log) >= 3 + N
       /\ \/ Standing
          \/ /\ window = {} /\ LastType = "agent.responded"
             /\ OneToProcess /\ cursor < Len(log)
  /\ pc = "wait" => reason = "none"

\* The window is the beginning of what is left of the plan, in one block.
WindowPlace ==
  /\ pc # "group" => window = {}
  /\ window \subseteq PlanLeft
  /\ \A i \in window, j \in PlanLeft : j < i => j \in window
  /\ \A i, j \in window : \A x \in i..j : recorded[x].type \in InjectedTypes

\* What the listener has collected is the end of the log.
PendingPlace ==
  /\ pc \in {"check", "wait", "group"} => pending = <<>>
  /\ \A k \in 1..Len(pending) : pending[k] = (Len(log) - Len(pending)) + k

PlaceInv == /\ Shape(log) /\ Shape(recorded)
            /\ LoopPlace /\ WindowPlace /\ PendingPlace

\* What the types say of the logs.
LEMMA LogTypes ==
  ASSUME HostInv
  PROVE  /\ log \in Seq(Events) /\ recorded \in Seq(Events)
         /\ Len(log) \in Nat /\ Len(recorded) \in Nat
         /\ OneAnswerIn(log) /\ cursor \in Nat /\ planAt \in Nat
         /\ \A i \in 1..Len(log) : log[i] \in Events
         /\ \A i \in 1..Len(recorded) : recorded[i] \in Events
BY LenProperties, ElementOfSeq DEF HostInv, TypeOK, OneAnswerPerCall

\* Appending a wave of none,
LEMMA NoWave ==
  ASSUME NEW S, NEW s \in Seq(S), NEW f, f = <<>>
  PROVE  s \o f = s
<1>1. f \in Seq(S) /\ Len(f) = 0 /\ Len(s) \in Nat
  BY EmptySeq, LenProperties
<1>2. /\ s \o f \in Seq(S) /\ Len(s \o f) = Len(s)
      /\ \A i \in 1..Len(s) : (s \o f)[i] = s[i]
  BY <1>1, ConcatProperties
<1> QED
  BY <1>2, SeqEqual

\* and of one request.
LEMMA OneWave ==
  ASSUME NEW S, NEW s \in Seq(S), NEW e \in S, NEW f, f = <<e>>
  PROVE  s \o f = Append(s, e)
<1>1. f \in Seq(S) /\ Len(f) = 1 /\ Len(s) \in Nat /\ f[1] = e
  BY LenProperties
<1>2. /\ s \o f \in Seq(S) /\ Len(s \o f) = Len(s) + 1
      /\ \A i \in 1..(Len(s) + 1) :
           (s \o f)[i] = IF i <= Len(s) THEN s[i] ELSE f[i - Len(s)]
  BY <1>1, ConcatProperties
<1>3. /\ Append(s, e) \in Seq(S) /\ Len(Append(s, e)) = Len(s) + 1
      /\ \A i \in 1..Len(s) : Append(s, e)[i] = s[i]
      /\ Append(s, e)[Len(s) + 1] = e
  BY AppendProperties
<1>4. \A i \in 1..(Len(s) + 1) : (s \o f)[i] = Append(s, e)[i]
  BY <1>1, <1>2, <1>3
<1> QED
  BY <1>2, <1>3, <1>4, SeqEqual

\* What processing one event does: the first wave, nothing, or one request.
LEMMA ProcessCases ==
  ASSUME HostInv, PlaceInv, ProcessEvent
  PROVE  \/ /\ cursor = 0 /\ log = Seed /\ pending = <<>>
            /\ log' = Seed \o [k \in 1..N |-> Requested(AgentList[k], 1)]
            /\ pending' = [k \in 1..N |-> 2 + k]
         \/ /\ cursor > 0 /\ log' = log /\ pending' = pending
            /\ cursor + 1 \in Responses(log) => Wave(log, cursor + 1) = <<>>
         \/ /\ cursor > 0 /\ cursor + 1 = Len(log) /\ Len(log) \in Responses(log)
            /\ \E w \in Workers : /\ Wave(log, Len(log)) = <<w>>
                                  /\ log' = Append(log, Requested(w, Len(log)))
                                  /\ pending' = Append(pending, Len(log) + 1)
<1> DEFINE i == cursor + 1
           wave == Reaction(i)
           new == [k \in 1..Len(wave) |-> Requested(wave[k], i)]
           ids == [k \in 1..Len(wave) |-> Len(log) + k]
<1>1. /\ log \in Seq(Events) /\ Len(log) \in Nat /\ OneAnswerIn(log)
      /\ cursor \in Nat /\ Shape(log) /\ pending \in Seq(Nat)
  BY LogTypes DEF PlaceInv, HostInv, TypeOK
<1>2. /\ i \in 1..Len(log) /\ log' = log \o new /\ pending' = pending \o ids
      /\ pc = "settle"
  BY <1>1 DEF ProcessEvent
<1>3. wave = IF log[i].type = "mission.started" THEN AgentList
             ELSE IF log[i].type = "agent.responded" THEN Wave(log, i) ELSE <<>>
  BY <1>1, <1>2, ReactionMeans
<1> HIDE DEF wave
<1>4. CASE cursor = 0
  <2>1. log = Seed /\ log[i] = Started /\ Started.type = "mission.started" /\ i = 1
    BY <1>2, <1>4, SeedShape DEF PlaceInv, LoopPlace, Started, Event
  <2>2. wave = AgentList /\ Len(wave) = N
    BY <1>3, <2>1 DEF N
  <2>3. In(pending) = {}
    BY <2>1, SeedShape DEF HostInv, EachCallInOnePlace
  <2>4. pending = <<>>
    <3>1. ASSUME pending # <<>> PROVE FALSE
      BY <1>1, <2>3, <3>1, TailIn
    <3> QED
      BY <3>1
  <2>5. N \in Nat /\ ids = [k \in 1..N |-> 2 + k] /\ Len(Seed) = 2
    BY <2>1, <2>2, SeedShape, MissionFacts
  <2>6. pending' = ids
    <3>1. ids \in [1..N -> Nat]
      BY <2>5
    <3> HIDE DEF ids
    <3>2. ids \in Seq(Nat) /\ Len(ids) = N
      BY <2>5, <3>1, FunctionIsSeq
    <3>3. <<>> \in Seq(Nat) /\ Len(<<>>) = 0
      BY EmptySeq
    <3>4. /\ <<>> \o ids \in Seq(Nat) /\ Len(<<>> \o ids) = N
          /\ \A x \in 1..N : (<<>> \o ids)[x] = ids[x]
      BY <2>5, <3>2, <3>3, ConcatProperties
    <3>5. <<>> \o ids = ids
      BY <3>2, <3>4, SeqEqual
    <3> QED
      BY <1>2, <2>4, <3>5
  <2> QED
    BY <1>2, <1>4, <2>1, <2>2, <2>4, <2>5, <2>6
<1>5. CASE cursor > 0 /\ wave = <<>>
  <2>1. Len(wave) = 0
    BY <1>5, OneOrNone
  <2>2. new = <<>> /\ ids = <<>>
    BY <2>1
  <2> HIDE DEF new, ids
  <2>3. log' = log /\ pending' = pending
    BY <1>1, <1>2, <2>2, NoWave
  <2>4. i \in Responses(log) => Wave(log, i) = <<>>
    BY <1>3, <1>5 DEF Responses
  <2> QED
    BY <1>5, <2>3, <2>4
<1>6. CASE cursor > 0 /\ wave # <<>>
  <2>1. log[i].type # "mission.started"
    <3>1. i # 1 /\ \/ i = 2 \/ i \in 3..(2 + N) \/ i = 3 + N \/ i > 3 + N
      BY <1>1, <1>2, <1>6, MissionFacts
    <3>2. Idle.type = "runtime.idle" /\ Fact.type = "finding.recorded"
      BY DEF Idle, Fact, Event
    <3>3. WellPlaced(log, i)
      BY <1>1, <1>2 DEF Shape
    <3>4. CASE i = 2 \/ i = 3 + N
      BY <3>2, <3>3, <3>4 DEF WellPlaced
    <3>5. CASE i \in 3..(2 + N)
      BY <3>3, <3>5 DEF WellPlaced, RequestAt, Event
    <3>6. CASE i > 3 + N
      <4>1. InBlock(log, i) \/ AskedBy(log, i) \/ Settled(log, i) \/ Finished(log, i)
        BY <3>3, <3>6 DEF WellPlaced
      <4>2. AskedBy(log, i) => log[i].type = "agent.requested"
        BY DEF AskedBy, RequestAt, Event
      <4> QED
        BY <3>2, <4>1, <4>2 DEF InBlock, Settled, Finished, InjectedTypes
    <3> QED
      BY <3>1, <3>4, <3>5, <3>6
  <2>2. i \in Responses(log) /\ wave = Wave(log, i)
    BY <1>2, <1>3, <1>6, <2>1 DEF Responses
  <2>3. i = Len(log)
    BY <1>1, <1>2, <2>2 DEF PlaceInv, LoopPlace, OneToProcess
  <2>4. PICK w \in Workers : wave = <<w>>
    BY <1>6, <2>2, WaveCases, WorkersFacts
  <2>5. Len(wave) = 1 /\ wave[1] = w /\ 1..1 = {1}
    BY <2>4, OneOrNone
  <2>6. new = <<Requested(w, i)>> /\ ids = <<Len(log) + 1>>
    BY <2>5
  <2>7. Requested(w, i) \in Events /\ Len(log) + 1 \in Nat
    BY <1>1, RequestedType DEF HostInv
  <2> HIDE DEF new, ids
  <2>8. log' = Append(log, Requested(w, i)) /\ pending' = Append(pending, Len(log) + 1)
    BY <1>1, <1>2, <2>6, <2>7, OneWave
  <2> QED
    BY <1>6, <2>2, <2>3, <2>4, <2>8
<1>7. cursor = 0 \/ (cursor > 0 /\ wave = <<>>) \/ (cursor > 0 /\ wave # <<>>)
  BY <1>1
<1> HIDE DEF new, ids, i
<1> QED
  BY <1>4, <1>5, <1>6, <1>7


\* Appending an event whose type is not a request's or an answer's leaves
\* both sets alone; appending an answer adds one position.
LEMMA AppendPositions ==
  ASSUME NEW l \in Seq(Events), NEW e \in Events
  PROVE  /\ e.type # "agent.responded" => Responses(Append(l, e)) = Responses(l)
         /\ \A i \in Responses(Append(l, e)) : i \in Responses(l) \/ i = Len(l) + 1
         /\ Len(l) \in Nat /\ Len(Append(l, e)) = Len(l) + 1
         /\ Append(l, e)[Len(Append(l, e))] = e
         /\ \A i \in Responses(l) : i \in Nat /\ i <= Len(l)
<1>1. /\ Len(l) \in Nat /\ Len(Append(l, e)) = Len(l) + 1
      /\ Append(l, e)[Len(l) + 1] = e
      /\ e.type # "agent.responded" => Responses(Append(l, e)) = Responses(l)
      /\ e.type = "agent.responded" =>
           Responses(Append(l, e)) = Responses(l) \cup {Len(l) + 1}
  BY AppendLog
<1>2. \A i \in Responses(l) : i \in Nat /\ i <= Len(l)
  BY <1>1 DEF Responses
<1> QED
  BY <1>1, <1>2

\* A step that leaves plan and window alone keeps the window's place.
LEMMA WindowKept ==
  ASSUME WindowPlace, UNCHANGED <<recorded, planAt, window>>,
         pc' = "group" \/ window = {}
  PROVE  WindowPlace'
<1>1. PlanLeft' = PlanLeft
  BY DEF PlanLeft, Planned, Orphaned
<1> QED
  BY <1>1 DEF WindowPlace

\* The mission's start has every place right.
LEMMA PlaceInvInit == Init => PlaceInv
<1> SUFFICES ASSUME Init PROVE PlaceInv
  OBVIOUS
<1>1. Shape(log) /\ Shape(recorded) /\ Len(log) = 2 /\ log = Seed
  BY SeedShape DEF Init
<1>2. LastType # "mission.completed" /\ Responses(log) = {}
  BY <1>1, SeedShape DEF LastType, Fact, Event
<1>3. LoopPlace
  BY <1>1, <1>2 DEF Init, LoopPlace, OneToProcess
<1>4. WindowPlace
  BY DEF Init, WindowPlace
<1>5. PendingPlace
  BY OneOrNone DEF Init, PendingPlace
<1> QED
  BY <1>1, <1>3, <1>4, <1>5 DEF PlaceInv

\* Each step of the loop keeps the places: processing an event,
LEMMA PlaceProcess ==
  ASSUME HostInv, PlaceInv, ProcessEvent
  PROVE  PlaceInv'
<1>1. /\ log \in Seq(Events) /\ Len(log) \in Nat /\ cursor \in Nat
      /\ pending \in Seq(Nat) /\ Len(pending) \in Nat /\ Shape(log)
      /\ N \in Nat /\ N >= 1
  BY LogTypes, MissionFacts, LenProperties DEF PlaceInv, HostInv, TypeOK
<1>2. /\ pc = "settle" /\ pc' = "settle" /\ cursor < Len(log) /\ cursor' = cursor + 1
      /\ recorded' = recorded /\ UNCHANGED <<recorded, planAt, window>> /\ window = {}
  BY DEF ProcessEvent, identity, PlaceInv, WindowPlace
<1>3. WindowPlace' /\ Shape(recorded)'
  BY <1>2, WindowKept DEF PlaceInv
<1>4. CASE /\ cursor = 0 /\ log = Seed /\ pending = <<>>
           /\ log' = Seed \o [k \in 1..N |-> Requested(AgentList[k], 1)]
           /\ pending' = [k \in 1..N |-> 2 + k]
  <2> DEFINE t == [k \in 1..N |-> Requested(AgentList[k], 1)]
  <2>1. \A k \in 1..N : Requested(AgentList[k], 1) \in Events
    BY MissionFacts, WorkersFacts, RequestedType DEF HostInv
  <2>2. t \in [1..N -> Events]
    BY <2>1
  <2>3. \A k \in 1..N :
          /\ t[k] = Event("agent.requested", AgentList[k], 1, t[k].ver, TRUE, 0)
          /\ t[k].type = "agent.requested"
    BY DEF Requested, Event
  <2>4. log' = Seed \o t
    BY <1>4
  <2> HIDE DEF t
  <2>5. t \in Seq(Events) /\ Len(t) = N
    BY <1>1, <2>2, FunctionIsSeq
  <2>6. Shape(log)' /\ Len(log') = 2 + N
    BY <2>3, <2>4, <2>5, FirstWaveShape
  <2>7. Responses(log') = {}
    BY <2>3, <2>4, <2>5, SeedShape, AppendWave
  <2>8. LastType' = "agent.requested"
    <3>1. 2 + N \in 3..(2 + N) /\ 2 + N \in 1..(2 + N)
      BY <1>1
    <3>2. WellPlaced(log', 2 + N)
      BY <2>6, <3>1 DEF Shape
    <3> QED
      BY <2>6, <3>1, <3>2 DEF WellPlaced, RequestAt, Event, LastType
  <2>9. LoopPlace'
    BY <1>1, <1>2, <1>4, <2>6, <2>7, <2>8 DEF LoopPlace, OneToProcess
  <2>10. PendingPlace'
    <3>1. Len(pending') = N
      BY <1>1, <1>4
    <3>2. \A k \in 1..N : pending'[k] = 2 + k
      BY <1>4
    <3>3. \A k \in 1..N : pending'[k] = (Len(log') - Len(pending')) + k
      BY <1>1, <2>6, <3>1, <3>2
    <3> QED
      BY <1>2, <3>1, <3>3 DEF PendingPlace
  <2> QED
    BY <1>3, <2>6, <2>9, <2>10 DEF PlaceInv
<1>5. CASE /\ cursor > 0 /\ log' = log /\ pending' = pending
           /\ cursor + 1 \in Responses(log) => Wave(log, cursor + 1) = <<>>
  <2>1. LastType' = LastType /\ \A i \in Responses(log) : i \in Nat
    BY <1>1, <1>5 DEF LastType, Responses
  <2>2. \A i \in Responses(log) : i = Len(log) => i > cursor + 1 \/ Wave(log, i) = <<>>
    BY <1>1, <1>2, <1>5, <2>1 DEF PlaceInv, LoopPlace
  <2>3. \A i \in Responses(log) : i > cursor + 1 => i = Len(log)
    BY <1>1, <1>2, <2>1 DEF PlaceInv, LoopPlace, OneToProcess
  <2>4. LoopPlace'
    BY <1>1, <1>2, <1>5, <2>1, <2>2, <2>3 DEF PlaceInv, LoopPlace, OneToProcess
  <2>5. PendingPlace'
    BY <1>2, <1>5 DEF PlaceInv, PendingPlace
  <2> QED
    BY <1>3, <1>5, <2>4, <2>5 DEF PlaceInv
<1>6. ASSUME cursor + 1 = Len(log), Len(log) \in Responses(log), NEW w \in Workers,
             Wave(log, Len(log)) = <<w>>,
             log' = Append(log, Requested(w, Len(log))),
             pending' = Append(pending, Len(log) + 1)
      PROVE  PlaceInv'
  <2> DEFINE e == Requested(w, Len(log))
  <2>1. /\ e \in Events /\ e.type = "agent.requested"
        /\ e = Event("agent.requested", w, Len(log), e.ver, TRUE, 0)
    BY <1>1, RequestedType DEF HostInv, Requested, Event
  <2>2. log' = Append(log, e)
    BY <1>6
  <2>3. Len(log) \in 1..Len(log) /\ log[Len(log)].type = "agent.responded"
    BY <1>6 DEF Responses
  <2>4. Len(log) > 3 + N
    BY <1>1, <1>6, <2>3, ShapeRead
  <2> HIDE DEF e
  <2>5. Shape(log)'
    <3>1. Len(log) >= 3 + N /\ Wave(log, Len(log)) = <<w>>
      BY <1>1, <1>6, <2>4
    <3>2. Shape(Append(log, e))
      BY <1>1, <2>1, <2>3, <3>1, GrowAsked
    <3> QED
      BY <2>2, <3>2
  <2>6. /\ Responses(log') = Responses(log) /\ Len(log') = Len(log) + 1
        /\ LastType' = "agent.requested"
        /\ \A i \in Responses(log) : i \in Nat /\ i <= Len(log)
    BY <1>1, <2>1, <2>2, AppendPositions DEF LastType
  <2>7. LoopPlace'
    BY <1>1, <1>2, <1>6, <2>4, <2>6 DEF LoopPlace, OneToProcess
  <2>8. PendingPlace'
    <3>1. /\ Len(pending') = Len(pending) + 1
          /\ \A k \in 1..Len(pending) : pending'[k] = pending[k]
          /\ pending'[Len(pending) + 1] = Len(log) + 1
      BY <1>1, <1>6, AppendProperties
    <3>2. \A k \in 1..(Len(pending) + 1) : k \in 1..Len(pending) \/ k = Len(pending) + 1
      BY <1>1
    <3>3. \A k \in 1..Len(pending) : pending[k] = (Len(log) - Len(pending)) + k
      BY DEF PlaceInv, PendingPlace
    <3>4. \A k \in 1..Len(pending') : pending'[k] = (Len(log') - Len(pending')) + k
      <4>1. Len(log') - Len(pending') = Len(log) - Len(pending)
        BY <1>1, <2>6, <3>1
      <4>2. (Len(log) - Len(pending)) + (Len(pending) + 1) = Len(log) + 1
        BY <1>1
      <4>3. \A k \in 1..Len(pending) : pending'[k] = (Len(log) - Len(pending)) + k
        BY <3>1, <3>3
      <4>4. \A k \in 1..Len(pending') : k \in 1..Len(pending) \/ k = Len(pending) + 1
        BY <3>1, <3>2
      <4> QED
        BY <3>1, <4>1, <4>2, <4>3, <4>4
    <3> QED
      BY <1>2, <3>4 DEF PendingPlace
  <2> QED
    BY <1>3, <2>5, <2>7, <2>8 DEF PlaceInv
<1> QED
  BY <1>4, <1>5, <1>6, ProcessCases


\* What a log that only grows keeps.
LEMMA GrowingLog ==
  ASSUME NEW l \in Seq(Events), NEW m \in Seq(Events), Prefix(l, m)
  PROVE  /\ Requests(l) \subseteq Requests(m) /\ Responses(l) \subseteq Responses(m)
         /\ Findings(l) \subseteq Findings(m) /\ Answered(l) \subseteq Answered(m)
         /\ \A i \in 1..Len(l) : m[i] = l[i]
<1>1. /\ Requests(l) \subseteq Requests(m) /\ Responses(l) \subseteq Responses(m)
      /\ Findings(l) \subseteq Findings(m) /\ Responses(l) \subseteq 1..Len(l)
      /\ \A i \in 1..Len(l) : m[i] = l[i]
  BY PrefixEvents
<1> QED
  BY <1>1 DEF Answered

\* Appending one event, by its kind.
LEMMA OneMore ==
  ASSUME NEW l \in Seq(Events), NEW e \in Events
  PROVE  /\ e.type # "agent.requested" => Requests(Append(l, e)) = Requests(l)
         /\ e.type # "agent.responded" =>
              /\ Responses(Append(l, e)) = Responses(l)
              /\ Answered(Append(l, e)) = Answered(l)
         /\ e.type = "agent.responded" =>
              /\ Responses(Append(l, e)) = Responses(l) \cup {Len(l) + 1}
              /\ Answered(Append(l, e)) = Answered(l) \cup {e.cause}
         /\ e.type # "finding.recorded" => Findings(Append(l, e)) = Findings(l)
         /\ e.type = "finding.recorded" =>
              Findings(Append(l, e)) = Findings(l) \cup {Len(l) + 1}
         /\ Append(l, e) \in Seq(Events) /\ Len(l) \in Nat
         /\ Len(Append(l, e)) = Len(l) + 1 /\ Prefix(l, Append(l, e))
         /\ \A i \in 1..Len(l) : Append(l, e)[i] = l[i]
         /\ Append(l, e)[Len(l) + 1] = e
<1> DEFINE m == Append(l, e)
<1>1. /\ m \in Seq(Events) /\ Len(l) \in Nat /\ Len(m) = Len(l) + 1
      /\ \A i \in 1..Len(l) : m[i] = l[i]
      /\ m[Len(l) + 1] = e
  BY AppendLog
<1>2. 1..Len(m) = (1..Len(l)) \cup {Len(l) + 1} /\ Len(l) + 1 \notin 1..Len(l)
  BY <1>1
<1> HIDE DEF m
<1>3. e.type # "finding.recorded" => Findings(m) = Findings(l)
  BY <1>1, <1>2 DEF Findings
<1>4. e.type = "finding.recorded" => Findings(m) = Findings(l) \cup {Len(l) + 1}
  BY <1>1, <1>2 DEF Findings
<1> QED
  BY <1>3, <1>4, AppendLog, PrefixOfAppend DEF m

\* The mark of the settled window closes the log, once.
LEMMA QuiesceCases ==
  ASSUME HostInv, PlaceInv, Quiesce
  PROVE  /\ \/ log[Len(log)] = Idle /\ log' = log
            \/ log[Len(log)] # Idle /\ log' = Append(log, Idle)
         /\ log' \in Seq(Events) /\ Idle \in Events /\ Idle.type = "runtime.idle"
         /\ cursor = Len(log) /\ Len(log) >= 2 + N
         /\ Len(log') >= 3 + N /\ log'[Len(log')] = Idle
         /\ Responses(log') = Responses(log) /\ Requests(log') = Requests(log)
         /\ Answered(log') = Answered(log) /\ Findings(log') = Findings(log)
         /\ Shape(log')
<1>1. /\ log \in Seq(Events) /\ Len(log) \in Nat /\ cursor \in Nat /\ Shape(log)
      /\ N \in Nat /\ N >= 1
  BY LogTypes, MissionFacts DEF PlaceInv
<1>2. Idle \in Events /\ Idle.type = "runtime.idle"
  BY TypesOfEvents, WorkersFacts DEF Idle, Event, Events
<1>3. /\ pc = "settle" /\ cursor = Len(log)
      /\ log' = IF log[Len(log)] = Idle THEN log ELSE Append(log, Idle)
  BY DEF Quiesce
<1>4. Len(log) >= 2 + N /\ LastType # "mission.completed" /\ Len(log) \in 1..Len(log)
  <2>1. cursor > 0
    BY <1>1, <1>3, SeedShape DEF PlaceInv, LoopPlace
  <2> QED
    BY <1>1, <1>3, <2>1 DEF PlaceInv, LoopPlace
<1>5. CASE log[Len(log)] = Idle
  <2>1. Len(log) >= 3 + N
    BY <1>1, <1>2, <1>4, <1>5, ShapeRead
  <2> QED
    BY <1>1, <1>2, <1>3, <1>4, <1>5, <2>1
<1>6. CASE log[Len(log)] # Idle
  <2>1. \/ log[Len(log)].type \in {"finding.recorded", "agent.requested"}
        \/ log[Len(log)].type = "agent.responded" /\ Wave(log, Len(log)) = <<>>
    <3>1. WellPlaced(log, Len(log))
      BY <1>1, <1>4 DEF Shape
    <3>2. CASE Len(log) = 2 + N
      <4>1. Len(log) \in 3..(2 + N)
        BY <1>1, <3>2
      <4> QED
        BY <3>1, <4>1 DEF WellPlaced, RequestAt, Event
    <3>3. CASE Len(log) > 3 + N
      <4>1. \/ InBlock(log, Len(log)) \/ AskedBy(log, Len(log))
            \/ Settled(log, Len(log)) \/ Finished(log, Len(log))
        BY <3>1, <3>3 DEF WellPlaced
      <4>2. CASE InBlock(log, Len(log))
        <5>1. CASE log[Len(log)].type = "agent.responded"
          <6>1. Len(log) \in Responses(log)
            BY <1>4, <5>1 DEF Responses
          <6>2. Wave(log, Len(log)) = <<>>
            BY <1>1, <1>3, <6>1 DEF PlaceInv, LoopPlace
          <6> QED
            BY <5>1, <6>2
        <5> QED
          BY <4>2, <5>1 DEF InBlock, InjectedTypes
      <4>3. CASE AskedBy(log, Len(log))
        BY <4>3 DEF AskedBy, RequestAt, Event
      <4>4. CASE Settled(log, Len(log)) \/ Finished(log, Len(log))
        BY <1>4, <1>6, <4>4 DEF Settled, Finished, LastType
      <4> QED
        BY <4>1, <4>2, <4>3, <4>4
    <3>4. Len(log) = 3 + N => log[Len(log)] = Idle
      BY <3>1 DEF WellPlaced
    <3> QED
      BY <1>1, <1>4, <1>6, <3>2, <3>3, <3>4
  <2>2. Shape(Append(log, Idle))
    BY <1>1, <1>4, <2>1, GrowIdle
  <2>3. /\ Append(log, Idle) \in Seq(Events) /\ Len(Append(log, Idle)) = Len(log) + 1
        /\ Append(log, Idle)[Len(log) + 1] = Idle
        /\ Responses(Append(log, Idle)) = Responses(log)
        /\ Requests(Append(log, Idle)) = Requests(log)
        /\ Answered(Append(log, Idle)) = Answered(log)
        /\ Findings(Append(log, Idle)) = Findings(log)
    BY <1>1, <1>2, OneMore
  <2> QED
    BY <1>1, <1>2, <1>3, <1>4, <1>6, <2>2, <2>3
<1> QED
  BY <1>5, <1>6

\* going idle and spawning,
LEMMA PlaceQuiesce ==
  ASSUME HostInv, PlaceInv, Quiesce
  PROVE  PlaceInv'
<1>1. /\ Len(log') \in Nat /\ Len(log') >= 3 + N /\ log'[Len(log')] = Idle
      /\ Idle.type = "runtime.idle" /\ Shape(log') /\ N \in Nat
      /\ \A i \in Responses(log') : i \in Nat /\ i <= Len(log')
  BY QuiesceCases, MissionFacts, LenProperties DEF Responses
<1>2. /\ pc = "settle" /\ pc' = "check" /\ cursor' = Len(log') /\ pending' = <<>>
      /\ UNCHANGED <<recorded, planAt, window>> /\ window = {}
  BY DEF Quiesce, identity, PlaceInv, WindowPlace
<1>3. WindowPlace'
  BY <1>2, WindowKept DEF PlaceInv
<1>4. LoopPlace'
  BY <1>1, <1>2 DEF LoopPlace, Standing, LastType
<1>5. PendingPlace'
  BY <1>2, OneOrNone DEF PendingPlace
<1> QED
  BY <1>1, <1>2, <1>3, <1>4, <1>5 DEF PlaceInv

\* What may be injected where the log stands open.
LEMMA OpenTakes ==
  ASSUME HostInv, PlaceInv, Standing, NEW e \in Events, e.type \in InjectedTypes,
         e.cause # 1, e.ver = 0
  PROVE  /\ Shape(Append(log, e)) /\ Len(Append(log, e)) = Len(log) + 1
         /\ Append(log, e)[Len(Append(log, e))] = e
         /\ Len(log) \in Nat /\ Len(log) >= 3 + N
         /\ \A i \in Responses(Append(log, e)) : i <= cursor \/ i = Len(log) + 1
         /\ e.type # "agent.responded" => \A i \in Responses(Append(log, e)) : i <= cursor
<1>1. log \in Seq(Events) /\ Shape(log) /\ Len(log) \in Nat
  BY LogTypes DEF PlaceInv
<1>2. Shape(Append(log, e))
  BY <1>1, GrowBlock DEF Standing, LastType
<1> QED
  BY <1>1, <1>2, AppendPositions DEF Standing

\* A planned event stands after the first wave.
LEMMA PlannedPlace ==
  ASSUME HostInv, PlaceInv, NEW i \in 1..Len(recorded), Planned(i)
  PROVE  /\ i \in Nat /\ i > 3 + N /\ InBlock(recorded, i) /\ recorded[i] \in Events
         /\ recorded[i].type \in InjectedTypes
         /\ recorded[i].cause # 1 /\ recorded[i].ver = 0
<1>1. recorded \in Seq(Events) /\ Shape(recorded) /\ N \in Nat /\ N >= 1
  BY LogTypes, MissionFacts DEF PlaceInv
<1>2. PICK r \in Requests(recorded) : r < i
  BY DEF Planned
<1>3. i \in Responses(recorded) \/ i \in Findings(recorded)
  BY DEF Planned, InjectedTypes, Responses, Findings
<1>4. r \in Nat /\ r >= 3 /\ i \in Nat
  BY <1>1, RequestCases, ShapeRead
<1>5. i > 3 + N /\ InBlock(recorded, i) /\ recorded[i] \in Events
  BY <1>1, <1>2, <1>3, <1>4, ShapeRead
<1> QED
  BY <1>4, <1>5 DEF InBlock

\* An answer closes its window.
LEMMA AnswerIsLast ==
  ASSUME HostInv, PlaceInv, NEW i \in First(window),
         recorded[i].type = "agent.responded"
  PROVE  window = {i}
<1>1. recorded \in Seq(Events) /\ Shape(recorded) /\ Len(recorded) \in Nat
      /\ planAt \in Nat /\ N \in Nat
  BY LogTypes, MissionFacts DEF PlaceInv
<1>2. /\ \A j \in window : j \in 1..Len(recorded) /\ j \in Nat /\ Planned(j)
      /\ i \in window /\ \A j \in window : i <= j
  BY <1>1 DEF PlaceInv, WindowPlace, PlanLeft, First
<1>3. ASSUME NEW j \in window, j # i
      PROVE  FALSE
  <2>1. j > i /\ i + 1 \in i..j /\ i + 1 \in 1..Len(recorded) /\ i > 3 + N
        /\ i \in 1..Len(recorded) /\ i \in Nat
    BY <1>1, <1>2, <1>3, PlannedPlace
  <2>2. recorded[i + 1].type \in InjectedTypes
    BY <1>2, <1>3, <2>1 DEF PlaceInv, WindowPlace
  <2>3. recorded[i + 1] = Idle \/ AskedBy(recorded, i + 1)
    BY <1>1, <2>1, NextEvent
  <2> QED
    BY <2>2, <2>3 DEF InjectedTypes, Idle, Event, AskedBy, RequestAt
<1> QED
  BY <1>2, <1>3

\* (a window is the next stretch of the plan, with no gap in it)
LEMMA WindowOpened ==
  ASSUME HostInv, PlaceInv, NEW k \in First(PlanLeft)
  PROVE  /\ Window(k) \subseteq PlanLeft
         /\ \A i \in Window(k), j \in PlanLeft : j < i => j \in Window(k)
         /\ \A i, j \in Window(k) : \A x \in i..j : recorded[x].type \in InjectedTypes
<1>1. /\ \A j \in PlanLeft : j \in Nat /\ k <= j
      /\ k \in Nat
  BY LogTypes DEF PlanLeft, First
<1>2. Window(k) \subseteq PlanLeft
  BY DEF Window
<1>3. ASSUME NEW i \in Window(k), NEW j \in PlanLeft, j < i
      PROVE  j \in Window(k)
  BY <1>1, <1>2, <1>3 DEF Window
<1>4. ASSUME NEW i \in Window(k), NEW j \in Window(k), NEW x \in i..j
      PROVE  recorded[x].type \in InjectedTypes
  <2>1. x \in k..j
    BY <1>1, <1>2, <1>4
  <2> QED
    BY <1>4, <2>1 DEF Window
<1> QED
  BY <1>2, <1>3, <1>4


\* An answer in hand is an injected event of the mission's calls.
LEMMA ResponseTakes ==
  ASSUME HostInv, PlaceInv, NEW k \in 1..Len(arrived)
  PROVE  /\ Response(arrived[k]) \in Events
         /\ Response(arrived[k]).type = "agent.responded"
         /\ Response(arrived[k]).type \in InjectedTypes
         /\ Response(arrived[k]).cause = arrived[k].req
         /\ Response(arrived[k]).cause # 1 /\ Response(arrived[k]).ver = 0
         /\ arrived[k].req \in Requests(log) /\ arrived[k].req \notin Answered(log)
<1>1. arrived[k].req \in Requests(log) /\ arrived[k].req \notin Answered(log)
      /\ arrived[k] \in Completions
  BY InHandIsRequested, ElementOfSeq DEF HostInv, EachCallInOnePlace, ArrivedIds, TypeOK
<1>2. arrived[k].req >= 3 /\ arrived[k].req \in Nat
  BY <1>1, LogTypes, RequestCases DEF PlaceInv
<1>3. Response(arrived[k]).ver = 0
  BY DEF Response, Event
<1> QED
  BY <1>1, <1>2, <1>3, ResponseType DEF HostInv, InjectedTypes

\* injecting a completion,
LEMMA PlaceArrival ==
  ASSUME HostInv, PlaceInv, InjectArrival
  PROVE  PlaceInv'
<1>1. /\ pc = "check" /\ pc' = "settle" /\ cursor' = cursor
      /\ UNCHANGED <<recorded, planAt, window, pending>> /\ window = {}
      /\ arrived # <<>> /\ arrived \in Seq(Completions)
      /\ log' = Append(log, Response(Head(arrived)))
  BY DEF InjectArrival, CanInjectArrival, identity, PlaceInv, WindowPlace, HostInv, TypeOK
<1>2. Head(arrived) = arrived[1] /\ 1 \in 1..Len(arrived)
  BY <1>1, HeadTailProperties, EmptySeq, LenProperties
<1> DEFINE e == Response(Head(arrived))
<1>3. /\ e \in Events /\ e.type = "agent.responded" /\ e.type \in InjectedTypes
      /\ e.cause # 1 /\ e.ver = 0
  BY <1>2, ResponseTakes
<1>4. log' = Append(log, e)
  BY <1>1
<1>5. Standing /\ cursor > 0 /\ cursor <= Len(log) /\ pending = <<>>
  BY <1>1 DEF PlaceInv, LoopPlace, PendingPlace
<1> HIDE DEF e
<1>6. /\ Shape(log') /\ Len(log') = Len(log) + 1 /\ LastType' = "agent.responded"
      /\ Len(log) \in Nat /\ Len(log) >= 3 + N /\ cursor \in Nat /\ N \in Nat
      /\ \A i \in Responses(log') : i <= cursor \/ i = Len(log) + 1
      /\ \A i \in Responses(log') : i \in Nat
  BY <1>3, <1>4, <1>5, OpenTakes, LogTypes, MissionFacts DEF LastType, Responses
<1>7. LoopPlace'
  BY <1>1, <1>5, <1>6 DEF LoopPlace, OneToProcess
<1>8. PendingPlace'
  BY <1>1, <1>5, OneOrNone DEF PendingPlace
<1>9. WindowPlace'
  BY <1>1, WindowKept DEF PlaceInv
<1> QED
  BY <1>1, <1>6, <1>7, <1>8, <1>9 DEF PlaceInv

\* opening a recorded window,
LEMMA PlaceOpen ==
  ASSUME HostInv, PlaceInv, OpenWindow
  PROVE  PlaceInv'
<1>1. /\ pc = "check" /\ pc' = "group"
      /\ UNCHANGED <<log, recorded, planAt, pending, cursor>>
  BY DEF OpenWindow, identity
<1>2. PICK k \in First(PlanLeft) : window' = Window(k)
  BY DEF OpenWindow
<1>3. PlanLeft' = PlanLeft
  BY <1>1 DEF PlanLeft, Planned, Orphaned
<1>4. WindowPlace'
  BY <1>1, <1>2, <1>3, WindowOpened DEF WindowPlace
<1>5. Standing' /\ Standing
  BY <1>1 DEF PlaceInv, LoopPlace, Standing, LastType
<1>6. LoopPlace'
  BY <1>1, <1>5 DEF PlaceInv, LoopPlace, Standing
<1>7. PendingPlace'
  BY <1>1 DEF PlaceInv, PendingPlace
<1> QED
  BY <1>1, <1>4, <1>6, <1>7 DEF PlaceInv

\* What re-emitting one event of the window does.
LEMMA ReEmitCases ==
  ASSUME HostInv, PlaceInv, ReEmit
  PROVE  \E i \in First(window) :
           /\ i \in PlanLeft /\ i \in 1..Len(recorded) /\ Planned(i)
           /\ planAt < i /\ planAt' = i /\ window' = window \ {i}
           /\ Standing
           /\ \/ /\ recorded[i].type = "agent.responded" /\ window' = {}
                 /\ \E k \in 1..Len(arrived) :
                      /\ arrived[k].req = recorded[i].cause
                      /\ log' = Append(log, Response(arrived[k]))
                      /\ arrived' = Without(arrived, k)
              \/ /\ recorded[i].type = "finding.recorded"
                 /\ log' = Append(log, recorded[i]) /\ arrived' = arrived
<1>1. PICK i \in First(window) :
        /\ planAt' = i /\ window' = window \ {i}
        /\ \/ /\ recorded[i].type = "agent.responded"
              /\ \E k \in First({j \in 1..Len(arrived) :
                                   arrived[j].req = recorded[i].cause}) :
                   /\ log' = Append(log, Response(arrived[k]))
                   /\ arrived' = Without(arrived, k)
           \/ /\ recorded[i].type # "agent.responded"
              /\ log' = Append(log, recorded[i])
              /\ arrived' = arrived
  BY DEF ReEmit
<1>2. i \in PlanLeft /\ i \in 1..Len(recorded) /\ Planned(i) /\ planAt < i
      /\ i \in window
  BY LogTypes DEF First, PlaceInv, WindowPlace, PlanLeft
<1>3. Standing
  BY <1>2 DEF ReEmit, PlaceInv, LoopPlace
<1>4. recorded[i].type \in {"agent.responded", "finding.recorded"}
  BY <1>2 DEF Planned, InjectedTypes
<1>5. recorded[i].type = "agent.responded" => window = {i}
  BY <1>1, AnswerIsLast
<1>6. \A k \in First({j \in 1..Len(arrived) : arrived[j].req = recorded[i].cause}) :
        k \in 1..Len(arrived) /\ arrived[k].req = recorded[i].cause
  BY DEF First
<1>7. CASE recorded[i].type = "agent.responded"
  BY <1>1, <1>2, <1>3, <1>5, <1>6, <1>7
<1>8. CASE recorded[i].type # "agent.responded"
  BY <1>1, <1>2, <1>3, <1>4, <1>8
<1> QED
  BY <1>7, <1>8

\* emitting its next event again,
LEMMA PlaceReEmit ==
  ASSUME HostInv, PlaceInv, ReEmit
  PROVE  PlaceInv'
<1>1. PICK i \in First(window) :
           /\ i \in PlanLeft /\ i \in 1..Len(recorded) /\ Planned(i)
           /\ planAt < i /\ planAt' = i /\ window' = window \ {i}
           /\ Standing
           /\ \/ /\ recorded[i].type = "agent.responded" /\ window' = {}
                 /\ \E k \in 1..Len(arrived) :
                      /\ arrived[k].req = recorded[i].cause
                      /\ log' = Append(log, Response(arrived[k]))
                      /\ arrived' = Without(arrived, k)
              \/ /\ recorded[i].type = "finding.recorded"
                 /\ log' = Append(log, recorded[i]) /\ arrived' = arrived
  BY ReEmitCases
<1>2. /\ pc = "group" /\ pc' = "group" /\ cursor' = cursor
      /\ UNCHANGED <<recorded, pending>> /\ cursor > 0 /\ cursor <= Len(log)
      /\ pending = <<>> /\ cursor \in Nat /\ N \in Nat /\ planAt \in Nat
      /\ Len(recorded) \in Nat /\ Len(log) \in Nat /\ log \in Seq(Events)
  BY LogTypes, MissionFacts DEF ReEmit, identity, PlaceInv, LoopPlace, PendingPlace
<1>3. PendingPlace'
  BY <1>2, OneOrNone DEF PendingPlace
<1>4. WindowPlace'
  <2>1. PlanLeft' = {j \in (i + 1)..Len(recorded) : Planned(j)}
    BY <1>1, <1>2 DEF PlanLeft, Planned, Orphaned
  <2>2. /\ window \subseteq PlanLeft /\ \A j \in window : i <= j
        /\ \A j \in PlanLeft : j \in Nat /\ j \in (planAt + 1)..Len(recorded) /\ Planned(j)
        /\ i \in Nat
    BY <1>1, <1>2 DEF PlaceInv, WindowPlace, First, PlanLeft
  <2>3. window' \subseteq PlanLeft'
    <3> SUFFICES ASSUME NEW j \in window, j # i PROVE j \in PlanLeft'
      BY <1>1
    <3>1. Planned(j) /\ i <= j /\ j \in Nat /\ j <= Len(recorded)
      BY <1>2, <2>2
    <3>2. j \in (i + 1)..Len(recorded)
      BY <1>2, <2>2, <3>1
    <3> QED
      BY <2>1, <3>1, <3>2
  <2>4. PlanLeft' \subseteq PlanLeft /\ i \notin PlanLeft'
    BY <1>1, <1>2, <2>1, <2>2 DEF PlanLeft
  <2>5. \A x \in window', j \in PlanLeft' : j < x => j \in window'
    BY <1>1, <2>4 DEF PlaceInv, WindowPlace
  <2>6. \A x, y \in window' : \A z \in x..y : recorded'[z].type \in InjectedTypes
    BY <1>1, <1>2 DEF PlaceInv, WindowPlace
  <2> QED
    BY <1>2, <2>3, <2>5, <2>6 DEF WindowPlace
<1>5. CASE /\ recorded[i].type = "finding.recorded" /\ log' = Append(log, recorded[i])
  <2> DEFINE e == recorded[i]
  <2>1. /\ e \in Events /\ e.type = "finding.recorded" /\ e.type \in InjectedTypes
        /\ e.cause # 1 /\ e.ver = 0 /\ log' = Append(log, e)
    BY <1>1, <1>5, PlannedPlace
  <2> HIDE DEF e
  <2>2. /\ Shape(log') /\ Len(log') = Len(log) + 1 /\ LastType' = "finding.recorded"
        /\ Len(log) >= 3 + N
        /\ \A j \in Responses(log') : j <= cursor
    BY <1>1, <2>1, OpenTakes DEF LastType
  <2>3. LoopPlace'
    BY <1>2, <2>2 DEF LoopPlace, Standing
  <2> QED
    BY <1>2, <1>3, <1>4, <2>2, <2>3 DEF PlaceInv
<1>6. ASSUME window' = {}, NEW k \in 1..Len(arrived),
             log' = Append(log, Response(arrived[k]))
      PROVE  PlaceInv'
  <2> DEFINE e == Response(arrived[k])
  <2>1. /\ e \in Events /\ e.type = "agent.responded" /\ e.type \in InjectedTypes
        /\ e.cause # 1 /\ e.ver = 0 /\ log' = Append(log, e)
    BY <1>6, ResponseTakes
  <2> HIDE DEF e
  <2>2. /\ Shape(log') /\ Len(log') = Len(log) + 1 /\ LastType' = "agent.responded"
        /\ Len(log) >= 3 + N
        /\ \A j \in Responses(log') : j <= cursor \/ j = Len(log) + 1
        /\ \A j \in Responses(log') : j \in Nat
    BY <1>1, <2>1, OpenTakes DEF LastType, Responses
  <2>3. OneToProcess'
    BY <1>2, <2>2 DEF OneToProcess
  <2>4. LoopPlace'
    BY <1>2, <1>6, <2>2, <2>3 DEF LoopPlace
  <2> QED
    BY <1>2, <1>3, <1>4, <2>2, <2>4 DEF PlaceInv
<1> QED
  BY <1>1, <1>5, <1>6


\* closing it,
LEMMA PlaceClose ==
  ASSUME HostInv, PlaceInv, CloseWindow
  PROVE  PlaceInv'
<1>1. /\ pc = "group" /\ pc' = "settle" /\ window = {}
      /\ UNCHANGED <<log, recorded, planAt, window, pending, cursor>>
      /\ cursor > 0 /\ cursor <= Len(log) /\ cursor \in Nat /\ N \in Nat
      /\ Len(log) \in Nat /\ Len(log) >= 3 + N
      /\ \A i \in Responses(log) : i \in Nat
  BY LogTypes, MissionFacts
     DEF CloseWindow, identity, PlaceInv, LoopPlace, Responses
<1>2. WindowPlace'
  BY <1>1, WindowKept DEF PlaceInv
<1>3. PendingPlace'
  BY <1>1 DEF PlaceInv, PendingPlace
<1>4. \/ Standing
      \/ LastType = "agent.responded" /\ OneToProcess /\ cursor < Len(log)
  BY <1>1 DEF PlaceInv, LoopPlace
<1>5. LastType # "mission.completed" /\ OneToProcess
  BY <1>1, <1>4 DEF Standing, OneToProcess
<1>6. \A i \in Responses(log) : i = Len(log) => i > cursor \/ Wave(log, i) = <<>>
  <2>1. CASE Standing
    BY <2>1 DEF Standing, LastType, Responses
  <2> QED
    BY <1>4, <2>1
<1>7. LoopPlace'
  BY <1>1, <1>5, <1>6 DEF LoopPlace, LastType, OneToProcess
<1> QED
  BY <1>1, <1>2, <1>3, <1>7 DEF PlaceInv

\* Leaving the loop, waiting and waking move the loop, never the log.
LEMMA PlaceControl ==
  ASSUME HostInv, PlaceInv,
         \/ ObserveStop \/ Await \/ GoIdle \/ Spin \/ Wake \/ Fail \/ Interrupt
  PROVE  PlaceInv'
<1>1. /\ UNCHANGED <<log, recorded, planAt, window, pending, cursor>>
      /\ cursor \in Nat /\ N \in Nat /\ Len(log) \in Nat
      /\ cursor <= Len(log)
  BY LogTypes, MissionFacts
     DEF PlaceInv, LoopPlace, identity, ObserveStop, Await, GoIdle, Spin, Wake, Fail,
         Interrupt
<1>2. CASE Interrupt
  <2>1. pc' = pc /\ reason' = reason
    BY <1>2 DEF Interrupt
  <2>2. LoopPlace'
    BY <1>1, <2>1 DEF PlaceInv, LoopPlace, Standing, LastType, OneToProcess
  <2>3. WindowPlace'
    BY <1>1, <2>1, WindowKept DEF PlaceInv, WindowPlace
  <2>4. PendingPlace'
    BY <1>1, <2>1 DEF PlaceInv, PendingPlace
  <2> QED
    BY <1>1, <2>2, <2>3, <2>4 DEF PlaceInv
<1>3. CASE \/ ObserveStop \/ Await \/ GoIdle \/ Spin \/ Wake \/ Fail
  <2>1. /\ pc \in {"check", "wait"} /\ window = {} /\ pending = <<>> /\ cursor > 0
        /\ Standing
    BY <1>3 DEF ObserveStop, Await, GoIdle, Spin, Wake, Fail, PlaceInv, LoopPlace,
                WindowPlace, PendingPlace
  <2>2. WindowPlace'
    BY <1>1, <2>1, WindowKept DEF PlaceInv
  <2>3. PendingPlace'
    BY <1>1, <2>1, OneOrNone DEF PendingPlace
  <2>4. Standing' /\ LastType' = LastType /\ LastType # "mission.completed"
    BY <1>1, <2>1 DEF Standing, LastType
  <2>5. \/ pc' = "check" /\ (reason' # "raised" => pc = "check" /\ reason # "raised")
        \/ pc' = "wait" /\ reason' = "none"
        \/ pc' = "settle"
        \/ pc' = "error"
    BY <1>3 DEF ObserveStop, Await, GoIdle, Spin, Wake, Fail, Leave, Flushing
  <2>6. pc' = "settle" => LoopPlace'
    <3>1. Len(log) >= 2 + N
      BY <1>1, <2>1 DEF Standing
    <3>2. OneToProcess'
      BY <1>1, <2>1, AppendPositions DEF Standing, OneToProcess, Responses
    <3>3. \A i \in Responses(log) : i # Len(log)
      BY <2>1 DEF Standing, LastType, Responses
    <3> QED
      BY <1>1, <2>1, <2>4, <3>1, <3>2, <3>3 DEF LoopPlace
  <2>7. pc' # "settle" => LoopPlace'
    BY <1>1, <2>1, <2>4, <2>5 DEF PlaceInv, LoopPlace
  <2> QED
    BY <1>1, <2>2, <2>3, <2>6, <2>7 DEF PlaceInv
<1> QED
  BY <1>2, <1>3

CompletedEvent == Event("mission.completed", Gate, 0, 0, MissionOk, 0)

\* (the last event is one)
LEMMA CompletedType ==
  CompletedEvent \in Events /\ CompletedEvent.type = "mission.completed"
<1>1. MissionOk \in BOOLEAN
  BY DEF MissionOk, GateFailed
<1>2. 0 \in Nat
  OBVIOUS
<1> QED
  BY <1>1, <1>2, EventType, TypesOfEvents, WorkersFacts DEF CompletedEvent

\* ending the mission;
LEMMA PlaceComplete ==
  ASSUME HostInv, PlaceInv, Complete
  PROVE  PlaceInv'
<1> DEFINE e == CompletedEvent
<1>1. /\ pc = "check" /\ pc' = "done" /\ reason # "raised" /\ log' = Append(log, e)
      /\ UNCHANGED <<recorded, planAt, window, pending, cursor>> /\ window = {}
      /\ pending = <<>> /\ cursor = Len(log) /\ log[Len(log)] = Idle /\ Standing
  BY DEF Complete, CompletedEvent, identity, PlaceInv, LoopPlace, WindowPlace, PendingPlace
<1>2. e \in Events /\ e.type = "mission.completed"
  BY CompletedType
<1> HIDE DEF e
<1>3. Shape(log')
  BY <1>1, <1>2, LogTypes, GrowFinished DEF PlaceInv, Standing
<1>4. Len(log') = Len(log) + 1 /\ Len(log) \in Nat
  BY <1>1, <1>2, LogTypes, AppendPositions
<1>5. LoopPlace' /\ PendingPlace' /\ WindowPlace'
  BY <1>1, <1>4, OneOrNone, WindowKept DEF LoopPlace, PendingPlace, PlaceInv
<1> QED
  BY <1>1, <1>3, <1>5 DEF PlaceInv

\* A finding of a call in hand.
LEMMA FindingTakes ==
  ASSUME HostInv, PlaceInv, NEW id \in running, NEW verdict \in BOOLEAN
  PROVE  /\ Finding(id, verdict) \in Events
         /\ Finding(id, verdict).type = "finding.recorded"
         /\ Finding(id, verdict).type \in InjectedTypes
         /\ Finding(id, verdict).worker = log[id].worker
         /\ Finding(id, verdict).cause = id
         /\ Finding(id, verdict).ok = verdict
         /\ Finding(id, verdict).by = attempt
         /\ Finding(id, verdict).cause # 1 /\ Finding(id, verdict).ver = 0
         /\ id \in Requests(log) /\ id \notin Answered(log)
<1>1. id \in Requests(log) /\ id \notin Answered(log)
  BY DEF HostInv, EachCallInOnePlace
<1>2. id >= 3 /\ id \in Nat
  BY <1>1, LogTypes, RequestCases DEF PlaceInv
<1>3. /\ Finding(id, verdict).ver = 0 /\ Finding(id, verdict).cause = id
      /\ Finding(id, verdict).ok = verdict /\ Finding(id, verdict).by = attempt
      /\ Finding(id, verdict).worker = log[id].worker
  BY DEF Finding, Event
<1> QED
  BY <1>1, <1>2, <1>3, FindingType DEF InjectedTypes

\* so do the calls,
LEMMA PlaceCalls ==
  ASSUME HostInv, PlaceInv,
         \/ StartTask
         \/ \E id \in running : \E ok \in BOOLEAN :
              WorkerAnswer(id, ok) \/ RunGate(id, ok) \/ WorkerEmit(id) \/ WorkerRaise(id)
  PROVE  PlaceInv'
<1>1. /\ pc = "wait" /\ pc' = "wait" /\ window = {} /\ pending = <<>> /\ Standing
      /\ UNCHANGED <<recorded, planAt, window, pending, cursor, reason>>
      /\ reason = "none" /\ cursor > 0 /\ cursor <= Len(log)
      /\ cursor \in Nat /\ N \in Nat /\ Len(log) \in Nat
  BY LogTypes, MissionFacts
     DEF StartTask, WorkerAnswer, RunGate, WorkerEmit, WorkerRaise, identity,
         PlaceInv, LoopPlace, WindowPlace, PendingPlace
<1>2. WindowPlace' /\ PendingPlace'
  BY <1>1, WindowKept, OneOrNone DEF PlaceInv, PendingPlace
<1>3. CASE log' = log
  <2>1. Standing'
    BY <1>1, <1>3 DEF Standing, LastType
  <2>2. LoopPlace'
    BY <1>1, <1>3, <2>1 DEF LoopPlace
  <2> QED
    BY <1>1, <1>2, <1>3, <2>2 DEF PlaceInv
<1>4. ASSUME NEW id \in running, NEW ok \in BOOLEAN, log' = Append(log, Finding(id, ok))
      PROVE  PlaceInv'
  <2> DEFINE e == Finding(id, ok)
  <2>1. /\ e \in Events /\ e.type = "finding.recorded" /\ e.type \in InjectedTypes
        /\ e.cause # 1 /\ e.ver = 0 /\ log' = Append(log, e)
    BY <1>4, FindingTakes
  <2> HIDE DEF e
  <2>2. /\ Shape(log') /\ Len(log') = Len(log) + 1 /\ LastType' = "finding.recorded"
        /\ Len(log) >= 3 + N
        /\ \A j \in Responses(log') : j <= cursor
    BY <1>1, <2>1, OpenTakes DEF LastType
  <2>3. LoopPlace'
    BY <1>1, <2>2 DEF LoopPlace, Standing
  <2> QED
    BY <1>1, <1>2, <2>2, <2>3 DEF PlaceInv
<1>5. TRUE \in BOOLEAN
  OBVIOUS
<1> QED
  BY <1>3, <1>4, <1>5 DEF StartTask, WorkerAnswer, RunGate, WorkerEmit, WorkerRaise

\* A crash loses requests that were collected and not spawned, nothing else.
LEMMA CrashCut ==
  ASSUME HostInv, PlaceInv, Crash
  PROVE  /\ log' \in Seq(Events) /\ Prefix(log', log)
         /\ \A i \in 1..Len(log) : i > Len(log') => i \in In(pending)
<1>1. /\ log \in Seq(Events) /\ Len(log) \in Nat /\ pending \in Seq(Nat)
      /\ Len(pending) \in Nat
      /\ \A k \in 1..Len(pending) : pending[k] = (Len(log) - Len(pending)) + k
  BY LogTypes, LenProperties DEF HostInv, TypeOK, PlaceInv, PendingPlace
<1>2. PICK lost \in 0..Len(pending) : log' = SubSeq(log, 1, Len(log) - lost)
  BY DEF Crash
<1>3. Len(pending) <= Len(log)
  <2> SUFFICES ASSUME Len(pending) > 0 PROVE Len(pending) <= Len(log)
    BY <1>1
  <2>1. 1 \in 1..Len(pending)
    BY <1>1
  <2>2. pending[1] \in In(pending)
    BY <2>1 DEF In
  <2>3. pending[1] \in Requests(log) /\ Shape(log)
    BY <2>2 DEF PlaceInv, HostInv, EachCallInOnePlace
  <2>4. pending[1] >= 3 /\ pending[1] \in Nat
    BY <1>1, <2>3, RequestCases
  <2>5. pending[1] = (Len(log) - Len(pending)) + 1
    BY <1>1, <2>1
  <2> QED
    BY <1>1, <2>4, <2>5
<1>4. lost \in Nat /\ lost <= Len(pending)
  BY <1>1
<1>5. Len(log) - lost \in 0..Len(log)
  BY <1>1, <1>3, <1>4
<1>6. log' \in Seq(Events) /\ Prefix(log', log) /\ Len(log') = Len(log) - lost
  BY <1>1, <1>2, <1>5, PrefixOfCut, PrefixLog
<1>7. ASSUME NEW i \in 1..Len(log), i > Len(log')
      PROVE  i \in In(pending)
  <2> DEFINE k == i - (Len(log) - Len(pending))
  <2>1. k \in 1..Len(pending) /\ (Len(log) - Len(pending)) + k = i
    BY <1>1, <1>4, <1>6, <1>7
  <2> HIDE DEF k
  <2>2. pending[k] = i
    BY <1>1, <2>1
  <2> QED
    BY <2>1, <2>2 DEF In
<1> QED
  BY <1>6, <1>7

\* and crashes and restarts.
LEMMA PlaceWorld ==
  ASSUME HostInv, PlaceInv,
         Crash \/ \E m \in LaterModes, edits \in EditSets : Restart(m, edits)
  PROVE  PlaceInv'
<1>1. /\ log \in Seq(Events) /\ Len(log) \in Nat /\ pending \in Seq(Nat)
      /\ Len(pending) \in Nat
  BY LogTypes, LenProperties DEF HostInv, TypeOK
<1>2. cursor' = 0 /\ pending' = <<>> /\ planAt' = 0 /\ window' = {}
  BY DEF Crash, Restart, Forget
<1>3. PendingPlace' /\ WindowPlace'
  BY <1>2, OneOrNone DEF PendingPlace, WindowPlace
<1>4. CASE Crash
  <2>3. log' \in Seq(Events) /\ Shape(log')
    BY <1>1, <1>4, CrashCut, ShapePrefix DEF PlaceInv
  <2>4. LoopPlace'
    BY <1>2, <1>4, <2>3, LenProperties DEF Crash, LoopPlace
  <2> QED
    BY <1>3, <1>4, <2>3, <2>4 DEF PlaceInv, Crash, identity
<1>5. ASSUME NEW m \in LaterModes, NEW edits \in EditSets, Restart(m, edits)
      PROVE  PlaceInv'
  <2>1. log' = Seed /\ recorded' = log /\ pc' = "settle"
    BY <1>5 DEF Restart
  <2>2. LoopPlace'
    BY <1>2, <2>1, SeedShape DEF LoopPlace, LastType, OneToProcess, Fact, Event
  <2> QED
    BY <1>3, <2>1, <2>2, SeedShape DEF PlaceInv
<1> QED
  BY <1>4, <1>5

\* Every step keeps the places, whatever is amended or raised.
LEMMA PlaceInvStep == HostInv /\ PlaceInv /\ [Next]_vars => PlaceInv'
<1> SUFFICES ASSUME HostInv, PlaceInv, [Next]_vars PROVE PlaceInv'
  OBVIOUS
<1>1. CASE UNCHANGED vars
  <2>1. UNCHANGED <<log, recorded, planAt, window, pending, cursor, pc, reason>>
    BY <1>1 DEF vars
  <2> QED
    BY <2>1, WindowKept
       DEF PlaceInv, LoopPlace, PendingPlace, Standing, LastType, OneToProcess, WindowPlace
<1>2. CASE Loop
  BY <1>2, PlaceProcess, PlaceQuiesce, PlaceArrival, PlaceOpen, PlaceReEmit, PlaceClose,
     PlaceControl, PlaceComplete DEF Loop
<1>3. CASE StartTask \/ Answers \/ \E id \in running : WorkerEmit(id) \/ WorkerRaise(id)
  <2>1. TRUE \in BOOLEAN
    OBVIOUS
  <2> QED
    BY <1>3, <2>1, PlaceCalls DEF Answers
<1>4. CASE \/ Interrupt \/ Crash
           \/ \E m \in LaterModes, edits \in EditSets : Restart(m, edits)
  BY <1>4, PlaceControl, PlaceWorld
<1> QED
  BY <1>1, <1>2, <1>3, <1>4 DEF Next


-----------------------------------------------------------------------------
(***************************************************************************)
(* What the place of the loop gives at once: how an answer gets into the   *)
(* log, and in which order the waves go out.                               *)
(***************************************************************************)
\* Only two actions put an answer into the log.
LEMMA InjectionCases ==
  ASSUME HostInv, PlaceInv, [Next]_vars, attempt' = attempt,
         NEW i \in Responses(log'), i > Len(log)
  PROVE  InjectArrival \/ ReEmit
<1>1. log \in Seq(Events) /\ Len(log) \in Nat /\ attempt \in Nat
  BY LogTypes DEF HostInv, TypeOK
<1>2. \A e \in Events : log' = Append(log, e) => e.type = "agent.responded"
  BY <1>1, AppendPositions
<1>3. Responses(log') # Responses(log)
  BY <1>1 DEF Responses
<1>4. log' # log
  BY <1>3
<1>5. ~ProcessEvent
  <2> SUFFICES ASSUME ProcessEvent PROVE FALSE
    OBVIOUS
  <2>1. \A w \in Workers : Requested(w, Len(log)) \in Events
                           /\ Requested(w, Len(log)).type = "agent.requested"
    BY <1>1, RequestedType DEF HostInv
  <2>2. log' # Seed \o [k \in 1..N |-> Requested(AgentList[k], 1)]
    <3> DEFINE t == [k \in 1..N |-> Requested(AgentList[k], 1)]
    <3>1. \A k \in 1..N : Requested(AgentList[k], 1) \in Events
      BY MissionFacts, WorkersFacts, RequestedType DEF HostInv
    <3>2. t \in [1..N -> Events]
      BY <3>1
    <3>3. \A k \in 1..N : t[k].type = "agent.requested"
      BY DEF Requested, Event
    <3> HIDE DEF t
    <3>4. t \in Seq(Events) /\ Len(t) = N
      BY <3>2, MissionFacts, FunctionIsSeq
    <3>5. Responses(Seed \o t) = {}
      BY <3>3, <3>4, SeedShape, AppendWave
    <3> QED
      BY <3>5 DEF t
  <2> QED
    BY <1>2, <1>4, <2>1, <2>2, ProcessCases
<1>6. ~Quiesce
  BY <1>3, QuiesceCases
<1>7. ~Complete
  BY <1>2, CompletedType DEF Complete, CompletedEvent
<1>8. \A id \in running : ~WorkerEmit(id) /\ ~\E ok \in BOOLEAN : RunGate(id, ok)
  <2>1. \A id \in running, ok \in BOOLEAN :
          Finding(id, ok) \in Events /\ Finding(id, ok).type = "finding.recorded"
    BY FindingTakes
  <2>2. TRUE \in BOOLEAN
    OBVIOUS
  <2> QED
    BY <1>2, <2>1, <2>2 DEF WorkerEmit, RunGate
<1>9. ~Crash
  <2> SUFFICES ASSUME Crash PROVE FALSE
    OBVIOUS
  <2>1. /\ log' \in Seq(Events) /\ Len(log') <= Len(log) /\ Len(log') \in Nat
    BY CrashCut, LenProperties DEF Prefix
  <2> QED
    BY <1>1, <2>1 DEF Responses
<1>10. \A m \in LaterModes, edits \in EditSets : ~Restart(m, edits)
  BY <1>1 DEF Restart
<1> QED
  BY <1>4, <1>5, <1>6, <1>7, <1>8, <1>9, <1>10
     DEF Next, Loop, Answers, vars, OpenWindow, CloseWindow, ObserveStop, Await, GoIdle,
         Spin, Wake, Fail, StartTask, WorkerAnswer, WorkerRaise, Interrupt

\* Where an exception can come from.
RaiseInv == raised \/ reason = "raised" => MayRaise \/ mode = "replay"

\* Without exceptions no run is left by one.
LEMMA RaiseStep == HostInv /\ PlaceInv /\ RaiseInv /\ [Next]_vars => RaiseInv'
<1> SUFFICES ASSUME HostInv, PlaceInv, RaiseInv, [Next]_vars PROVE RaiseInv'
  OBVIOUS
<1>1. CASE UNCHANGED <<raised, reason, mode>>
  BY <1>1 DEF RaiseInv
<1>2. CASE ObserveStop \/ GoIdle \/ Spin \/ Wake
  BY <1>2 DEF RaiseInv, ObserveStop, GoIdle, Spin, Wake, Leave, Flushing, identity
<1>3. CASE StartTask
  BY <1>3 DEF RaiseInv, StartTask, identity
<1>4. CASE \E id \in running : WorkerRaise(id)
  BY <1>4 DEF RaiseInv, WorkerRaise, identity
<1>5. CASE Crash \/ \E m \in LaterModes, edits \in EditSets : Restart(m, edits)
  BY <1>5 DEF RaiseInv, Crash, Restart, Forget
<1>6. CASE \/ ProcessEvent \/ Quiesce \/ InjectArrival \/ OpenWindow \/ ReEmit
           \/ CloseWindow \/ Await \/ Fail \/ Complete
  BY <1>1, <1>6 DEF ProcessEvent, Quiesce, InjectArrival, OpenWindow, ReEmit, CloseWindow,
     Await, Fail, Complete, identity
<1>7. CASE Answers \/ (\E id \in running : WorkerEmit(id)) \/ Interrupt
  BY <1>1, <1>7 DEF Answers, WorkerAnswer, RunGate, WorkerEmit, Interrupt, identity
<1>8. CASE UNCHANGED vars
  BY <1>1, <1>8 DEF vars
<1> QED
  BY <1>2, <1>3, <1>4, <1>5, <1>6, <1>7, <1>8 DEF Next, Loop

\* host.py, "drained to quiescence before every injection": while no worker
\* lets an exception escape, an answer is appended only when every event
\* before it is processed, or as the next event of its recorded window.
THEOREM InjectsSettled ==
  ASSUME ~MayRaise
  PROVE  Spec => InjectsWhenSettled
<1> DEFINE Inv == HostInv /\ PlaceInv /\ RaiseInv
<1>1. Init => Inv
  BY HostInvInit, PlaceInvInit DEF Init, RaiseInv
<1>2. Inv /\ [Next]_vars => Inv'
  BY HostInvStep, PlaceInvStep, RaiseStep
<1>3. Inv /\ [Next]_vars =>
        [\A i \in Responses(log') : i > Len(log) /\ attempt' = attempt
           => cursor = Len(log) \/ pc = "group"]_vars
  <2> SUFFICES ASSUME Inv, [Next]_vars, NEW i \in Responses(log'), i > Len(log),
                      attempt' = attempt
               PROVE  cursor = Len(log) \/ pc = "group"
    OBVIOUS
  <2>1. CASE InjectArrival
    BY <2>1 DEF InjectArrival, RaiseInv, PlaceInv, LoopPlace
  <2>2. CASE ReEmit
    BY <2>2 DEF ReEmit
  <2> QED
    BY <2>1, <2>2, InjectionCases
<1> QED
  BY <1>1, <1>2, <1>3, PTL DEF Spec, InjectsWhenSettled

\* With exceptions too: the one way an answer gets into a log with unprocessed
\* events is host._flush_arrived, after Host.run was left by an exception.
SettledUnlessRaised ==
  [][\A i \in Responses(log') : i > Len(log) /\ attempt' = attempt
       => cursor = Len(log) \/ pc = "group" \/ reason = "raised"]_vars

\* The flush after an exception is the only injection into an unsettled log.
THEOREM FlushInjectsUnsettled == Spec => SettledUnlessRaised
<1> DEFINE Inv == HostInv /\ PlaceInv
<1>1. Init => Inv
  BY HostInvInit, PlaceInvInit
<1>2. Inv /\ [Next]_vars => Inv'
  BY HostInvStep, PlaceInvStep
<1>3. Inv /\ [Next]_vars =>
        [\A i \in Responses(log') : i > Len(log) /\ attempt' = attempt
           => cursor = Len(log) \/ pc = "group" \/ reason = "raised"]_vars
  <2> SUFFICES ASSUME Inv, [Next]_vars, NEW i \in Responses(log'), i > Len(log),
                      attempt' = attempt
               PROVE  cursor = Len(log) \/ pc = "group" \/ reason = "raised"
    OBVIOUS
  <2>1. CASE InjectArrival
    BY <2>1 DEF InjectArrival, PlaceInv, LoopPlace
  <2>2. CASE ReEmit
    BY <2>2 DEF ReEmit
  <2> QED
    BY <2>1, <2>2, InjectionCases
<1> QED
  BY <1>1, <1>2, <1>3, PTL DEF Spec, SettledUnlessRaised

\* Mission's waves never overlap: a request of a later wave is in the log only
\* after an answer to every earlier request, and no worker is asked twice,
\* whatever is amended, interrupted, raised or crashed on the way.
Sequential(l) ==
  \A p \in Requests(l) : p > 2 + N =>
    \A q \in Requests(l) : q < p => \E r \in Responses(l) : r < p /\ l[r].cause = q
OncePerWorker(l) ==
  \A p, q \in Requests(l) : l[p].worker = l[q].worker => p = q

\* The places give the order of the waves.
LEMMA InWaves == HostInv /\ PlaceInv => Sequential(log) /\ OncePerWorker(log)
BY LogTypes, WavesAreSequential, AskedOnce DEF PlaceInv, Sequential, OncePerWorker

\* The statement of the waves, for every mission and every chain of attempts.
THEOREM WavesNeverOverlap == Spec => [](Sequential(log) /\ OncePerWorker(log))
<1>1. Init => HostInv /\ PlaceInv
  BY HostInvInit, PlaceInvInit
<1>2. HostInv /\ PlaceInv /\ [Next]_vars => (HostInv /\ PlaceInv)'
  BY HostInvStep, PlaceInvStep
<1> QED
  BY <1>1, <1>2, InWaves, PTL DEF Spec


-----------------------------------------------------------------------------
(***************************************************************************)
(* What the actions do to the sets of calls.                               *)
(***************************************************************************)
OpenCalls == Requests(log) \ Answered(log)

\* Processing an event requests a wave, and only when no call is open.
LEMMA ProcessMoves ==
  ASSUME HostInv, PlaceInv, ProcessEvent
  PROVE  /\ log' \in Seq(Events) /\ Prefix(log, log')
         /\ Responses(log') = Responses(log) /\ Answered(log') = Answered(log)
         /\ Findings(log') = Findings(log)
         /\ \E new \in SUBSET Nat :
              /\ In(pending') = In(pending) \cup new
              /\ Requests(log') = Requests(log) \cup new
              /\ new \cap 1..Len(log) = {}
              /\ new # {} => OpenCalls = {}
         /\ UNCHANGED <<fresh, queued, running, arrived, recorded, mode, stop, planAt,
                        raised, reason, version, attempt>>
         /\ pc = "settle" /\ pc' = "settle"
<1>1. /\ log \in Seq(Events) /\ Len(log) \in Nat /\ OneAnswerIn(log)
      /\ Shape(log) /\ pending \in Seq(Nat) /\ N \in Nat
  BY LogTypes, MissionFacts DEF PlaceInv, HostInv, TypeOK
<1>2. /\ UNCHANGED <<fresh, queued, running, arrived, recorded, mode, stop, planAt,
                     raised, reason, version, attempt>>
      /\ pc = "settle" /\ pc' = "settle"
  BY DEF ProcessEvent, identity, tasks
<1>3. CASE log' = log /\ pending' = pending
  <2>1. Prefix(log, log')
    BY <1>1, <1>3 DEF Prefix
  <2> QED
    BY <1>1, <1>2, <1>3, <2>1
<1>4. CASE /\ log = Seed /\ pending = <<>>
           /\ log' = Seed \o [k \in 1..N |-> Requested(AgentList[k], 1)]
           /\ pending' = [k \in 1..N |-> 2 + k]
  <2> DEFINE t == [k \in 1..N |-> Requested(AgentList[k], 1)]
  <2>1. \A k \in 1..N : Requested(AgentList[k], 1) \in Events
    BY MissionFacts, WorkersFacts, RequestedType DEF HostInv
  <2>2. t \in [1..N -> Events]
    BY <2>1
  <2>3. \A k \in 1..N : t[k].type = "agent.requested"
    BY DEF Requested, Event
  <2>4. log' = log \o t
    BY <1>4
  <2> HIDE DEF t
  <2>5. t \in Seq(Events) /\ Len(t) = N
    BY <1>1, <2>2, FunctionIsSeq
  <2> DEFINE new == {2 + k : k \in 1..N}
  <2>6. /\ log' \in Seq(Events) /\ Prefix(log, log')
        /\ Requests(log') = Requests(log) \cup new
        /\ Responses(log') = Responses(log) /\ Answered(log') = Answered(log)
    <3>1. Len(log) = 2
      BY <1>4, SeedShape
    <3>2. \A k \in 1..Len(t) : t[k].type = "agent.requested"
      BY <2>3, <2>5
    <3>3. /\ log \o t \in Seq(Events) /\ Responses(log \o t) = Responses(log)
          /\ Answered(log \o t) = Answered(log)
          /\ Requests(log \o t) = Requests(log) \cup {Len(log) + k : k \in 1..Len(t)}
      BY <1>1, <2>5, <3>2, AppendWave
    <3>4. Prefix(log, log \o t)
      BY <1>1, <2>5, PrefixOfWave
    <3>5. {Len(log) + k : k \in 1..Len(t)} = new
      BY <2>5, <3>1
    <3> QED
      BY <2>4, <3>3, <3>4, <3>5
  <2>7. Findings(log') = Findings(log)
    <3>1. /\ Len(log') = 2 + N
          /\ \A i \in 1..(2 + N) : log'[i] = IF i <= 2 THEN log[i] ELSE t[i - 2]
      <4>1. Len(log) = 2
        BY <1>4, SeedShape
      <4>2. /\ Len(log \o t) = Len(log) + Len(t)
            /\ \A i \in 1..(Len(log) + Len(t)) :
                 (log \o t)[i] = IF i <= Len(log) THEN log[i] ELSE t[i - Len(log)]
        BY <1>1, <2>5, ConcatProperties
      <4> QED
        BY <2>4, <2>5, <4>1, <4>2
    <3>2. \A i \in 1..(2 + N) : i > 2 => log'[i].type = "agent.requested"
      <4> SUFFICES ASSUME NEW i \in 1..(2 + N), i > 2
                   PROVE  log'[i].type = "agent.requested"
        OBVIOUS
      <4>1. i - 2 \in 1..N /\ log'[i] = t[i - 2]
        BY <1>1, <3>1
      <4> QED
        BY <2>3, <4>1
    <3>3. \A i \in 1..2 : i \in 1..(2 + N) /\ log'[i] = log[i]
      BY <1>1, <3>1
    <3>4. Len(log) = 2 /\ \A i \in 1..(2 + N) : i <= 2 => i \in 1..2
      BY <1>4, SeedShape
    <3> QED
      BY <3>1, <3>2, <3>3, <3>4 DEF Findings
  <2>8. In(pending') = new /\ In(pending) = {}
    <3>1. Len(pending') = N /\ \A k \in 1..N : pending'[k] = 2 + k
      BY <1>1, <1>4
    <3> QED
      BY <1>4, <3>1, EmptyIn DEF In
  <2>9. new \in SUBSET Nat /\ new \cap 1..Len(log) = {}
    <3>1. Len(log) = 2
      BY <1>4, SeedShape
    <3> QED
      BY <1>1, <3>1
  <2>10. OpenCalls = {}
    BY <1>4, SeedShape DEF OpenCalls
  <2> HIDE DEF new
  <2>11. /\ In(pending') = In(pending) \cup new
         /\ new # {} => OpenCalls = {}
    BY <2>8, <2>10
  <2> QED
    BY <1>2, <2>6, <2>7, <2>9, <2>11
<1>5. ASSUME cursor + 1 = Len(log), Len(log) \in Responses(log), NEW w \in Workers,
             Wave(log, Len(log)) = <<w>>,
             log' = Append(log, Requested(w, Len(log))),
             pending' = Append(pending, Len(log) + 1)
      PROVE  /\ Prefix(log, log') /\ log' \in Seq(Events)
             /\ Responses(log') = Responses(log) /\ Answered(log') = Answered(log)
             /\ Findings(log') = Findings(log)
             /\ In(pending') = In(pending) \cup {Len(log) + 1}
             /\ Requests(log') = Requests(log) \cup {Len(log) + 1}
             /\ OpenCalls = {}
  <2> DEFINE e == Requested(w, Len(log))
  <2>1. e \in Events /\ e.type = "agent.requested" /\ log' = Append(log, e)
    BY <1>1, <1>5, RequestedType DEF HostInv
  <2> HIDE DEF e
  <2>2. /\ Prefix(log, log') /\ log' \in Seq(Events) /\ Len(log') = Len(log) + 1
        /\ Responses(log') = Responses(log) /\ Answered(log') = Answered(log)
        /\ Findings(log') = Findings(log) /\ log'[Len(log) + 1] = e
        /\ \A i \in 1..Len(log) : log'[i] = log[i]
    BY <1>1, <2>1, OneMore
  <2>3. Requests(log') = Requests(log) \cup {Len(log) + 1}
    <3>1. 1..Len(log') = (1..Len(log)) \cup {Len(log) + 1}
      BY <1>1, <2>2
    <3> QED
      BY <2>1, <2>2, <3>1 DEF Requests
  <2>4. In(pending') = In(pending) \cup {Len(log) + 1}
    BY <1>1, <1>5, AppendIn
  <2>5. OpenCalls = {}
    <3>1. Shape(log') /\ OneAnswerIn(log')
      BY HostInvStep, PlaceProcess, RuntimeCalls DEF PlaceInv, CallInv, OneAnswerPerCall
    <3>2. Len(log) > 3 + N
      <4>1. Len(log) \in 1..Len(log)
        BY <1>5 DEF Responses
      <4> QED
        BY <1>1, <1>5, <4>1, ShapeRead
    <3>3. Len(log) + 1 \in Requests(log') /\ Len(log) + 1 > 2 + N
      BY <1>1, <2>3, <3>2
    <3>4. ASSUME NEW q \in Requests(log)
          PROVE  q \in Answered(log)
      <4>1. q \in Requests(log') /\ q < Len(log) + 1
        BY <1>1, <2>3 DEF Requests
      <4>2. \E r \in Responses(log') : r < Len(log) + 1 /\ log'[r].cause = q
        BY <2>2, <3>1, <3>3, <4>1, WavesAreSequential
      <4>3. q \in Answered(log')
        BY <4>2 DEF Answered
      <4> QED
        BY <2>2, <4>3
    <3> QED
      BY <3>4 DEF OpenCalls
  <2> QED
    BY <2>2, <2>3, <2>4, <2>5
<1>6. ASSUME cursor + 1 = Len(log), Len(log) \in Responses(log), NEW w \in Workers,
             Wave(log, Len(log)) = <<w>>,
             log' = Append(log, Requested(w, Len(log))),
             pending' = Append(pending, Len(log) + 1)
      PROVE  \E new \in SUBSET Nat :
              /\ In(pending') = In(pending) \cup new
              /\ Requests(log') = Requests(log) \cup new
              /\ new \cap 1..Len(log) = {}
              /\ new # {} => OpenCalls = {}
  <2> DEFINE new == {Len(log) + 1}
  <2>1. new \in SUBSET Nat /\ new \cap 1..Len(log) = {}
    BY <1>1
  <2>2. /\ In(pending') = In(pending) \cup new
        /\ Requests(log') = Requests(log) \cup new /\ OpenCalls = {}
    BY <1>5, <1>6
  <2> HIDE DEF new
  <2> QED
    BY <2>1, <2>2
<1> QED
  BY <1>2, <1>3, <1>4, <1>5, <1>6, ProcessCases


\* Every entry of t is one of s, and not its kth.
AreOthers(t, s, k) ==
  \A j \in 1..Len(t) : \E h \in 1..Len(s) : h # k /\ t[j] = s[h]

\* Taking the kth completion out, exactly.
LEMMA WithoutExactly ==
  ASSUME NEW S, NEW s \in Seq(S), NEW k \in 1..Len(s), DistinctReqs(s)
  PROVE  /\ Reqs(Without(s, k)) = Reqs(s) \ {s[k].req}
         /\ AreOthers(Without(s, k), s, k)
         /\ Len(Without(s, k)) = Len(s) - 1 /\ Len(s) \in Nat
<1>1. /\ Len(s) \in Nat /\ Len(s) - 1 \in Nat
      /\ Without(s, k) \in Seq(S)
      /\ Reqs(Without(s, k)) \subseteq Reqs(s) /\ s[k].req \notin Reqs(Without(s, k))
  BY WithoutReqs, LenProperties
<1>2. Len(Without(s, k)) = Len(s) - 1
  <2>1. DOMAIN Without(s, k) = 1..(Len(s) - 1)
    BY DEF Without
  <2>2. DOMAIN Without(s, k) = 1..Len(Without(s, k)) /\ Len(Without(s, k)) \in Nat
    BY <1>1, LenProperties
  <2> QED
    BY <1>1, <2>1, <2>2
<1>3. \A j \in 1..(Len(s) - 1) : Without(s, k)[j] = IF j < k THEN s[j] ELSE s[j + 1]
  BY DEF Without
<1>4. ASSUME NEW h \in 1..Len(s), h # k
      PROVE  s[h].req \in Reqs(Without(s, k))
  <2>1. CASE h < k
    <3>1. h \in 1..(Len(s) - 1) /\ Without(s, k)[h] = s[h]
      BY <1>1, <1>3, <2>1
    <3> QED
      BY <1>2, <3>1 DEF Reqs
  <2>2. CASE h > k
    <3>1. h - 1 \in 1..(Len(s) - 1) /\ ~(h - 1 < k) /\ (h - 1) + 1 = h
      BY <1>1, <2>2
    <3>2. Without(s, k)[h - 1] = s[h]
      BY <1>3, <3>1
    <3> QED
      BY <1>2, <3>1, <3>2 DEF Reqs
  <2> QED
    BY <1>1, <1>4, <2>1, <2>2
<1>5. \A j \in 1..(Len(s) - 1) :
        \E h \in 1..Len(s) : h # k /\ Without(s, k)[j] = s[h]
  <2> SUFFICES ASSUME NEW j \in 1..(Len(s) - 1)
               PROVE  \E h \in 1..Len(s) : h # k /\ Without(s, k)[j] = s[h]
    OBVIOUS
  <2>1. CASE j < k
    BY <1>1, <1>3, <2>1
  <2>2. CASE ~(j < k)
    <3>1. j + 1 \in 1..Len(s) /\ j + 1 # k
      BY <1>1, <2>2
    <3> QED
      BY <1>3, <2>2, <3>1
  <2> QED
    BY <2>1, <2>2
<1>6. \A x \in Reqs(s) \ {s[k].req} : x \in Reqs(Without(s, k))
  BY <1>4 DEF Reqs
<1>7. AreOthers(Without(s, k), s, k)
  BY <1>2, <1>5 DEF AreOthers
<1> QED
  BY <1>1, <1>2, <1>6, <1>7

\* An answer goes into the log: its call is no longer open nor in hand.
Injects(k) ==
  /\ log' = Append(log, Response(arrived[k]))
  /\ arrived' = Without(arrived, k)

\* Injecting a completion answers an open call.
LEMMA InjectMoves ==
  ASSUME HostInv, PlaceInv, NEW k \in 1..Len(arrived), Injects(k)
  PROVE  /\ log' \in Seq(Events) /\ Prefix(log, log') /\ Len(log') = Len(log) + 1
         /\ Requests(log') = Requests(log) /\ Findings(log') = Findings(log)
         /\ Responses(log') = Responses(log) \cup {Len(log) + 1}
         /\ Answered(log') = Answered(log) \cup {arrived[k].req}
         /\ log'[Len(log) + 1] = Response(arrived[k])
         /\ \A i \in 1..Len(log) : log'[i] = log[i]
         /\ ArrivedIds' = ArrivedIds \ {arrived[k].req}
         /\ arrived[k].req \in OpenCalls
         /\ AreOthers(arrived', arrived, k)
         /\ OpenCalls' = OpenCalls \ {arrived[k].req}
         /\ Len(log) \in Nat
<1> DEFINE e == Response(arrived[k])
<1>1. /\ e \in Events /\ e.type = "agent.responded" /\ e.cause = arrived[k].req
      /\ arrived[k].req \in OpenCalls /\ log' = Append(log, e)
  BY ResponseTakes DEF OpenCalls, Injects
<1> HIDE DEF e
<1>2. /\ log' \in Seq(Events) /\ Prefix(log, log') /\ Len(log') = Len(log) + 1
      /\ Requests(log') = Requests(log) /\ Findings(log') = Findings(log)
      /\ Responses(log') = Responses(log) \cup {Len(log) + 1}
      /\ Answered(log') = Answered(log) \cup {arrived[k].req}
      /\ log'[Len(log) + 1] = e /\ Len(log) \in Nat
      /\ \A i \in 1..Len(log) : log'[i] = log[i]
  BY <1>1, OneMore, LogTypes
<1>3. /\ arrived \in Seq(Completions) /\ DistinctReqs(arrived)
      /\ arrived' = Without(arrived, k)
  BY DEF HostInv, TypeOK, EachCallInOnePlace, DistinctReqs, Injects
<1>4. /\ Reqs(arrived') = Reqs(arrived) \ {arrived[k].req}
      /\ AreOthers(arrived', arrived, k)
  BY <1>3, WithoutExactly
<1>5. ArrivedIds' = ArrivedIds \ {arrived[k].req}
  BY <1>4 DEF ArrivedIds, Reqs
<1>6. OpenCalls' = OpenCalls \ {arrived[k].req}
  BY <1>2 DEF OpenCalls
<1> QED
  BY <1>1, <1>2, <1>4, <1>5, <1>6 DEF e

\* The first in line is the first completion.
LEMMA ArrivalMoves ==
  ASSUME HostInv, InjectArrival
  PROVE  1 \in 1..Len(arrived) /\ Injects(1) /\ arrived # <<>>
<1>1. /\ arrived \in Seq(Completions) /\ arrived # <<>>
      /\ log' = Append(log, Response(Head(arrived))) /\ arrived' = Tail(arrived)
  BY DEF HostInv, TypeOK, InjectArrival, CanInjectArrival
<1>2. /\ Len(arrived) \in Nat \ {0} /\ Head(arrived) = arrived[1]
      /\ Tail(arrived) \in Seq(Completions) /\ Len(Tail(arrived)) = Len(arrived) - 1
      /\ \A i \in 1..Len(Tail(arrived)) : Tail(arrived)[i] = arrived[i + 1]
  BY <1>1, HeadTailProperties, EmptySeq, LenProperties
<1>3. Tail(arrived) = Without(arrived, 1)
  <2>1. 1 \in 1..Len(arrived)
    BY <1>2
  <2>2. Without(arrived, 1) \in Seq(Completions)
    BY <1>1, <2>1, WithoutReqs
  <2>3. Len(Without(arrived, 1)) = Len(arrived) - 1
    <3>1. DistinctReqs(arrived)
      BY DEF HostInv, EachCallInOnePlace, DistinctReqs
    <3> QED
      BY <1>1, <2>1, <3>1, WithoutExactly
  <2>4. \A j \in 1..(Len(arrived) - 1) : Without(arrived, 1)[j] = arrived[j + 1]
    <3>1. \A j \in 1..(Len(arrived) - 1) : ~(j < 1)
      BY <1>2
    <3> QED
      BY <3>1 DEF Without
  <2> QED
    BY <1>2, <2>2, <2>3, <2>4, SeqEqual
<1> QED
  BY <1>1, <1>2, <1>3 DEF Injects

\* A recorded finding goes into the log again.
LEMMA FindingMoves ==
  ASSUME HostInv, NEW e \in Events, e.type = "finding.recorded", log' = Append(log, e)
  PROVE  /\ log' \in Seq(Events) /\ Prefix(log, log') /\ Len(log') = Len(log) + 1
         /\ Requests(log') = Requests(log) /\ Responses(log') = Responses(log)
         /\ Answered(log') = Answered(log) /\ OpenCalls' = OpenCalls
         /\ Findings(log') = Findings(log) \cup {Len(log) + 1}
         /\ log'[Len(log) + 1] = e /\ Len(log) \in Nat
         /\ \A i \in 1..Len(log) : log'[i] = log[i]
<1>1. /\ log' \in Seq(Events) /\ Prefix(log, log') /\ Len(log') = Len(log) + 1
      /\ Requests(log') = Requests(log) /\ Responses(log') = Responses(log)
      /\ Answered(log') = Answered(log)
      /\ Findings(log') = Findings(log) \cup {Len(log) + 1}
      /\ log'[Len(log) + 1] = e /\ Len(log) \in Nat
      /\ \A i \in 1..Len(log) : log'[i] = log[i]
  BY OneMore, LogTypes
<1> QED
  BY <1>1 DEF OpenCalls

\* The recorded answers of a call do not change while its request stands.
LEMMA RecordingsKept ==
  ASSUME NEW q, log'[q] = log[q], recorded' = recorded
  PROVE  Recordings(q)' = Recordings(q)
BY DEF Recordings, SameCall


-----------------------------------------------------------------------------
(***************************************************************************)
(* The calls in hand.  Until the loop is left, every open call is in hand; *)
(* a call that is waiting or running has no recorded answer; and whenever  *)
(* something landed is still to be injected, every recorded answer of an   *)
(* open call has landed too.                                               *)
(***************************************************************************)
HandSet == In(pending) \cup In(fresh) \cup In(queued) \cup running \cup ArrivedIds

\* A completion of a recorded call is one of its recorded answers.
IsAmong(c, hits, r) ==
  hits # {} => \E i \in hits : c.ok = r[i].ok /\ c.by = r[i].by
AsRecorded(c) == IsAmong(c, Recordings(c.req), recorded)

RaiseStops == raised => pc = "wait" \/ reason = "raised"
NoneLost == reason = "none" /\ ~raised /\ pc \notin Ended => OpenCalls \subseteq HandSet
OnlyUnrecorded ==
  \A q \in In(queued) \cup running : Recordings(q) = {} /\ mode # "replay"
ServedFirst ==
  /\ pc = "wait" =>
       \A q \in OpenCalls : Recordings(q) # {} => q \in In(fresh) \cup ArrivedIds
  /\ pc \notin {"wait"} \cup Ended /\ arrived # <<>> =>
       \A q \in OpenCalls : Recordings(q) # {} => q \in ArrivedIds
Faithful == \A k \in 1..Len(arrived) : AsRecorded(arrived[k])
IdlePlace ==
  reason = "idle" /\ pc \notin Ended =>
    pc = "check" /\ OpenCalls = {} /\ arrived = <<>> /\ ~CanInject
LeftPlace ==
  /\ reason # "none" => fresh = <<>> /\ queued = <<>> /\ running = {}
  /\ mode = "replay" => ~stop /\ reason # "until"
  /\ pc = "done" => reason # "raised"

HandInv == /\ RaiseStops /\ NoneLost /\ OnlyUnrecorded /\ ServedFirst
           /\ Faithful /\ IdlePlace /\ LeftPlace

\* A growing log keeps its requests, and what answers them in the recording.
LEMMA RequestsKept ==
  ASSUME HostInv, log' \in Seq(Events), Prefix(log, log'), recorded' = recorded
  PROVE  \A q \in Requests(log) : log'[q] = log[q] /\ Recordings(q)' = Recordings(q)
<1> SUFFICES ASSUME NEW q \in Requests(log)
             PROVE  log'[q] = log[q] /\ Recordings(q)' = Recordings(q)
  OBVIOUS
<1>1. q \in 1..Len(log) /\ log \in Seq(Events)
  BY LogTypes DEF Requests
<1>2. log'[q] = log[q]
  BY <1>1, GrowingLog
<1> QED
  BY <1>2, RecordingsKept

\* What is in the host's hands is open.
LEMMA InHandFacts ==
  ASSUME HostInv
  PROVE  /\ HandSet \subseteq OpenCalls
         /\ \A k \in 1..Len(arrived) : arrived[k].req \in ArrivedIds
         /\ ArrivedIds \subseteq OpenCalls
         /\ \A q \in ArrivedIds : arrived # <<>>
         /\ arrived = <<>> => ArrivedIds = {}
         /\ OpenCalls \subseteq Requests(log)
<1>1. HandSet \subseteq OpenCalls
  BY DEF HostInv, EachCallInOnePlace, HandSet, OpenCalls
<1>2. arrived = <<>> => ArrivedIds = {}
  BY EmptyIn, InHand
<1> QED
  BY <1>1, <1>2 DEF HandSet, ArrivedIds, OpenCalls

\* At the start no call is open.
LEMMA HandInvInit == Init => HandInv
<1> SUFFICES ASSUME Init PROVE HandInv
  OBVIOUS
<1>1. OpenCalls = {} /\ Len(arrived) = 0
  BY SeedShape, OneOrNone DEF Init, OpenCalls
<1>2. In(queued) = {}
  BY EmptyIn DEF Init
<1> QED
  BY <1>1, <1>2 DEF Init, HandInv, RaiseStops, NoneLost, OnlyUnrecorded, ServedFirst,
     Faithful, IdlePlace, LeftPlace, Ended

\* The hands stay right when a wave is asked for,
LEMMA HandProcess ==
  ASSUME HostInv, PlaceInv, HandInv, ProcessEvent
  PROVE  HandInv'
<1> USE DEF HandInv
<1>1. /\ log' \in Seq(Events) /\ Prefix(log, log') /\ Answered(log') = Answered(log)
      /\ UNCHANGED <<fresh, queued, running, arrived, recorded, mode, stop, planAt,
                     raised, reason, version, attempt>>
      /\ pc = "settle" /\ pc' = "settle"
  BY ProcessMoves
<1>2. PICK new \in SUBSET Nat :
              /\ In(pending') = In(pending) \cup new
              /\ Requests(log') = Requests(log) \cup new
              /\ new \cap 1..Len(log) = {}
              /\ new # {} => OpenCalls = {}
  BY ProcessMoves
<1>3. \A q \in Requests(log) : log'[q] = log[q] /\ Recordings(q)' = Recordings(q)
  BY <1>1, RequestsKept
<1>4. /\ HandSet \subseteq OpenCalls /\ OpenCalls \subseteq Requests(log)
      /\ \A q \in ArrivedIds : arrived # <<>>
      /\ \A k \in 1..Len(arrived) : arrived[k].req \in ArrivedIds
      /\ ArrivedIds' = ArrivedIds
  BY <1>1, InHandFacts DEF ArrivedIds
<1>5. RaiseStops' /\ IdlePlace' /\ LeftPlace'
  BY <1>1 DEF RaiseStops, IdlePlace, LeftPlace, Ended
<1>6. OpenCalls' \subseteq OpenCalls \cup new
  BY <1>1, <1>2 DEF OpenCalls
<1>7. NoneLost'
  BY <1>1, <1>2, <1>4, <1>6 DEF NoneLost, HandSet, Ended
<1>8. OnlyUnrecorded'
  BY <1>1, <1>3, <1>4 DEF OnlyUnrecorded, HandSet
<1>9. ServedFirst'
  <2>1. arrived # <<>> => OpenCalls # {}
    <3>1. ASSUME arrived # <<>> PROVE 1 \in 1..Len(arrived)
      <4>1. arrived \in Seq(Completions)
        BY DEF HostInv, TypeOK
      <4> QED
        BY <3>1, <4>1, EmptySeq, LenProperties
    <3> QED
      BY <1>4, <3>1 DEF HandSet
  <2>2. arrived # <<>> => OpenCalls' \subseteq OpenCalls
    BY <1>2, <1>6, <2>1
  <2> QED
    BY <1>1, <1>3, <1>4, <2>2 DEF ServedFirst, Ended
<1>10. Faithful'
  <2>1. \A k \in 1..Len(arrived) : arrived[k].req \in Requests(log)
    BY <1>4 DEF HandSet
  <2> QED
    BY <1>1, <1>3, <2>1 DEF Faithful, AsRecorded
<1> QED
  BY <1>5, <1>7, <1>8, <1>9, <1>10

\* when its tasks are created,
LEMMA HandQuiesce ==
  ASSUME HostInv, PlaceInv, HandInv, Quiesce
  PROVE  HandInv'
<1> USE DEF HandInv
<1>1. /\ log' \in Seq(Events) /\ Prefix(log, log')
      /\ Requests(log') = Requests(log) /\ Answered(log') = Answered(log)
  <2>1. log \in Seq(Events)
    BY LogTypes
  <2>2. log' = log => Prefix(log, log')
    BY <2>1, LenProperties DEF Prefix
  <2> QED
    BY <2>1, <2>2, QuiesceCases, PrefixOfAppend
<1>2. /\ pc = "settle" /\ pc' = "check" /\ pending' = <<>> /\ In(pending') = {}
      /\ UNCHANGED <<queued, running, arrived, recorded, mode, stop, raised, reason>>
      /\ reason = "none" => fresh' = fresh \o pending
      /\ reason # "none" => fresh' = fresh
  BY EmptyIn DEF Quiesce, identity, Flushing
<1>3. \A q \in Requests(log) : log'[q] = log[q] /\ Recordings(q)' = Recordings(q)
  BY <1>1, <1>2, RequestsKept
<1>4. /\ HandSet \subseteq OpenCalls /\ OpenCalls \subseteq Requests(log)
      /\ \A k \in 1..Len(arrived) : arrived[k].req \in ArrivedIds
      /\ ArrivedIds' = ArrivedIds
  BY <1>2, InHandFacts DEF ArrivedIds
<1>5. OpenCalls' = OpenCalls
  BY <1>1 DEF OpenCalls
<1>6. reason = "none" => In(fresh') = In(fresh) \cup In(pending)
  <2>1. fresh \in Seq(Nat) /\ pending \in Seq(Nat)
    BY DEF HostInv, TypeOK
  <2>2. In(fresh \o pending) = In(fresh) \cup In(pending)
    BY <2>1, ConcatIn
  <2> QED
    BY <1>2, <2>2
<1>7. RaiseStops' /\ IdlePlace' /\ LeftPlace'
  BY <1>2 DEF RaiseStops, IdlePlace, LeftPlace, Ended
<1>8. NoneLost'
  BY <1>2, <1>4, <1>5, <1>6 DEF NoneLost, HandSet, Ended
<1>9. OnlyUnrecorded'
  BY <1>2, <1>3, <1>4 DEF OnlyUnrecorded, HandSet
<1>10. ServedFirst'
  BY <1>2, <1>3, <1>4, <1>5 DEF ServedFirst, Ended
<1>11. Faithful'
  <2>1. \A k \in 1..Len(arrived) : arrived[k].req \in Requests(log)
    BY <1>4 DEF HandSet
  <2> QED
    BY <1>2, <1>3, <2>1 DEF Faithful, AsRecorded
<1> QED
  BY <1>7, <1>8, <1>9, <1>10, <1>11

\* Injecting an answer, and re-emitting a finding.
LEMMA HandInject ==
  ASSUME HostInv, PlaceInv, HandInv, InjectArrival \/ OpenWindow \/ ReEmit \/ CloseWindow
  PROVE  HandInv'
<1> USE DEF HandInv
<1>1. /\ pc \in {"check", "group"} /\ pc' \in {"settle", "group"}
      /\ UNCHANGED <<fresh, queued, running, pending, recorded, mode, stop, raised, reason>>
      /\ reason # "idle"
  BY DEF InjectArrival, OpenWindow, ReEmit, CloseWindow, identity, tasks, IdlePlace, Ended,
         CanInject, CanInjectGroup, CanInjectArrival
<1>2. RaiseStops' /\ IdlePlace' /\ LeftPlace'
  BY <1>1 DEF RaiseStops, IdlePlace, LeftPlace, Ended
<1>3. ASSUME NEW k \in 1..Len(arrived), Injects(k)
      PROVE  HandInv'
  <2>1. /\ log' \in Seq(Events) /\ Prefix(log, log')
        /\ ArrivedIds' = ArrivedIds \ {arrived[k].req}
        /\ AreOthers(arrived', arrived, k)
        /\ OpenCalls' = OpenCalls \ {arrived[k].req}
    BY <1>3, InjectMoves
  <2>2. \A q \in Requests(log) : log'[q] = log[q] /\ Recordings(q)' = Recordings(q)
    BY <1>1, <2>1, RequestsKept
  <2>3. /\ HandSet \subseteq OpenCalls /\ OpenCalls \subseteq Requests(log)
        /\ \A j \in 1..Len(arrived) : arrived[j].req \in ArrivedIds
    BY InHandFacts
  <2>4. NoneLost'
    BY <1>1, <2>1, <2>3 DEF NoneLost, HandSet, Ended
  <2>5. OnlyUnrecorded'
    BY <1>1, <2>2, <2>3 DEF OnlyUnrecorded, HandSet
  <2>6. ServedFirst'
    <3>1. arrived # <<>>
      BY EmptyIn, <1>3, OneOrNone
    <3> QED
      BY <1>1, <2>1, <2>2, <2>3, <3>1 DEF ServedFirst, Ended
  <2>7. Faithful'
    <3>1. \A j \in 1..Len(arrived) : arrived[j].req \in Requests(log)
      BY <2>3 DEF HandSet
    <3>2. \A h \in 1..Len(arrived) : AsRecorded(arrived[h])
      BY DEF Faithful
    <3>3. ASSUME NEW j \in 1..Len(arrived')
          PROVE  AsRecorded(arrived[j])'
      <4>1. PICK h \in 1..Len(arrived) : arrived'[j] = arrived[h]
        BY <2>1 DEF AreOthers
      <4> QED
        BY <1>1, <2>2, <3>1, <3>2, <4>1 DEF AsRecorded
    <3> QED
      BY <3>3 DEF Faithful
  <2> QED
    BY <1>2, <2>4, <2>5, <2>6, <2>7
<1>4. ASSUME log' \in Seq(Events), Prefix(log, log'), OpenCalls' = OpenCalls,
             arrived' = arrived
      PROVE  HandInv'
  <2>1. \A q \in Requests(log) : log'[q] = log[q] /\ Recordings(q)' = Recordings(q)
    BY <1>1, <1>4, RequestsKept
  <2>2. /\ HandSet \subseteq OpenCalls /\ OpenCalls \subseteq Requests(log)
        /\ \A j \in 1..Len(arrived) : arrived[j].req \in ArrivedIds
        /\ ArrivedIds' = ArrivedIds
    BY <1>4, InHandFacts DEF ArrivedIds
  <2>3. NoneLost'
    BY <1>1, <1>4, <2>2 DEF NoneLost, HandSet, Ended
  <2>4. OnlyUnrecorded'
    BY <1>1, <2>1, <2>2 DEF OnlyUnrecorded, HandSet
  <2>5. ServedFirst'
    BY <1>1, <1>4, <2>1, <2>2 DEF ServedFirst, Ended
  <2>6. Faithful'
    <3>1. \A j \in 1..Len(arrived) : arrived[j].req \in Requests(log)
      BY <2>2 DEF HandSet
    <3> QED
      BY <1>1, <1>4, <2>1, <3>1 DEF Faithful, AsRecorded
  <2> QED
    BY <1>2, <2>3, <2>4, <2>5, <2>6
<1>5. CASE InjectArrival
  BY <1>3, <1>5, ArrivalMoves
<1>6. CASE OpenWindow \/ CloseWindow
  <2>1. log' = log /\ arrived' = arrived
    BY <1>6 DEF OpenWindow, CloseWindow
  <2>2. Prefix(log, log') /\ log' \in Seq(Events) /\ OpenCalls' = OpenCalls
    BY <2>1, LogTypes DEF Prefix, OpenCalls
  <2> QED
    BY <1>4, <2>1, <2>2
<1>7. CASE ReEmit
  <2>1. PICK i \in First(window) :
           /\ i \in PlanLeft /\ i \in 1..Len(recorded) /\ Planned(i)
           /\ \/ \E k \in 1..Len(arrived) : Injects(k)
              \/ /\ recorded[i].type = "finding.recorded"
                 /\ log' = Append(log, recorded[i]) /\ arrived' = arrived
    BY <1>7, ReEmitCases DEF Injects
  <2>2. recorded[i] \in Events
    BY <2>1, LogTypes
  <2>3. CASE /\ recorded[i].type = "finding.recorded"
             /\ log' = Append(log, recorded[i]) /\ arrived' = arrived
    BY <1>4, <2>2, <2>3, FindingMoves
  <2> QED
    BY <1>3, <2>1, <2>3
<1> QED
  BY <1>5, <1>6, <1>7


\* Leaving the loop, waiting, waking and ending.
LEMMA HandControl ==
  ASSUME HostInv, PlaceInv, HandInv,
         \/ ObserveStop \/ Await \/ GoIdle \/ Spin \/ Wake \/ Fail \/ Complete \/ Interrupt
  PROVE  HandInv'
<1> USE DEF HandInv
<1>1. /\ UNCHANGED <<pending, arrived, raised, mode, recorded>>
      /\ ArrivedIds' = ArrivedIds
  BY DEF ObserveStop, Await, GoIdle, Spin, Wake, Fail, Complete, Interrupt, identity,
         ArrivedIds
<1>2. /\ HandSet \subseteq OpenCalls /\ OpenCalls \subseteq Requests(log)
      /\ \A k \in 1..Len(arrived) : arrived[k].req \in ArrivedIds
      /\ In(<<>>) = {} /\ In(queued) \cup running \subseteq HandSet
  BY InHandFacts, EmptyIn DEF HandSet
<1>3. /\ log' \in Seq(Events) /\ Prefix(log, log') /\ OpenCalls' = OpenCalls
  <2>1. CASE Complete
    <3>1. log' = Append(log, CompletedEvent) /\ log \in Seq(Events)
      BY <2>1, LogTypes DEF Complete, CompletedEvent
    <3> QED
      BY <3>1, CompletedType, OneMore DEF OpenCalls
  <2>2. CASE ~Complete
    <3>1. log' = log /\ log \in Seq(Events)
      BY <2>2, LogTypes DEF ObserveStop, Await, GoIdle, Spin, Wake, Fail, Interrupt
    <3> QED
      BY <3>1, LenProperties DEF Prefix, OpenCalls
  <2> QED
    BY <2>1, <2>2
<1>4. \A q \in Requests(log) : log'[q] = log[q] /\ Recordings(q)' = Recordings(q)
  BY <1>1, <1>3, RequestsKept
<1>5. Faithful'
  <2>1. \A k \in 1..Len(arrived) : arrived[k].req \in Requests(log)
    BY <1>2 DEF HandSet
  <2> QED
    BY <1>1, <1>4, <2>1 DEF Faithful, AsRecorded
<1>6. OnlyUnrecorded'
  <2>1. \/ UNCHANGED <<queued, running>>
        \/ queued' = <<>> /\ running' = {}
    BY DEF ObserveStop, Await, GoIdle, Spin, Wake, Fail, Complete, Interrupt, Leave, tasks
  <2> QED
    BY <1>1, <1>2, <1>4, <2>1 DEF OnlyUnrecorded
<1>7. CASE Interrupt
  <2>1. /\ UNCHANGED <<pc, reason, fresh, queued, running>> /\ mode # "replay"
    BY <1>7 DEF Interrupt, tasks
  <2>2. CanInject' = CanInject
    BY <1>1, <1>7 DEF Interrupt, identity, CanInject, CanInjectGroup, CanInjectArrival, PlanLeft,
       Planned, Orphaned, First, Needed, Window, ArrivedIds
  <2>3. RaiseStops' /\ IdlePlace' /\ LeftPlace'
    BY <1>1, <1>3, <2>1, <2>2 DEF RaiseStops, IdlePlace, LeftPlace, Ended
  <2>4. NoneLost'
    BY <1>1, <1>3, <2>1 DEF NoneLost, HandSet, Ended
  <2>5. ServedFirst'
    BY <1>1, <1>2, <1>3, <1>4, <2>1 DEF ServedFirst, Ended
  <2> QED
    BY <1>5, <1>6, <2>3, <2>4, <2>5
<1>8. CASE Fail \/ Complete
  <2>1. /\ pc = "check" /\ pc' \in {"done", "error"} /\ UNCHANGED <<reason, fresh, queued, running, stop>>
        /\ pc' = "done" => reason # "raised"
    BY <1>8 DEF Fail, Complete, tasks
  <2>2. RaiseStops' /\ IdlePlace' /\ LeftPlace'
    BY <1>1, <2>1 DEF RaiseStops, IdlePlace, LeftPlace, Ended
  <2>3. NoneLost' /\ ServedFirst'
    BY <2>1 DEF NoneLost, ServedFirst, Ended
  <2> QED
    BY <1>5, <1>6, <2>2, <2>3
<1>9. CASE Await
  <2>1. /\ pc = "check" /\ pc' = "wait" /\ reason = "none" /\ reason' = "none"
        /\ UNCHANGED <<fresh, queued, running, stop>>
    BY <1>9 DEF Await, tasks, Flushing
  <2>2. ~raised /\ In(pending) = {} /\ OpenCalls \subseteq HandSet
    BY <1>2, <2>1 DEF RaiseStops, PlaceInv, PendingPlace, NoneLost, Ended
  <2>3. RaiseStops' /\ IdlePlace' /\ LeftPlace'
    BY <1>1, <2>1 DEF RaiseStops, IdlePlace, LeftPlace, Ended
  <2>4. NoneLost'
    BY <1>1, <1>3, <2>1, <2>2 DEF NoneLost, HandSet
  <2>5. ServedFirst'
    BY <1>1, <1>2, <1>3, <1>4, <2>1, <2>2 DEF ServedFirst, OnlyUnrecorded, HandSet
  <2> QED
    BY <1>5, <1>6, <2>3, <2>4, <2>5
<1>10. CASE ObserveStop \/ GoIdle \/ Spin
  <2>1. /\ pc = "check" /\ pc' = "check" /\ reason = "none" /\ stop' = stop
        /\ reason' \in {"until", "idle", "max_quanta"}
        /\ fresh' = <<>> /\ queued' = <<>> /\ running' = {} /\ log' = log
        /\ UNCHANGED <<planAt>>
        /\ reason' = "until" => stop
        /\ reason' = "idle" => ~CanInject /\ ~HasTasks /\ arrived = <<>>
    BY <1>10 DEF ObserveStop, GoIdle, Spin, Leave, Flushing
  <2>2. ~raised /\ In(pending) = {} /\ OpenCalls \subseteq HandSet
    BY <1>2, <2>1 DEF RaiseStops, PlaceInv, PendingPlace, NoneLost, Ended
  <2>3. CanInject' = CanInject
    BY <1>1, <2>1 DEF CanInject, CanInjectGroup, CanInjectArrival, PlanLeft,
       Planned, Orphaned, First, Needed, Window, ArrivedIds
  <2>4. ASSUME reason' = "idle" PROVE OpenCalls = {}
    BY <1>2, <2>1, <2>2, <2>4, InHandFacts DEF HasTasks, HandSet
  <2>5. RaiseStops' /\ LeftPlace' /\ NoneLost'
    BY <1>1, <2>1, <2>2 DEF RaiseStops, LeftPlace, NoneLost
  <2>6. IdlePlace'
    BY <1>1, <1>3, <2>1, <2>3, <2>4 DEF IdlePlace
  <2>7. ServedFirst'
    BY <1>1, <1>2, <1>3, <1>4, <2>1 DEF ServedFirst, Ended
  <2> QED
    BY <1>5, <1>6, <2>5, <2>6, <2>7
<1>11. CASE Wake
  <2>1. /\ pc = "wait" /\ fresh = <<>> /\ stop' = stop /\ reason = "none"
        /\ \/ /\ raised /\ pc' = "check" /\ reason' = "raised"
              /\ fresh' = <<>> /\ queued' = <<>> /\ running' = {}
           \/ /\ ~raised /\ pc' = "settle" /\ reason' = "none"
              /\ UNCHANGED <<fresh, queued, running>>
    BY <1>11 DEF Wake, Leave, tasks, PlaceInv, LoopPlace
  <2>2. RaiseStops' /\ IdlePlace' /\ LeftPlace'
    BY <1>1, <2>1 DEF RaiseStops, IdlePlace, LeftPlace
  <2>3. NoneLost'
    BY <1>1, <1>3, <2>1 DEF NoneLost, HandSet, Ended
  <2>4. ServedFirst'
    BY <1>1, <1>2, <1>3, <1>4, <2>1 DEF ServedFirst, Ended
  <2> QED
    BY <1>5, <1>6, <2>2, <2>3, <2>4
<1> QED
  BY <1>7, <1>8, <1>9, <1>10, <1>11


\* The first step of a task, as a move of its call.
LEMMA StartMoves ==
  ASSUME HostInv, StartTask
  PROVE  /\ pc = "wait" /\ pc' = "wait"
         /\ UNCHANGED <<log, pending, recorded, mode, stop, reason, planAt, version, attempt,
                        window, cursor>>
         /\ \E id \in OpenCalls :
              /\ In(fresh) = In(fresh') \cup {id} /\ id \notin ArrivedIds
              /\ id \notin In(queued) \cup running
              /\ \/ /\ \E i \in Recordings(id) :
                         arrived' = Append(arrived, [req |-> id, ok |-> recorded[i].ok,
                                                     by |-> recorded[i].by])
                    /\ ArrivedIds' = ArrivedIds \cup {id}
                    /\ UNCHANGED <<queued, running, raised>>
                 \/ /\ Recordings(id) = {} /\ mode = "replay" /\ raised' = TRUE
                    /\ UNCHANGED <<queued, running, arrived>>
                 \/ /\ Recordings(id) = {} /\ mode # "replay"
                    /\ In(queued') \cup running' = In(queued) \cup running \cup {id}
                    /\ UNCHANGED <<arrived, raised>>
<1> DEFINE id == Head(fresh)
<1>1. /\ pc = "wait" /\ pc' = "wait" /\ fresh # <<>> /\ fresh' = Tail(fresh)
      /\ UNCHANGED <<log, pending, recorded, mode, stop, reason, planAt, version, attempt,
                     window, cursor>>
  BY DEF StartTask, identity
<1>2. /\ fresh \in Seq(Nat) /\ queued \in Seq(Nat) /\ arrived \in Seq(Completions)
      /\ Distinct(fresh)
  BY DEF HostInv, TypeOK, EachCallInOnePlace
<1>3. id \in Nat /\ id \in In(fresh) /\ In(Tail(fresh)) \subseteq In(fresh)
  BY <1>1, <1>2, TailIn
<1>4. In(fresh) = In(fresh') \cup {id}
  <2>1. /\ Len(fresh) \in Nat \ {0} /\ Len(Tail(fresh)) = Len(fresh) - 1
        /\ Head(fresh) = fresh[1]
        /\ \A i \in 1..Len(Tail(fresh)) : Tail(fresh)[i] = fresh[i + 1]
    BY <1>1, <1>2, HeadTailProperties, EmptySeq, LenProperties
  <2>2. ASSUME NEW k \in 1..Len(fresh) PROVE fresh[k] \in In(Tail(fresh)) \cup {id}
    <3>1. CASE k = 1
      BY <2>1, <3>1
    <3>2. CASE k # 1
      <4>1. k - 1 \in 1..Len(Tail(fresh)) /\ (k - 1) + 1 = k
        BY <2>1, <3>2
      <4>2. Tail(fresh)[k - 1] = fresh[k]
        BY <2>1, <4>1
      <4> QED
        BY <4>1, <4>2 DEF In
    <3> QED
      BY <3>1, <3>2
  <2>3. In(fresh) \subseteq In(Tail(fresh)) \cup {id}
    BY <2>2 DEF In
  <2> QED
    BY <1>1, <1>3, <2>3
<1>5. id \in OpenCalls /\ id \notin ArrivedIds /\ id \notin In(queued) \cup running
  BY <1>3 DEF HostInv, EachCallInOnePlace, OpenCalls
<1>6. ASSUME NEW i \in Last(Recordings(id)), Arrive(id, recorded[i].ok, recorded[i].by)
      PROVE  /\ i \in Recordings(id)
             /\ arrived' = Append(arrived, [req |-> id, ok |-> recorded[i].ok,
                                            by |-> recorded[i].by])
             /\ ArrivedIds' = ArrivedIds \cup {id}
  <2>1. i \in Recordings(id)
    BY DEF Last
  <2>2. arrived' = Append(arrived, [req |-> id, ok |-> recorded[i].ok,
                                    by |-> recorded[i].by])
    BY <1>6 DEF Arrive
  <2>3. arrived' \in Seq(Completions)
    BY StartType DEF TypeInv, TypeOK
  <2>4. DistinctReqs(arrived) /\ id \notin Reqs(arrived)
    BY <1>5, InHand DEF HostInv, EachCallInOnePlace, DistinctReqs
  <2>5. Reqs(arrived') = Reqs(arrived) \cup {id}
    BY <1>2, <1>3, <1>6, <2>3, <2>4, ArriveAdds
  <2>6. ArrivedIds' = ArrivedIds \cup {id}
    BY <2>5 DEF ArrivedIds, Reqs
  <2> QED
    BY <2>1, <2>2, <2>6
<1>7. CASE /\ \E i \in Last(Recordings(id)) : Arrive(id, recorded[i].ok, recorded[i].by)
           /\ UNCHANGED <<queued, running, raised>>
  BY <1>1, <1>4, <1>5, <1>6, <1>7
<1>8. CASE /\ Recordings(id) = {} /\ mode = "replay" /\ raised' = TRUE
           /\ UNCHANGED <<queued, running, arrived>>
  BY <1>1, <1>4, <1>5, <1>8
<1>9. CASE /\ Recordings(id) = {} /\ mode # "replay" /\ UNCHANGED <<arrived, raised>>
           /\ \/ running' = running \cup {id} /\ UNCHANGED queued
              \/ queued' = Append(queued, id) /\ UNCHANGED running
  <2>1. In(queued') \cup running' = In(queued) \cup running \cup {id}
    <3>1. CASE running' = running \cup {id} /\ UNCHANGED queued
      BY <3>1
    <3>2. CASE queued' = Append(queued, id) /\ UNCHANGED running
      <4>1. In(Append(queued, id)) = In(queued) \cup {id}
        BY <1>2, <1>3, AppendIn
      <4> QED
        BY <3>2, <4>1
    <3> QED
      BY <1>9, <3>1, <3>2
  <2> QED
    BY <1>1, <1>4, <1>5, <1>9, <2>1
<1> QED
  BY <1>7, <1>8, <1>9 DEF StartTask

\* A call ends: it leaves the running set, and nobody else leaves the slots.
LEMMA ReleaseExactly ==
  ASSUME HostInv, NEW id \in running, ReleaseSlot(id)
  PROVE  In(queued') \cup running' = (In(queued) \cup running) \ {id}
<1>1. queued \in Seq(Nat) /\ id \notin In(queued)
  BY DEF HostInv, TypeOK, EachCallInOnePlace
<1>2. CASE queued = <<>>
  BY <1>1, <1>2, EmptyIn DEF ReleaseSlot
<1>3. CASE queued # <<>>
  <2>1. /\ Len(queued) \in Nat \ {0} /\ Len(Tail(queued)) = Len(queued) - 1
        /\ Head(queued) = queued[1]
        /\ \A i \in 1..Len(Tail(queued)) : Tail(queued)[i] = queued[i + 1]
    BY <1>1, <1>3, HeadTailProperties, EmptySeq, LenProperties
  <2>2. ASSUME NEW k \in 1..Len(queued)
        PROVE  queued[k] \in In(Tail(queued)) \cup {Head(queued)}
    <3>1. CASE k = 1
      BY <2>1, <3>1
    <3>2. CASE k # 1
      <4>1. k - 1 \in 1..Len(Tail(queued)) /\ (k - 1) + 1 = k
        BY <2>1, <3>2
      <4>2. Tail(queued)[k - 1] = queued[k]
        BY <2>1, <4>1
      <4> QED
        BY <4>1, <4>2 DEF In
    <3> QED
      BY <3>1, <3>2
  <2>3. In(queued) \subseteq In(Tail(queued)) \cup {Head(queued)}
    BY <2>2 DEF In
  <2>4. Head(queued) \in In(queued) /\ In(Tail(queued)) \subseteq In(queued)
    BY <1>1, <1>3, TailIn
  <2>5. running' = (running \ {id}) \cup {Head(queued)} /\ queued' = Tail(queued)
    BY <1>3 DEF ReleaseSlot
  <2> QED
    BY <1>1, <2>3, <2>4, <2>5
<1> QED
  BY <1>2, <1>3

\* What a running call may do, as a move.
LEMMA CallMoves ==
  ASSUME HostInv, PlaceInv, NEW id \in running, NEW ok \in BOOLEAN,
         WorkerAnswer(id, ok) \/ RunGate(id, ok) \/ WorkerEmit(id) \/ WorkerRaise(id)
  PROVE  /\ pc = "wait" /\ pc' = "wait" /\ id \in OpenCalls
         /\ UNCHANGED <<fresh, pending, recorded, mode, stop, reason, planAt, version,
                        attempt, window, cursor>>
         /\ log' \in Seq(Events) /\ Prefix(log, log')
         /\ Requests(log') = Requests(log) /\ Responses(log') = Responses(log)
         /\ Answered(log') = Answered(log) /\ OpenCalls' = OpenCalls
         /\ \/ /\ \E v \in BOOLEAN : arrived' =
                    Append(arrived, [req |-> id, ok |-> v, by |-> attempt])
               /\ ArrivedIds' = ArrivedIds \cup {id} /\ raised' = raised
               /\ In(queued') \cup running' = (In(queued) \cup running) \ {id}
            \/ /\ UNCHANGED <<queued, running, arrived, raised>>
            \/ /\ raised' = TRUE /\ arrived' = arrived /\ MayRaise
               /\ In(queued') \cup running' = (In(queued) \cup running) \ {id}
<1>1. /\ pc = "wait" /\ pc' = "wait"
      /\ UNCHANGED <<fresh, pending, recorded, mode, stop, reason, planAt, version,
                     attempt, window, cursor>>
  BY DEF WorkerAnswer, RunGate, WorkerEmit, WorkerRaise, identity, tasks
<1>2. id \in OpenCalls /\ id \in Nat /\ id \notin ArrivedIds /\ TRUE \in BOOLEAN
  BY InHandIsRequested DEF HostInv, TypeOK, EachCallInOnePlace, OpenCalls
<1>3. /\ log' \in Seq(Events) /\ Prefix(log, log')
      /\ Requests(log') = Requests(log) /\ Responses(log') = Responses(log)
      /\ Answered(log') = Answered(log) /\ OpenCalls' = OpenCalls
  <2>1. CASE log' = log
    BY <2>1, LogTypes DEF Prefix, OpenCalls
  <2>2. ASSUME NEW v \in BOOLEAN, log' = Append(log, Finding(id, v))
        PROVE  /\ log' \in Seq(Events) /\ Prefix(log, log')
               /\ Requests(log') = Requests(log) /\ Responses(log') = Responses(log)
               /\ Answered(log') = Answered(log) /\ OpenCalls' = OpenCalls
    <3>1. Finding(id, v) \in Events /\ Finding(id, v).type = "finding.recorded"
      BY FindingTakes
    <3> QED
      BY <2>2, <3>1, FindingMoves
  <2> QED
    BY <1>2, <2>1, <2>2 DEF WorkerAnswer, RunGate, WorkerEmit, WorkerRaise
<1>4. ASSUME NEW v \in BOOLEAN, Arrive(id, v, attempt), ReleaseSlot(id)
      PROVE  /\ arrived' = Append(arrived, [req |-> id, ok |-> v, by |-> attempt])
             /\ ArrivedIds' = ArrivedIds \cup {id}
             /\ In(queued') \cup running' = (In(queued) \cup running) \ {id}
  <2>1. arrived \in Seq(Completions) /\ attempt \in Nat
    BY DEF HostInv, TypeOK
  <2>2. arrived' \in Seq(Completions)
    BY <1>2, <1>4, <2>1, ArriveType
  <2>3. DistinctReqs(arrived) /\ id \notin Reqs(arrived)
    BY <1>2, InHand DEF HostInv, EachCallInOnePlace, DistinctReqs
  <2>4. Reqs(arrived') = Reqs(arrived) \cup {id}
    BY <1>2, <1>4, <2>1, <2>2, <2>3, ArriveAdds
  <2>5. ArrivedIds' = ArrivedIds \cup {id}
    BY <2>4 DEF ArrivedIds, Reqs
  <2> QED
    BY <1>4, <2>5, ReleaseExactly DEF Arrive
<1>5. CASE WorkerAnswer(id, ok)
  BY <1>1, <1>2, <1>3, <1>4, <1>5 DEF WorkerAnswer
<1>6. CASE RunGate(id, ok)
  BY <1>1, <1>2, <1>3, <1>4, <1>6 DEF RunGate
<1>7. CASE WorkerEmit(id)
  BY <1>1, <1>2, <1>3, <1>7 DEF WorkerEmit, tasks
<1>8. CASE WorkerRaise(id)
  BY <1>1, <1>2, <1>3, <1>8, ReleaseExactly DEF WorkerRaise
<1> QED
  BY <1>5, <1>6, <1>7, <1>8

\* (a completion as recorded may join those that landed)
LEMMA FaithfulAppend ==
  ASSUME HostInv, Faithful, NEW c \in Completions, arrived' = Append(arrived, c),
         recorded' = recorded,
         \A q \in Requests(log) : Recordings(q)' = Recordings(q),
         c.req \in Requests(log), IsAmong(c, Recordings(c.req), recorded)
  PROVE  Faithful'
<1>1. /\ arrived \in Seq(Completions)
      /\ \A k \in 1..Len(arrived) : arrived[k].req \in Requests(log)
  BY InHandIsRequested DEF HostInv, TypeOK
<1>2. /\ Len(arrived) \in Nat /\ Len(arrived') = Len(arrived) + 1
      /\ \A k \in 1..Len(arrived) : arrived'[k] = arrived[k]
      /\ arrived'[Len(arrived) + 1] = c
  BY <1>1, AppendProperties, LenProperties
<1>3. \A k \in 1..Len(arrived') : k \in 1..Len(arrived) \/ k = Len(arrived) + 1
  BY <1>2
<1>4. ASSUME NEW k \in 1..Len(arrived')
      PROVE  IsAmong(arrived'[k], Recordings(arrived[k].req)', recorded')
  <2>1. CASE k = Len(arrived) + 1
    <3>1. arrived'[k] = c
      BY <1>2, <2>1
    <3> QED
      BY <3>1
  <2>2. CASE k \in 1..Len(arrived)
    <3>1. arrived'[k] = arrived[k] /\ IsAmong(arrived[k], Recordings(arrived[k].req), recorded)
      BY <1>2, <2>2 DEF Faithful, AsRecorded
    <3> QED
      BY <1>1, <2>2, <3>1
  <2> QED
    BY <1>3, <2>1, <2>2
<1> QED
  BY <1>4 DEF Faithful, AsRecorded

\* when calls start, emit, answer and raise,
LEMMA HandCalls ==
  ASSUME HostInv, PlaceInv, HandInv,
         \/ StartTask
         \/ \E id \in running : \E ok \in BOOLEAN :
              WorkerAnswer(id, ok) \/ RunGate(id, ok) \/ WorkerEmit(id) \/ WorkerRaise(id)
  PROVE  HandInv'
<1> USE DEF HandInv
<1>1. CASE StartTask
  <2>1. /\ pc = "wait" /\ pc' = "wait"
        /\ UNCHANGED <<log, pending, recorded, mode, stop, reason, planAt, version, attempt,
                       window, cursor>>
    BY <1>1, StartMoves
  <2>2. PICK id \in OpenCalls :
              /\ In(fresh) = In(fresh') \cup {id} /\ id \notin ArrivedIds
              /\ id \notin In(queued) \cup running
              /\ \/ /\ \E i \in Recordings(id) :
                         arrived' = Append(arrived, [req |-> id, ok |-> recorded[i].ok,
                                                     by |-> recorded[i].by])
                    /\ ArrivedIds' = ArrivedIds \cup {id}
                    /\ UNCHANGED <<queued, running, raised>>
                 \/ /\ Recordings(id) = {} /\ mode = "replay" /\ raised' = TRUE
                    /\ UNCHANGED <<queued, running, arrived>>
                 \/ /\ Recordings(id) = {} /\ mode # "replay"
                    /\ In(queued') \cup running' = In(queued) \cup running \cup {id}
                    /\ UNCHANGED <<arrived, raised>>
    BY <1>1, StartMoves
  <2>3. /\ log' \in Seq(Events) /\ Prefix(log, log') /\ OpenCalls' = OpenCalls
        /\ \A q \in Requests(log) : Recordings(q)' = Recordings(q)
    <3>1. log' \in Seq(Events) /\ Prefix(log, log') /\ OpenCalls' = OpenCalls
      BY <2>1, LogTypes DEF Prefix, OpenCalls
    <3> QED
      BY <2>1, <3>1, RequestsKept
  <2>4. /\ HandSet \subseteq OpenCalls /\ OpenCalls \subseteq Requests(log)
        /\ In(queued) \cup running \subseteq HandSet
        /\ reason = "none"
    BY <2>1, InHandFacts DEF HandSet, PlaceInv, LoopPlace
  <2>5. RaiseStops' /\ IdlePlace' /\ LeftPlace'
    BY <2>1, <2>4 DEF RaiseStops, IdlePlace, LeftPlace
  <2>6. CASE /\ \E i \in Recordings(id) :
                  arrived' = Append(arrived, [req |-> id, ok |-> recorded[i].ok,
                                              by |-> recorded[i].by])
             /\ ArrivedIds' = ArrivedIds \cup {id}
             /\ UNCHANGED <<queued, running, raised>>
    <3>1. PICK i \in Recordings(id) :
            arrived' = Append(arrived, [req |-> id, ok |-> recorded[i].ok,
                                        by |-> recorded[i].by])
      BY <2>6
    <3> DEFINE c == [req |-> id, ok |-> recorded[i].ok, by |-> recorded[i].by]
    <3>2. c \in Completions /\ c.req = id /\ IsAmong(c, Recordings(id), recorded)
          /\ arrived' = Append(arrived, c)
      <4>1. i \in 1..Len(recorded)
        BY DEF Recordings, Responses
      <4>2. recorded[i] \in Events /\ id \in Nat
        BY <2>4, <4>1, LogTypes, RequestIds
      <4> QED
        BY <3>1, <4>2 DEF Completions, IsAmong, Events
    <3> HIDE DEF c
    <3>3. Faithful'
      BY <2>1, <2>3, <2>4, <3>2, FaithfulAppend
    <3>4. NoneLost'
      BY <2>1, <2>2, <2>3, <2>6 DEF NoneLost, HandSet, Ended
    <3>5. OnlyUnrecorded'
      BY <2>1, <2>3, <2>4, <2>6 DEF OnlyUnrecorded
    <3>6. ServedFirst'
      BY <2>1, <2>2, <2>3, <2>4, <2>6 DEF ServedFirst
    <3> QED
      BY <2>5, <3>3, <3>4, <3>5, <3>6
  <2>7. CASE /\ Recordings(id) = {} /\ mode = "replay" /\ raised' = TRUE
             /\ UNCHANGED <<queued, running, arrived>>
    <3>1. ArrivedIds' = ArrivedIds
      BY <2>7 DEF ArrivedIds
    <3>2. NoneLost'
      BY <2>7 DEF NoneLost
    <3>3. OnlyUnrecorded'
      BY <2>1, <2>3, <2>4, <2>7 DEF OnlyUnrecorded
    <3>4. ServedFirst'
      BY <2>1, <2>2, <2>3, <2>4, <2>7, <3>1 DEF ServedFirst
    <3>5. Faithful'
      BY <2>1, <2>3, <2>7, InHandIsRequested DEF Faithful, AsRecorded
    <3> QED
      BY <2>5, <3>2, <3>3, <3>4, <3>5
  <2>8. CASE /\ Recordings(id) = {} /\ mode # "replay"
             /\ In(queued') \cup running' = In(queued) \cup running \cup {id}
             /\ UNCHANGED <<arrived, raised>>
    <3>1. ArrivedIds' = ArrivedIds
      BY <2>8 DEF ArrivedIds
    <3>2. NoneLost'
      BY <2>1, <2>2, <2>3, <2>8, <3>1 DEF NoneLost, HandSet, Ended
    <3>3. OnlyUnrecorded'
      BY <2>1, <2>3, <2>4, <2>8 DEF OnlyUnrecorded
    <3>4. ServedFirst'
      BY <2>1, <2>2, <2>3, <2>4, <2>8, <3>1 DEF ServedFirst
    <3>5. Faithful'
      BY <2>1, <2>3, <2>8, InHandIsRequested DEF Faithful, AsRecorded
    <3> QED
      BY <2>5, <3>2, <3>3, <3>4, <3>5
  <2> QED
    BY <2>2, <2>6, <2>7, <2>8
<1>2. ASSUME NEW id \in running, NEW ok \in BOOLEAN,
             WorkerAnswer(id, ok) \/ RunGate(id, ok) \/ WorkerEmit(id) \/ WorkerRaise(id)
      PROVE  HandInv'
  <2>1. /\ pc = "wait" /\ pc' = "wait" /\ id \in OpenCalls
        /\ UNCHANGED <<fresh, pending, recorded, mode, stop, reason, planAt, version,
                       attempt, window, cursor>>
        /\ log' \in Seq(Events) /\ Prefix(log, log') /\ OpenCalls' = OpenCalls
    BY <1>2, CallMoves
  <2>2. \/ /\ \E v \in BOOLEAN : arrived' =
                Append(arrived, [req |-> id, ok |-> v, by |-> attempt])
           /\ ArrivedIds' = ArrivedIds \cup {id} /\ raised' = raised
           /\ In(queued') \cup running' = (In(queued) \cup running) \ {id}
        \/ /\ UNCHANGED <<queued, running, arrived, raised>>
        \/ /\ raised' = TRUE /\ arrived' = arrived
           /\ In(queued') \cup running' = (In(queued) \cup running) \ {id}
    BY <1>2, CallMoves
  <2>3. \A q \in Requests(log) : Recordings(q)' = Recordings(q)
    BY <2>1, RequestsKept
  <2>4. /\ HandSet \subseteq OpenCalls /\ OpenCalls \subseteq Requests(log)
        /\ In(queued) \cup running \subseteq HandSet
        /\ reason = "none" /\ Recordings(id) = {}
    BY <2>1, InHandFacts DEF HandSet, PlaceInv, LoopPlace, OnlyUnrecorded
  <2>5. RaiseStops' /\ IdlePlace' /\ LeftPlace'
    BY <2>1, <2>4 DEF RaiseStops, IdlePlace, LeftPlace
  <2>6. CASE /\ \E v \in BOOLEAN : arrived' =
                  Append(arrived, [req |-> id, ok |-> v, by |-> attempt])
             /\ ArrivedIds' = ArrivedIds \cup {id} /\ raised' = raised
             /\ In(queued') \cup running' = (In(queued) \cup running) \ {id}
    <3>1. PICK v \in BOOLEAN : arrived' = Append(arrived, [req |-> id, ok |-> v, by |-> attempt])
      BY <2>6
    <3> DEFINE c == [req |-> id, ok |-> v, by |-> attempt]
    <3>2. c \in Completions /\ c.req = id /\ IsAmong(c, Recordings(id), recorded)
          /\ arrived' = Append(arrived, c)
      <4>1. id \in Nat /\ attempt \in Nat
        BY <2>4, RequestIds DEF HostInv, TypeOK
      <4> QED
        BY <2>4, <3>1, <4>1 DEF Completions, IsAmong
    <3> HIDE DEF c
    <3>3. Faithful'
      BY <2>1, <2>3, <2>4, <3>2, FaithfulAppend
    <3>4. NoneLost'
      BY <2>1, <2>6 DEF NoneLost, HandSet, Ended
    <3>5. OnlyUnrecorded'
      BY <2>1, <2>3, <2>4, <2>6 DEF OnlyUnrecorded
    <3>6. ServedFirst'
      BY <2>1, <2>3, <2>4, <2>6 DEF ServedFirst
    <3> QED
      BY <2>5, <3>3, <3>4, <3>5, <3>6
  <2>7. CASE UNCHANGED <<queued, running, arrived, raised>>
    <3>1. ArrivedIds' = ArrivedIds
      BY <2>7 DEF ArrivedIds
    <3>2. NoneLost'
      BY <2>1, <2>7, <3>1 DEF NoneLost, HandSet, Ended
    <3>3. OnlyUnrecorded' /\ ServedFirst'
      BY <2>1, <2>3, <2>4, <2>7, <3>1 DEF OnlyUnrecorded, ServedFirst
    <3>4. Faithful'
      BY <2>1, <2>3, <2>7, InHandIsRequested DEF Faithful, AsRecorded
    <3> QED
      BY <2>5, <3>2, <3>3, <3>4
  <2>8. CASE /\ raised' = TRUE /\ arrived' = arrived
             /\ In(queued') \cup running' = (In(queued) \cup running) \ {id}
    <3>1. ArrivedIds' = ArrivedIds
      BY <2>8 DEF ArrivedIds
    <3>2. NoneLost'
      BY <2>8 DEF NoneLost
    <3>3. OnlyUnrecorded' /\ ServedFirst'
      BY <2>1, <2>3, <2>4, <2>8, <3>1 DEF OnlyUnrecorded, ServedFirst
    <3>4. Faithful'
      BY <2>1, <2>3, <2>8, InHandIsRequested DEF Faithful, AsRecorded
    <3> QED
      BY <2>5, <3>2, <3>3, <3>4
  <2> QED
    BY <2>2, <2>6, <2>7, <2>8
<1> QED
  BY <1>1, <1>2

\* and over crashes and restarts.
LEMMA HandWorld ==
  ASSUME HostInv, PlaceInv, HandInv,
         Crash \/ \E m \in LaterModes, edits \in EditSets : Restart(m, edits)
  PROVE  HandInv'
<1>1. /\ reason' = "none" /\ fresh' = <<>> /\ queued' = <<>> /\ running' = {}
      /\ arrived' = <<>> /\ raised' = FALSE /\ stop' = FALSE /\ In(<<>>) = {}
      /\ Len(arrived') = 0 /\ In(queued') = {}
  BY EmptyIn, OneOrNone DEF Crash, Restart, Forget
<1>2. pc' = "crashed" \/ (pc' = "settle" /\ OpenCalls' = {})
  BY SeedShape DEF Crash, Restart, OpenCalls
<1> QED
  BY <1>1, <1>2 DEF HandInv, RaiseStops, NoneLost, OnlyUnrecorded, ServedFirst,
     Faithful, IdlePlace, LeftPlace, Ended

\* Every step keeps the hands right, whatever is amended or raised.
LEMMA HandInvStep == HostInv /\ PlaceInv /\ HandInv /\ [Next]_vars => HandInv'
<1> SUFFICES ASSUME HostInv, PlaceInv, HandInv, [Next]_vars PROVE HandInv'
  OBVIOUS
<1>1. CASE UNCHANGED vars
  <2>1. UNCHANGED <<mode, recorded, log, pc, reason, pending, fresh, queued, running,
                    arrived, raised, planAt, stop>>
    BY <1>1 DEF vars
  <2>2. /\ OpenCalls' = OpenCalls /\ HandSet' = HandSet /\ ArrivedIds' = ArrivedIds
        /\ \A q : Recordings(q)' = Recordings(q)
    BY <2>1 DEF OpenCalls, HandSet, ArrivedIds, Recordings, SameCall
  <2>3. CanInject' = CanInject
    BY <2>1, <2>2 DEF CanInject, CanInjectGroup, CanInjectArrival, PlanLeft, Planned,
       Orphaned, Needed, Window
  <2>4. RaiseStops' /\ NoneLost' /\ IdlePlace' /\ LeftPlace'
    BY <2>1, <2>2, <2>3 DEF HandInv, RaiseStops, NoneLost, IdlePlace, LeftPlace, Ended
  <2>5. OnlyUnrecorded' /\ ServedFirst'
    BY <2>1, <2>2 DEF HandInv, OnlyUnrecorded, ServedFirst, Ended
  <2>6. Faithful'
    BY <2>1, <2>2 DEF HandInv, Faithful, AsRecorded
  <2> QED
    BY <2>4, <2>5, <2>6 DEF HandInv
<1>2. CASE Loop
  BY <1>2, HandProcess, HandQuiesce, HandInject, HandControl DEF Loop
<1>3. CASE StartTask \/ Answers \/ \E id \in running : WorkerEmit(id) \/ WorkerRaise(id)
  <2>1. TRUE \in BOOLEAN
    OBVIOUS
  <2> QED
    BY <1>3, <2>1, HandCalls DEF Answers
<1>4. CASE \/ Interrupt \/ Crash
           \/ \E m \in LaterModes, edits \in EditSets : Restart(m, edits)
  BY <1>4, HandControl, HandWorld
<1> QED
  BY <1>1, <1>2, <1>3, <1>4 DEF Next

\* Host.run keeps every call: while it goes on and no exception is under way,
\* each request of the log without an answer is waiting, executing or landed.
\* Dispatcher.run: a worker is started only for a call the recording does not
\* answer, and never by a replay.  Both hold whatever is amended, interrupted,
\* raised or crashed.
THEOREM NoCallIsLost == Spec => [](NoneLost /\ OnlyUnrecorded)
<1>1. Init => HostInv /\ PlaceInv /\ HandInv
  BY HostInvInit, PlaceInvInit, HandInvInit
<1>2. HostInv /\ PlaceInv /\ HandInv /\ [Next]_vars => (HostInv /\ PlaceInv /\ HandInv)'
  BY HostInvStep, PlaceInvStep, HandInvStep
<1>3. HandInv => NoneLost /\ OnlyUnrecorded
  BY DEF HandInv
<1> QED
  BY <1>1, <1>2, <1>3, PTL DEF Spec


-----------------------------------------------------------------------------
(***************************************************************************)
(* What a log tells of the calls behind it, as long as no resume amends a  *)
(* brief: the side effects, the verdict and the end of a run in their      *)
(* places.  Every part looks back only, so a crash keeps it too.           *)
(***************************************************************************)
Unamended == EditSets \subseteq {{}}

\* A finding names its worker's request and comes before the answer.
Effects(l) ==
  \A i \in Findings(l) : l[i].cause # 1 =>
    /\ l[i].cause \in Requests(l) /\ l[i].cause < i
    /\ l[i].worker = l[l[i].cause].worker
    /\ \A j \in Responses(l) : l[j].cause = l[i].cause => i < j
\* A call publishes once.
OneFinding(l) == \A i, j \in Findings(l) : l[i].cause = l[j].cause => i = j
\* The gate answers after its verdict.
Judged(l) ==
  \A i \in Responses(l) : l[i].worker = Gate =>
    \E g \in Findings(l) : g < i /\ l[g].cause = l[i].cause
\* The verdict is not older than any agent's answer.
FreshVerdict(l) ==
  \A g \in GateFindings(l), i \in Responses(l) :
    l[i].worker \in Agents => l[i].by <= l[g].by
Plain(l) == \A i \in Requests(l) : l[i].ver = 1

\* The status a finished log carries is read off the log.
OkOf(l) ==
  /\ \A w \in Agents : \E i \in Responses(l) : l[i].worker = w /\ l[i].ok
  /\ ~ \E g \in Last(GateFindings(l)) : ~l[g].ok
Earned(l) ==
  \A i \in 1..Len(l) : l[i].type = "mission.completed" =>
    i = Len(l) /\ l[i] = Event("mission.completed", Gate, 0, 0, OkOf(l), 0)

Good(l) == /\ Shape(l) /\ OneAnswerIn(l) /\ Effects(l) /\ OneFinding(l) /\ Judged(l)
           /\ FreshVerdict(l) /\ Plain(l) /\ Earned(l)

\* No event is younger than the attempt n.
Aged(l, n) == \A i \in 1..Len(l) : l[i].by <= n

\* The order of the natural numbers is well founded:
LEMMA NatOrder ==
  \E R : IsWellFoundedOn(R, Nat) /\ \A x, y \in Nat : y < x => <<y, x>> \in R
<1>1. IsWellFoundedOn(OpToRel(<, Nat), Nat)
  BY NatLessThanWellFounded, Zenon
<1>2. \A x, y \in Nat : y < x => <<y, x>> \in OpToRel(<, Nat)
  BY Zenon DEF OpToRel
<1> QED
  BY <1>1, <1>2, Zenon

\* a set of them has a least element,
LEMMA Least ==
  ASSUME NEW S, S \subseteq Nat, S # {}
  PROVE  \E x \in S : \A y \in S : x <= y
<1>1. PICK R : IsWellFoundedOn(R, Nat) /\ \A x, y \in Nat : y < x => <<y, x>> \in R
  BY NatOrder
<1>2. PICK x \in S : \A y \in S : ~(<<y, x>> \in R)
  BY <1>1, WFMin
<1>3. \A y \in S : ~(y < x)
  BY <1>1, <1>2
<1> QED
  BY <1>3

\* and a bounded one a greatest.
LEMMA Greatest ==
  ASSUME NEW S, NEW n \in Nat, S \subseteq 0..n, S # {}
  PROVE  \E x \in S : \A y \in S : y <= x
<1> DEFINE T == {n - x : x \in S}
<1>1. T \subseteq Nat /\ T # {}
  <2>1. \A x \in S : n - x \in Nat
    OBVIOUS
  <2> QED
    BY <2>1
<1>2. PICK t \in T : \A y \in T : t <= y
  BY <1>1, Least
<1>3. PICK x \in S : t = n - x
  OBVIOUS
<1>4. \A y \in S : n - x <= n - y
  BY <1>2, <1>3
<1> QED
  BY <1>4

\* Where the calls and effects of a log stand.
LEMMA InLog ==
  ASSUME NEW l \in Seq(Events)
  PROVE  /\ Len(l) \in Nat
         /\ \A i \in Responses(l) : i \in 1..Len(l) /\ i \in Nat /\ l[i].type = "agent.responded"
         /\ \A i \in Findings(l) : i \in 1..Len(l) /\ i \in Nat /\ l[i].type = "finding.recorded"
         /\ \A i \in Requests(l) : i \in 1..Len(l) /\ i \in Nat /\ l[i].type = "agent.requested"
BY LenProperties DEF Responses, Findings, Requests

\* A log that is not finished claims nothing of its end.
LEMMA UnfinishedIsEarned ==
  ASSUME NEW l \in Seq(Events), Shape(l), l[Len(l)].type # "mission.completed"
  PROVE  Earned(l)
<1> SUFFICES ASSUME NEW i \in 1..Len(l), l[i].type = "mission.completed" PROVE FALSE
  BY DEF Earned
<1>1. i \in Nat /\ Len(l) \in Nat /\ i > 3 + N /\ N \in Nat
  BY ShapeRead, LenProperties, MissionFacts
<1>2. i # Len(l)
  OBVIOUS
<1>3. i + 1 \in 1..Len(l) /\ i >= 2 + N
  BY <1>1, <1>2
<1> QED
  BY <1>3, NextEvent

\* What a log tells of its calls, a prefix of it tells too.
LEMMA PrefixCalls ==
  ASSUME NEW l \in Seq(Events), NEW r \in Seq(Events), Prefix(l, r), Good(r)
  PROVE  /\ OneAnswerIn(l) /\ Effects(l) /\ OneFinding(l) /\ Judged(l)
         /\ FreshVerdict(l) /\ Plain(l)
<1>1. /\ Len(l) \in Nat /\ Len(r) \in Nat /\ Len(l) <= Len(r)
      /\ \A i \in 1..Len(l) : i \in 1..Len(r) /\ l[i] = r[i]
      /\ Requests(l) \subseteq Requests(r) /\ Responses(l) \subseteq Responses(r)
      /\ Findings(l) \subseteq Findings(r)
      /\ Requests(l) \subseteq 1..Len(l) /\ Responses(l) \subseteq 1..Len(l)
      /\ Findings(l) \subseteq 1..Len(l)
  BY PrefixEvents
<1>2. /\ \A i \in Requests(r) : i <= Len(l) => i \in Requests(l)
      /\ \A i \in Findings(r) : i <= Len(l) => i \in Findings(l)
  BY <1>1, PrefixEvents DEF Requests, Findings
<1>3. /\ \A i \in Responses(l) : i \in Responses(r) /\ l[i] = r[i] /\ i <= Len(l) /\ i \in Nat
      /\ \A i \in Findings(l) : i \in Findings(r) /\ l[i] = r[i] /\ i <= Len(l) /\ i \in Nat
      /\ \A i \in Requests(l) : i \in Requests(r) /\ l[i] = r[i]
      /\ \A i \in Requests(r) : i \in Nat
      /\ \A i \in Findings(r) : i \in Nat
  BY <1>1, InLog
<1>4. OneAnswerIn(l)
  <2> SUFFICES ASSUME NEW i \in Responses(l)
               PROVE  /\ l[i].cause \in Requests(l) /\ l[i].cause < i
                      /\ l[l[i].cause].worker = l[i].worker
                      /\ \A j \in Responses(l) : l[j].cause = l[i].cause => j = i
    BY DEF OneAnswerIn
  <2>1. /\ r[i].cause \in Requests(r) /\ r[i].cause < i
        /\ r[r[i].cause].worker = r[i].worker
        /\ \A j \in Responses(r) : r[j].cause = r[i].cause => j = i
    BY <1>3 DEF Good, OneAnswerIn
  <2>2. r[i].cause \in Requests(l)
    BY <1>1, <1>2, <1>3, <2>1
  <2> QED
    BY <1>3, <2>1, <2>2
<1>5. Effects(l)
  <2> SUFFICES ASSUME NEW i \in Findings(l), l[i].cause # 1
               PROVE  /\ l[i].cause \in Requests(l) /\ l[i].cause < i
                      /\ l[i].worker = l[l[i].cause].worker
                      /\ \A j \in Responses(l) : l[j].cause = l[i].cause => i < j
    BY DEF Effects
  <2>1. /\ r[i].cause \in Requests(r) /\ r[i].cause < i
        /\ r[i].worker = r[r[i].cause].worker
        /\ \A j \in Responses(r) : r[j].cause = r[i].cause => i < j
    BY <1>3 DEF Good, Effects
  <2>2. r[i].cause \in Requests(l)
    BY <1>1, <1>2, <1>3, <2>1
  <2> QED
    BY <1>3, <2>1, <2>2
<1>6. OneFinding(l)
  BY <1>3 DEF Good, OneFinding
<1>7. Judged(l)
  <2> SUFFICES ASSUME NEW i \in Responses(l), l[i].worker = Gate
               PROVE  \E g \in Findings(l) : g < i /\ l[g].cause = l[i].cause
    BY DEF Judged
  <2>1. PICK g \in Findings(r) : g < i /\ r[g].cause = r[i].cause
    BY <1>3 DEF Good, Judged
  <2>2. g \in Findings(l)
    BY <1>1, <1>2, <1>3, <2>1
  <2> QED
    BY <1>3, <2>1, <2>2
<1>8. FreshVerdict(l)
  <2>1. \A g \in GateFindings(l) : g \in GateFindings(r) /\ l[g] = r[g]
    BY <1>3 DEF GateFindings
  <2> QED
    BY <1>3, <2>1 DEF Good, FreshVerdict
<1>9. Plain(l)
  BY <1>3 DEF Good, Plain
<1> QED
  BY <1>4, <1>5, <1>6, <1>7, <1>8, <1>9

\* A crash leaves a good log good.
LEMMA GoodPrefix ==
  ASSUME NEW l \in Seq(Events), NEW r \in Seq(Events), Prefix(l, r), Good(r)
  PROVE  Good(l)
<1>1. Shape(l)
  BY ShapePrefix DEF Good
<1>2. Earned(l)
  <2>1. CASE l[Len(l)].type # "mission.completed"
    BY <1>1, <2>1, UnfinishedIsEarned
  <2>2. CASE l[Len(l)].type = "mission.completed" /\ Len(l) > 0
    <3>1. /\ Len(l) \in Nat /\ Len(l) \in 1..Len(l) /\ Len(l) \in 1..Len(r)
          /\ l[Len(l)] = r[Len(l)]
      BY <2>2, PrefixEvents
    <3>2. Len(l) = Len(r)
      BY <2>2, <3>1 DEF Good, Earned
    <3>3. l = r
      BY <3>1, <3>2, SeqEqual DEF Prefix
    <3> QED
      BY <3>3 DEF Good
  <2>3. CASE Len(l) = 0
    BY <2>3 DEF Earned
  <2> QED
    BY <2>1, <2>2, <2>3, LenProperties
<1> QED
  BY <1>1, <1>2, PrefixCalls DEF Good

\* The seeded log is good.
LEMMA SeedGood == Good(Seed) /\ Good(<<>>) /\ \A n \in Nat : Aged(Seed, n) /\ Aged(<<>>, n)
<1>1. /\ Seed \in Seq(Events) /\ Len(Seed) = 2 /\ Seed[1] = Started /\ Seed[2] = Fact
      /\ Shape(Seed) /\ Shape(<<>>)
      /\ Requests(Seed) = {} /\ Responses(Seed) = {} /\ Findings(Seed) = {2}
  BY SeedShape
<1>2. Fact.cause = 1 /\ Fact.type = "finding.recorded" /\ Fact.by = 0 /\ Started.by = 0
  BY DEF Fact, Started, Event
<1>3. OneAnswerIn(Seed) /\ Effects(Seed) /\ OneFinding(Seed) /\ Judged(Seed) /\ Plain(Seed)
  BY <1>1, <1>2 DEF OneAnswerIn, Effects, OneFinding, Judged, Plain
<1>4. FreshVerdict(Seed)
  BY <1>1 DEF FreshVerdict
<1>5. Earned(Seed)
  BY <1>1, <1>2, UnfinishedIsEarned
<1>6. Good(Seed)
  BY <1>1, <1>3, <1>4, <1>5 DEF Good
<1>7. <<>> \in Seq(Events) /\ Len(<<>>) = 0
  BY EmptySeq, OneOrNone
<1>8. Prefix(<<>>, Seed)
  BY <1>1, <1>7 DEF Prefix
<1>9. \A n \in Nat : Aged(Seed, n) /\ Aged(<<>>, n)
  <2>1. 1..2 = {1, 2}
    OBVIOUS
  <2> QED
    BY <1>1, <1>2, <1>7, <2>1 DEF Aged
<1> QED
  BY <1>1, <1>6, <1>7, <1>8, <1>9, GoodPrefix


\* A log grows by requests of unamended briefs and by marks.
LEMMA GoodGrows ==
  ASSUME NEW l \in Seq(Events), NEW m \in Seq(Events), Prefix(l, m), Good(l),
         Shape(m), Earned(m),
         Responses(m) = Responses(l), Findings(m) = Findings(l),
         \A i \in Requests(m) : i \in Requests(l) \/ m[i].ver = 1
  PROVE  Good(m)
<1>1. /\ \A i \in Responses(l) : m[i] = l[i]
      /\ \A i \in Findings(l) : m[i] = l[i]
      /\ \A i \in Requests(l) : m[i] = l[i] /\ i \in Requests(m)
  BY InLog, GrowingLog
<1>2. OneAnswerIn(m)
  BY <1>1 DEF Good, OneAnswerIn
<1>3. Effects(m)
  BY <1>1 DEF Good, Effects
<1>4. OneFinding(m) /\ Judged(m)
  BY <1>1 DEF Good, OneFinding, Judged
<1>5. FreshVerdict(m)
  BY <1>1 DEF Good, FreshVerdict, GateFindings
<1>6. Plain(m)
  BY <1>1 DEF Good, Plain
<1> QED
  BY <1>2, <1>3, <1>4, <1>5, <1>6 DEF Good

\* A verdict is reached after every agent's answer: none comes after it.
LEMMA NoAnswerAfterGate ==
  ASSUME NEW l \in Seq(Events), Good(l), NEW g \in GateFindings(l),
         NEW c \in Requests(l), l[c].worker \in Agents
  PROVE  c \in Answered(l)
<1>1. /\ l[g].cause \in Requests(l) /\ l[l[g].cause].worker = Gate
  BY DEF Good, Effects, GateFindings
<1>2. l[g].cause > 2 + N /\ l[g].cause \in Nat
  BY <1>1, RequestCases, MissionFacts DEF Good
<1>3. c \in 3..(2 + N) /\ c \in Nat /\ N \in Nat
  BY RequestCases, MissionFacts DEF Good
<1>4. PICK r \in Responses(l) : l[r].cause = c
  BY <1>1, <1>2, <1>3, WavesAreSequential DEF Good
<1> QED
  BY <1>4 DEF Answered

\* A call publishes.
LEMMA GoodFinding ==
  ASSUME NEW l \in Seq(Events), NEW e \in Events, Good(l), Shape(Append(l, e)),
         e.type = "finding.recorded", e.cause \in Requests(l), e.cause \notin Answered(l),
         e.worker = l[e.cause].worker,
         \A j \in Findings(l) : l[j].cause # e.cause,
         e.worker = Gate =>
           \A i \in Responses(l) : l[i].worker \in Agents => l[i].by <= e.by
  PROVE  Good(Append(l, e))
<1> DEFINE m == Append(l, e)
           n == Len(l) + 1
<1>1. /\ m \in Seq(Events) /\ Len(l) \in Nat /\ Len(m) = n /\ m[n] = e
      /\ Requests(m) = Requests(l) /\ Responses(m) = Responses(l)
      /\ Answered(m) = Answered(l) /\ Findings(m) = Findings(l) \cup {n}
      /\ \A i \in 1..Len(l) : m[i] = l[i]
  BY OneMore
<1>2. /\ \A i \in Responses(l) : m[i] = l[i] /\ i < n
      /\ \A i \in Findings(l) : m[i] = l[i] /\ i < n
      /\ \A i \in Requests(l) : m[i] = l[i] /\ i < n
  BY <1>1, InLog
<1>3. Shape(m)
  OBVIOUS
<1> HIDE DEF m, n
<1>4. OneAnswerIn(m)
  BY <1>1, <1>2 DEF Good, OneAnswerIn
<1>5. \A j \in Responses(l) : l[j].cause # e.cause
  BY DEF Answered
<1>6. Effects(m)
  <2>1. ASSUME NEW i \in Findings(l), m[i].cause # 1
        PROVE  /\ m[i].cause \in Requests(m) /\ m[i].cause < i
               /\ m[i].worker = m[m[i].cause].worker
               /\ \A j \in Responses(m) : m[j].cause = m[i].cause => i < j
    BY <1>1, <1>2, <2>1 DEF Good, Effects
  <2>2. /\ m[n].cause \in Requests(m) /\ m[n].cause < n
        /\ m[n].worker = m[m[n].cause].worker
        /\ \A j \in Responses(m) : m[j].cause = m[n].cause => n < j
    BY <1>1, <1>2, <1>5
  <2> QED
    BY <1>1, <2>1, <2>2 DEF Effects
<1>7. OneFinding(m)
  BY <1>1, <1>2 DEF Good, OneFinding
<1>8. Judged(m)
  BY <1>1, <1>2 DEF Good, Judged
<1>9. FreshVerdict(m)
  <2>1. \A g \in GateFindings(m) : g \in GateFindings(l) \/ (g = n /\ e.worker = Gate)
    BY <1>1, <1>2 DEF GateFindings
  <2>2. \A g \in GateFindings(l) : m[g] = l[g]
    BY <1>2 DEF GateFindings
  <2> QED
    BY <1>1, <1>2, <2>1, <2>2 DEF Good, FreshVerdict
<1>10. Plain(m)
  BY <1>1, <1>2 DEF Good, Plain
<1>11. Earned(m)
  BY <1>1, <1>3, UnfinishedIsEarned
<1> QED
  BY <1>3, <1>4, <1>6, <1>7, <1>8, <1>9, <1>10, <1>11 DEF Good, m

\* A call is answered.
LEMMA GoodResponse ==
  ASSUME NEW l \in Seq(Events), NEW e \in Events, Good(l), Shape(Append(l, e)),
         e.type = "agent.responded", e.cause \in Requests(l), e.cause \notin Answered(l),
         e.worker = l[e.cause].worker,
         e.worker = Gate => \E g \in Findings(l) : l[g].cause = e.cause
  PROVE  Good(Append(l, e))
<1> DEFINE m == Append(l, e)
           n == Len(l) + 1
<1>1. /\ m \in Seq(Events) /\ Len(l) \in Nat /\ Len(m) = n /\ m[n] = e
      /\ Requests(m) = Requests(l) /\ Findings(m) = Findings(l)
      /\ Responses(m) = Responses(l) \cup {n}
      /\ \A i \in 1..Len(l) : m[i] = l[i]
  BY OneMore
<1>2. /\ \A i \in Responses(l) : m[i] = l[i] /\ i < n
      /\ \A i \in Findings(l) : m[i] = l[i] /\ i < n
      /\ \A i \in Requests(l) : m[i] = l[i] /\ i < n
  BY <1>1, InLog
<1>3. Shape(m)
  OBVIOUS
<1>4. OneAnswerIn(m)
  BY FirstAnswerKeepsOneAnswer DEF Good
<1> HIDE DEF m, n
<1>5. Effects(m)
  <2> SUFFICES ASSUME NEW i \in Findings(l), l[i].cause # 1
               PROVE  /\ l[i].cause \in Requests(l) /\ l[i].cause < i
                      /\ l[i].worker = m[l[i].cause].worker
                      /\ \A j \in Responses(m) : m[j].cause = l[i].cause => i < j
    BY <1>1, <1>2 DEF Effects
  <2>1. /\ l[i].cause \in Requests(l) /\ l[i].cause < i
        /\ l[i].worker = l[l[i].cause].worker
        /\ \A j \in Responses(l) : l[j].cause = l[i].cause => i < j
    BY DEF Good, Effects
  <2> QED
    BY <1>1, <1>2, <2>1
<1>6. OneFinding(m)
  BY <1>1, <1>2 DEF Good, OneFinding
<1>7. Judged(m)
  BY <1>1, <1>2 DEF Good, Judged
<1>8. FreshVerdict(m)
  <2>1. GateFindings(m) = GateFindings(l)
    BY <1>1, <1>2 DEF GateFindings
  <2>2. \A g \in GateFindings(l) : m[g] = l[g] /\ e.worker \notin Agents
    BY <1>2, NoAnswerAfterGate DEF GateFindings
  <2> QED
    BY <1>1, <1>2, <2>1, <2>2 DEF Good, FreshVerdict
<1>9. Plain(m)
  BY <1>1, <1>2 DEF Good, Plain
<1>10. Earned(m)
  BY <1>1, <1>3, UnfinishedIsEarned
<1> QED
  BY <1>3, <1>4, <1>5, <1>6, <1>7, <1>8, <1>9, <1>10 DEF Good, m


-----------------------------------------------------------------------------
(***************************************************************************)
(* The plan follows the recording.  Until the plan of an attempt is used   *)
(* up, the answers in the log are the planned ones so far; and when the    *)
(* recorded run had its whole first wave answered, the new log is,         *)
(* position by position, the beginning of the recorded one.                *)
(***************************************************************************)
Plan == {i \in 1..Len(recorded) : Planned(i)}
WaveAnswered(l) == \A k \in 1..N : 2 + k \in Answered(l)
Tracking == WaveAnswered(recorded) /\ (PlanLeft # {} \/ Whole(recorded))

\* While the plan lasts only planned answers are in the log.
OnlyPlanned ==
  PlanLeft # {} => \A j \in Responses(log) : \E i \in Responses(recorded) :
    i <= planAt /\ recorded[i].cause = log[j].cause
\* What the plan has passed is in the log.
ReEmitted == \A i \in Plan : i <= planAt => \E j \in 1..Len(log) : log[j] = recorded[i]
\* A finding is either re-emitted or made now, by a call nobody recorded.
KnownFindings ==
  \A j \in Findings(log) : j > 2 =>
    \/ \E i \in Plan : i <= planAt /\ recorded[i] = log[j]
    \/ log[j].by = attempt /\ Recordings(log[j].cause) = {}
\* A verdict reached now comes with its completion, and the other way round.
VerdictLands ==
  \A j \in Findings(log) :
    j > 2 /\ log[j].worker = Gate /\ Recordings(log[j].cause) = {} =>
      log[j].cause \in Answered(log) \cup ArrivedIds
LandedIsJudged ==
  \A q \in ArrivedIds : log[q].worker = Gate /\ Recordings(q) = {} =>
    \E j \in Findings(log) : log[j].cause = q

TracksLog ==
  Prefix(log, recorded) /\ \A i \in Plan : i <= planAt <=> i <= Len(log)
Tracks ==
  Tracking =>
    /\ TracksLog
    /\ ~raised /\ reason # "raised"
    /\ pc # "group" /\ cursor > 0 /\ LastType = "finding.recorded" =>
         recorded[Len(log) + 1].type \notin InjectedTypes
    /\ pc = "group" => window = Window(Len(log) + 1)

LogInv ==
  /\ version = [w \in Workers |-> 1]
  /\ Good(log) /\ Good(recorded)
  /\ attempt >= 1 /\ Aged(log, attempt) /\ Aged(recorded, attempt - 1)
  /\ \A k \in 1..Len(arrived) : arrived[k].by <= attempt
FollowInv ==
  /\ OnlyPlanned /\ ReEmitted /\ KnownFindings /\ VerdictLands /\ LandedIsJudged
  /\ Tracks
SyncInv == LogInv /\ (pc \notin Ended => FollowInv)

\* Where a planned event stands, and whose it is.
LEMMA PlanFacts ==
  ASSUME HostInv, LogInv, NEW i \in Plan
  PROVE  /\ i \in 1..Len(recorded) /\ i \in Nat /\ i > 3 + N
         /\ i \in Responses(recorded) \cup Findings(recorded)
         /\ recorded[i].type \in InjectedTypes /\ recorded[i] \in Events
         /\ recorded[i].cause # 1 /\ recorded[i].ver = 0
         /\ recorded[i].cause \in Requests(recorded)
         /\ recorded[i].cause \in Answered(recorded) /\ recorded[i].cause < i
         /\ recorded[i].worker = recorded[recorded[i].cause].worker
<1>1. recorded \in Seq(Events) /\ Shape(recorded) /\ N \in Nat /\ N >= 1
  BY LogTypes, MissionFacts DEF LogInv, Good
<1>2. /\ i \in 1..Len(recorded) /\ recorded[i].type \in InjectedTypes
      /\ recorded[i].cause \notin Orphaned
  BY DEF Plan, Planned
<1>3. PICK r \in Requests(recorded) : r < i
  BY DEF Plan, Planned
<1>4. i \in Responses(recorded) \cup Findings(recorded)
  BY <1>2 DEF InjectedTypes, Responses, Findings
<1>5. r \in Nat /\ r >= 3 /\ i \in Nat
  BY <1>1, <1>2, <1>3, RequestCases, ShapeRead
<1>6. i > 3 + N /\ InBlock(recorded, i) /\ recorded[i] \in Events
  BY <1>1, <1>2, <1>3, <1>4, <1>5, ShapeRead
<1>7. recorded[i].cause # 1 /\ recorded[i].ver = 0
  BY <1>6 DEF InBlock
<1>8. /\ recorded[i].cause \in Requests(recorded) /\ recorded[i].cause < i
      /\ recorded[i].worker = recorded[recorded[i].cause].worker
  BY <1>4, <1>7 DEF LogInv, Good, OneAnswerIn, Effects
<1> QED
  BY <1>2, <1>4, <1>5, <1>6, <1>7, <1>8 DEF Orphaned

\* What is injected for an answered call is planned.
LEMMA AnsweredIsPlanned ==
  ASSUME HostInv, LogInv, NEW j \in Responses(recorded) \cup Findings(recorded),
         j > 2, j \in Findings(recorded) => recorded[j].cause \in Answered(recorded)
  PROVE  j \in Plan
<1>1. recorded \in Seq(Events) /\ Shape(recorded)
  BY LogTypes DEF LogInv, Good
<1>2. j \in 1..Len(recorded) /\ recorded[j].type \in InjectedTypes
  BY <1>1, InLog DEF InjectedTypes
<1>3. recorded[j].cause # 1
  BY <1>1, <1>2, ShapeRead DEF InBlock
<1>4. recorded[j].cause \in Requests(recorded) /\ recorded[j].cause < j
  BY <1>3 DEF LogInv, Good, OneAnswerIn, Effects
<1>5. recorded[j].cause \in Answered(recorded)
  BY DEF Answered
<1> QED
  BY <1>2, <1>4, <1>5 DEF Plan, Planned, Orphaned

\* Every planned event has the answer of its call in the plan, at or after it.
LEMMA PlanHasAnswer ==
  ASSUME HostInv, LogInv, NEW i \in Plan
  PROVE  \E r \in Responses(recorded) :
           /\ r \in Plan /\ i <= r /\ recorded[r].cause = recorded[i].cause
           /\ i \in Responses(recorded) => r = i
<1>1. /\ recorded \in Seq(Events) /\ i \in Nat /\ i > 3 + N /\ N \in Nat
      /\ i \in Responses(recorded) \cup Findings(recorded)
      /\ recorded[i].cause # 1 /\ recorded[i].cause \in Answered(recorded)
  BY PlanFacts, LogTypes, MissionFacts
<1>2. PICK r \in Responses(recorded) : recorded[r].cause = recorded[i].cause
  BY <1>1 DEF Answered
<1>3. CASE i \in Responses(recorded)
  BY <1>1, <1>3
<1>4. CASE i \notin Responses(recorded)
  <2>1. i < r /\ r \in Nat
    BY <1>1, <1>2, <1>4, InLog DEF LogInv, Good, Effects
  <2>2. r \in Plan
    <3>1. r > 2 /\ r \notin Findings(recorded)
      BY <1>1, <1>2, <2>1 DEF Responses, Findings
    <3> QED
      BY <3>1, AnsweredIsPlanned
  <2> QED
    BY <1>2, <1>4, <2>1, <2>2
<1> QED
  BY <1>3, <1>4

\* Each request of the first wave is an agent's.
LEMMA OfFirstWave == \A c \in 3..(2 + N) : \E k \in 1..N : 2 + k = c
<1> SUFFICES ASSUME NEW c \in 3..(2 + N) PROVE \E k \in 1..N : 2 + k = c
  OBVIOUS
<1>1. c - 2 \in 1..N /\ 2 + (c - 2) = c
  BY MissionFacts
<1> QED
  BY <1>1

\* Once the first wave is answered, an unanswered call comes after every answer.
LEMMA UnansweredIsLast ==
  ASSUME NEW l \in Seq(Events), Shape(l), OneAnswerIn(l), WaveAnswered(l),
         NEW c \in Requests(l), c \notin Answered(l), NEW r \in Responses(l)
  PROVE  r < c
<1> DEFINE d == l[r].cause
<1>1. /\ r \in Nat /\ c \in Nat /\ c >= 3 /\ N \in Nat
      /\ d \in Requests(l) /\ d \in Answered(l) /\ d \in Nat
  BY InLog, RequestCases, MissionFacts DEF OneAnswerIn, Answered
<1>2. c > 2 + N
  <2>1. ASSUME c \in 3..(2 + N) PROVE FALSE
    <3>1. PICK k \in 1..N : 2 + k = c
      BY <2>1, OfFirstWave
    <3> QED
      BY <3>1 DEF WaveAnswered
  <2> QED
    BY <1>1, <2>1
<1>3. CASE d < c
  <2>1. PICK s \in Responses(l) : s < c /\ l[s].cause = d
    BY <1>1, <1>2, <1>3, WavesAreSequential
  <2>2. s = r
    BY <2>1 DEF OneAnswerIn
  <2> QED
    BY <2>1, <2>2
<1>4. CASE c < d
  <2>1. d > 2 + N
    BY <1>1, <1>2, <1>4
  <2>2. PICK s \in Responses(l) : s < d /\ l[s].cause = c
    BY <1>1, <1>4, <2>1, WavesAreSequential
  <2> QED
    BY <2>2 DEF Answered
<1> QED
  BY <1>1, <1>3, <1>4

\* So the plan has no holes: nothing of an unanswered call stands before a
\* planned event.
LEMMA PlanHasNoHoles ==
  ASSUME HostInv, LogInv, WaveAnswered(recorded), NEW i \in Plan,
         NEW j \in Responses(recorded) \cup Findings(recorded), j > 2, j <= i
  PROVE  j \in Plan
<1>1. /\ recorded \in Seq(Events) /\ Shape(recorded) /\ OneAnswerIn(recorded)
      /\ i \in Nat
  BY PlanFacts, LogTypes DEF LogInv, Good
<1>2. PICK r \in Responses(recorded) : r \in Plan /\ i <= r
  BY PlanHasAnswer
<1> DEFINE c == recorded[j].cause
<1>3. j \in 1..Len(recorded) /\ j \in Nat /\ r \in Nat
  BY <1>1, InLog
<1>4. ASSUME j \in Findings(recorded), c \notin Answered(recorded)
      PROVE  FALSE
  <2>1. c # 1
    BY <1>1, <1>3, <1>4, ShapeRead DEF InBlock
  <2>2. c \in Requests(recorded) /\ c < j /\ c \in Nat
    BY <1>1, <1>4, <2>1, InLog DEF LogInv, Good, Effects
  <2>3. r < c
    BY <1>1, <1>4, <2>2, UnansweredIsLast
  <2> QED
    BY <1>1, <1>2, <1>3, <2>2, <2>3
<1> QED
  BY <1>4, AnsweredIsPlanned

\* Before its first wave is answered a log has the requests of that wave only.
LEMMA FirstWaveOnly ==
  ASSUME NEW l \in Seq(Events), Shape(l), OneAnswerIn(l), ~WaveAnswered(l),
         NEW p \in Requests(l)
  PROVE  p \in 3..(2 + N)
<1> SUFFICES ASSUME p \notin 3..(2 + N) PROVE FALSE
  OBVIOUS
<1>1. p > 3 + N /\ p \in 1..Len(l) /\ p \in Nat /\ N \in Nat /\ Len(l) \in Nat
  BY RequestCases, MissionFacts, LenProperties
<1>2. PICK k \in 1..N : 2 + k \notin Answered(l)
  BY DEF WaveAnswered
<1>3. 2 + k \in 3..(2 + N) /\ 2 + k \in 1..Len(l) /\ 2 + k < p
  BY <1>1
<1>4. 2 + k \in Requests(l)
  BY <1>3, ShapeRead
<1>5. p > 2 + N
  BY <1>1
<1>6. PICK r \in Responses(l) : l[r].cause = 2 + k
  BY <1>3, <1>4, <1>5, WavesAreSequential
<1> QED
  BY <1>2, <1>6 DEF Answered


-----------------------------------------------------------------------------
(***************************************************************************)
(* What that says of one moment of the loop.                               *)
(***************************************************************************)
\* A call has one recorded answer at most: the one to the same worker.
LEMMA RecordingMeans ==
  ASSUME HostInv, LogInv, NEW q \in Requests(log)
  PROVE  /\ \A i \in Responses(recorded) :
              i \in Recordings(q) <=> recorded[i].worker = log[q].worker
         /\ Recordings(q) \subseteq Responses(recorded)
         /\ \A i, j \in Recordings(q) : i = j
<1>1. log[q].ver = 1 /\ recorded \in Seq(Events) /\ Good(recorded)
  BY LogTypes DEF LogInv, Good, Plain
<1>2. \A i \in Responses(recorded) :
        /\ recorded[i].cause \in Requests(recorded)
        /\ recorded[recorded[i].cause].worker = recorded[i].worker
        /\ recorded[recorded[i].cause].ver = 1
  BY <1>1 DEF Good, OneAnswerIn, Plain
<1>3. \A i \in Responses(recorded) :
        i \in Recordings(q) <=> recorded[i].worker = log[q].worker
  BY <1>1, <1>2 DEF Recordings, SameCall
<1>4. Recordings(q) \subseteq Responses(recorded)
  BY DEF Recordings
<1>5. ASSUME NEW i \in Recordings(q), NEW j \in Recordings(q) PROVE i = j
  <2>1. recorded[i].cause = recorded[j].cause
    BY <1>1, <1>2, <1>3, <1>4, AskedOnce DEF Good
  <2> QED
    BY <1>1, <1>4, <2>1 DEF Good, OneAnswerIn
<1> QED
  BY <1>3, <1>4, <1>5

\* What is left of the plan lies after the group.
LEMMA PlanLeftMeans ==
  ASSUME HostInv
  PROVE  /\ \A i \in PlanLeft : i \in Plan /\ i > planAt /\ ~(i <= planAt) /\ i \in Nat
         /\ \A i \in Plan : i > planAt => i \in PlanLeft
         /\ planAt \in Nat
<1>1. planAt \in Nat /\ Len(recorded) \in Nat
  BY LogTypes
<1> QED
  BY <1>1 DEF PlanLeft, Plan

\* Everything injected up to the next position is planned.
LEMMA TrackedIsPlanned ==
  ASSUME HostInv, LogInv, Tracking, TracksLog,
         NEW j \in Responses(recorded) \cup Findings(recorded),
         j > 2, j <= Len(log) + 1
  PROVE  j \in Plan
<1>1. /\ recorded \in Seq(Events) /\ Shape(recorded) /\ Len(log) \in Nat
      /\ j \in 1..Len(recorded) /\ j \in Nat
  BY LogTypes, InLog DEF LogInv, Good
<1>2. CASE PlanLeft # {}
  <2>1. PICK i \in PlanLeft : TRUE
    BY <1>2
  <2>2. i \in Plan /\ i \in Nat /\ ~(i <= Len(log))
    BY PlanLeftMeans DEF TracksLog
  <2>3. j <= i
    BY <1>1, <2>2
  <2> QED
    BY <2>2, <2>3, PlanHasNoHoles DEF Tracking
<1>3. CASE Whole(recorded)
  <2>1. recorded[j].cause # 1
    BY <1>1, ShapeRead DEF InBlock
  <2>2. j \in Findings(recorded) => recorded[j].cause \in Answered(recorded)
    BY <1>3, <2>1 DEF Whole, LogInv, Good, Effects
  <2> QED
    BY <2>2, AnsweredIsPlanned
<1> QED
  BY <1>2, <1>3 DEF Tracking

\* The recording goes on where the log stands.
LEMMA RecordingGoesOn ==
  ASSUME HostInv, LogInv, Tracking, TracksLog, Len(log) >= 1,
         LastType # "mission.completed"
  PROVE  /\ Len(log) + 1 \in 1..Len(recorded)
         /\ Len(log) \in 1..Len(recorded) /\ recorded[Len(log)] = log[Len(log)]
<1>1. /\ Len(log) \in Nat /\ Len(recorded) \in Nat /\ Len(log) <= Len(recorded)
      /\ recorded[Len(log)] = log[Len(log)]
  BY LogTypes DEF TracksLog, Prefix
<1>2. CASE PlanLeft # {}
  <2>1. PICK i \in PlanLeft : TRUE
    BY <1>2
  <2>2. i \in Plan /\ i \in Nat /\ ~(i <= Len(log)) /\ i \in 1..Len(recorded)
    BY PlanLeftMeans DEF TracksLog, Plan
  <2> QED
    BY <1>1, <2>2
<1>3. CASE Whole(recorded)
  <2>1. recorded[Len(recorded)].type = "mission.completed"
    BY <1>3 DEF Whole
  <2>2. Len(log) # Len(recorded)
    BY <1>1, <2>1 DEF LastType
  <2> QED
    BY <1>1, <2>2
<1> QED
  BY <1>2, <1>3 DEF Tracking

\* Every call of a tracked log has its recorded answer.
LEMMA TrackedIsRecorded ==
  ASSUME HostInv, LogInv, Tracking, TracksLog, NEW q \in Requests(log)
  PROVE  /\ q \in Requests(recorded) /\ q \in Answered(recorded)
         /\ recorded[q] = log[q] /\ Recordings(q) # {}
<1>1. /\ log \in Seq(Events) /\ recorded \in Seq(Events) /\ Shape(recorded)
      /\ OneAnswerIn(recorded) /\ q \in 1..Len(log) /\ q \in Nat /\ Len(log) \in Nat
  BY LogTypes, InLog DEF LogInv, Good
<1>2. q \in Requests(recorded) /\ recorded[q] = log[q]
  BY <1>1, PrefixEvents DEF TracksLog
<1>3. q \in Answered(recorded)
  <2>1. CASE PlanLeft # {}
    <3>1. PICK i \in PlanLeft : TRUE
      BY <2>1
    <3>2. i \in Plan /\ i \in Nat /\ ~(i <= Len(log))
      BY PlanLeftMeans DEF TracksLog
    <3>3. PICK r \in Responses(recorded) : i <= r
      BY <3>2, PlanHasAnswer
    <3>4. r \in Nat /\ ~(r < q)
      <4>1. r \in Nat
        BY <1>1, InLog
      <4> QED
        BY <1>1, <3>2, <3>3, <4>1
    <3> QED
      BY <1>1, <1>2, <3>4, UnansweredIsLast DEF Tracking
  <2>2. CASE Whole(recorded)
    BY <1>2, <2>2 DEF Whole
  <2> QED
    BY <2>1, <2>2 DEF Tracking
<1>4. PICK i \in Responses(recorded) : recorded[i].cause = q
  BY <1>3 DEF Answered
<1>5. i \in Recordings(q)
  <2>1. recorded[i].worker = log[q].worker
    BY <1>2, <1>4 DEF LogInv, Good, OneAnswerIn
  <2> QED
    BY <2>1, RecordingMeans
<1> QED
  BY <1>2, <1>3, <1>5

\* The first wave as requests.
LEMMA FirstWaveCalls ==
  ASSUME NEW l \in Seq(Events), Shape(l), Len(l) >= 2 + N, NEW c \in 3..(2 + N)
  PROVE  c \in 1..Len(l) /\ c \in Requests(l) /\ l[c].worker = AgentList[c - 2]
<1>1. c \in 1..Len(l)
  BY MissionFacts, LenProperties
<1> QED
  BY <1>1, ShapeRead

\* A planned event's call is open in the log, if the log has come that far.
LEMMA PlannedIsOpen ==
  ASSUME HostInv, LogInv, OnlyPlanned, Tracks, Len(log) >= 2 + N,
         NEW i \in PlanLeft, Tracking => recorded[i].cause <= Len(log)
  PROVE  /\ recorded[i].cause \in Requests(log) /\ recorded[i].cause \notin Answered(log)
         /\ log[recorded[i].cause].worker = recorded[i].worker
         /\ i \in Responses(recorded) => i \in Recordings(recorded[i].cause)
         /\ Recordings(recorded[i].cause) # {}
<1> DEFINE c == recorded[i].cause
<1>1. /\ log \in Seq(Events) /\ recorded \in Seq(Events) /\ i \in Plan /\ i > planAt
      /\ i \in Nat /\ planAt \in Nat /\ N \in Nat /\ Len(log) \in Nat
      /\ Shape(log) /\ Shape(recorded) /\ OneAnswerIn(recorded) /\ OneAnswerIn(log)
  BY LogTypes, PlanLeftMeans, MissionFacts DEF LogInv, Good
<1>2. /\ c \in Requests(recorded) /\ c \in Answered(recorded) /\ c # 1
      /\ recorded[i].worker = recorded[c].worker
      /\ i \in Responses(recorded) \cup Findings(recorded)
  BY <1>1, PlanFacts
<1>3. c \in Requests(log) /\ log[c].worker = recorded[c].worker
  <2>1. CASE WaveAnswered(recorded)
    <3>1. Tracking
      BY <2>1 DEF Tracking
    <3>2. Prefix(log, recorded) /\ c <= Len(log)
      BY <3>1 DEF Tracks, TracksLog
    <3>3. c \in 1..Len(log)
      BY <1>1, <1>2, <3>2, InLog
    <3> QED
      BY <1>1, <1>2, <3>2, <3>3, PrefixEvents
  <2>2. CASE ~WaveAnswered(recorded)
    <3>1. c \in 3..(2 + N) /\ recorded[c].worker = AgentList[c - 2]
      BY <1>1, <1>2, <2>2, FirstWaveOnly, RequestCases
    <3>2. c \in Requests(log) /\ log[c].worker = AgentList[c - 2]
      BY <1>1, <3>1, FirstWaveCalls
    <3> QED
      BY <3>1, <3>2
  <2> QED
    BY <2>1, <2>2
<1>4. c \notin Answered(log)
  <2> SUFFICES ASSUME NEW j \in Responses(log), log[j].cause = c PROVE FALSE
    BY DEF Answered
  <2>1. PICK h \in Responses(recorded) : h <= planAt /\ recorded[h].cause = c
    BY DEF OnlyPlanned
  <2>2. h \in Nat
    BY <1>1, InLog
  <2>3. i \in Responses(recorded) => h = i
    BY <1>1, <2>1 DEF OneAnswerIn
  <2>4. i \in Findings(recorded) => i < h
    BY <1>2, <2>1 DEF LogInv, Good, Effects
  <2> QED
    BY <1>1, <1>2, <2>1, <2>2, <2>3, <2>4
<1>5. PICK r \in Responses(recorded) : recorded[r].cause = c
  BY <1>2 DEF Answered
<1>6. \A h \in Responses(recorded) : recorded[h].cause = c => h \in Recordings(c)
  <2>1. \A h \in Responses(recorded) : recorded[h].cause = c => recorded[h].worker = log[c].worker
    BY <1>3 DEF LogInv, Good, OneAnswerIn
  <2> QED
    BY <1>3, <2>1, RecordingMeans
<1> QED
  BY <1>2, <1>3, <1>4, <1>5, <1>6


\* The next window of a tracked log opens at its end.
LEMMA OpensHere ==
  ASSUME HostInv, PlaceInv, LogInv, Tracks, Tracking, pc = "check",
         NEW k \in First(PlanLeft)
  PROVE  k = Len(log) + 1
<1> DEFINE n == Len(log) + 1
<1>1. /\ log \in Seq(Events) /\ recorded \in Seq(Events) /\ Shape(recorded)
      /\ Len(log) \in Nat /\ N \in Nat /\ TracksLog
  BY LogTypes, MissionFacts DEF LogInv, Good, Tracks
<1>2. log[Len(log)] = Idle /\ Len(log) >= 3 + N /\ LastType = "runtime.idle"
  <2>1. reason # "raised"
    BY DEF Tracks
  <2> QED
    BY <2>1 DEF PlaceInv, LoopPlace, Standing, LastType, Idle, Event
<1>3. /\ n \in 1..Len(recorded) /\ Len(log) \in 1..Len(recorded)
      /\ recorded[Len(log)] = Idle
  BY <1>1, <1>2, RecordingGoesOn
<1>4. k \in PlanLeft /\ \A j \in PlanLeft : k <= j
  BY DEF First
<1>5. k \in Plan /\ k \in Nat /\ ~(k <= Len(log)) /\ k \in 1..Len(recorded)
  BY <1>1, <1>4, PlanLeftMeans DEF TracksLog, Plan
<1>6. InBlock(recorded, n)
  <2>1. InBlock(recorded, n) \/ Finished(recorded, n)
    <3>1. Idle.type = "runtime.idle" /\ Len(log) >= 2 + N
      BY <1>1, <1>2 DEF Idle, Event
    <3> QED
      BY <1>1, <1>3, <3>1, NextEvent
  <2>2. ASSUME Finished(recorded, n) PROVE FALSE
    <3>1. recorded[n].type = "mission.completed"
      BY <2>2 DEF Finished
    <3>2. n = Len(recorded)
      BY <1>3, <3>1 DEF LogInv, Good, Earned
    <3>3. k = n
      BY <1>1, <1>5, <3>2
    <3> QED
      BY <1>5, <3>1, <3>3, PlanFacts DEF InjectedTypes
  <2> QED
    BY <2>1, <2>2
<1>7. n \in Plan
  <2>1. n \in Responses(recorded) \cup Findings(recorded)
    BY <1>3, <1>6 DEF InBlock, InjectedTypes, Responses, Findings
  <2>2. n > 2 /\ n <= Len(log) + 1
    BY <1>1, <1>2
  <2> QED
    BY <1>1, <2>1, <2>2, TrackedIsPlanned
<1>8. n \in PlanLeft
  <2>1. ~(n <= planAt)
    BY <1>1, <1>7 DEF TracksLog
  <2>2. n > planAt
    BY <1>1, <2>1, PlanLeftMeans
  <2> QED
    BY <1>7, <2>2, PlanLeftMeans
<1> QED
  BY <1>1, <1>4, <1>5, <1>8

\* What the next window needs is open, and its answer is recorded.
LEMMA Needs ==
  ASSUME HostInv, PlaceInv, LogInv, OnlyPlanned, Tracks, pc = "check",
         NEW k \in First(PlanLeft), NEW q \in Needed(k)
  PROVE  q \in OpenCalls /\ Recordings(q) # {}
<1>1. PICK i \in Window(k) \cap Responses(recorded) : q = recorded[i].cause
  BY DEF Needed
<1>2. i \in PlanLeft /\ \A j \in k..i : recorded[j].type \in InjectedTypes
  BY DEF Window
<1>3. /\ i \in Plan /\ i \in Nat /\ q \in Requests(recorded) /\ q < i /\ q \in Nat
      /\ recorded[q].type = "agent.requested"
  BY <1>1, <1>2, PlanLeftMeans, PlanFacts, LogTypes, InLog
<1>4. Len(log) >= 2 + N /\ Len(log) \in Nat
  BY LogTypes, MissionFacts DEF PlaceInv, LoopPlace, Standing
<1>5. ASSUME Tracking PROVE q <= Len(log)
  <2>1. k = Len(log) + 1
    BY <1>5, OpensHere
  <2>2. ~(q \in k..i)
    BY <1>2, <1>3 DEF InjectedTypes
  <2> QED
    BY <1>3, <1>4, <2>1, <2>2
<1> QED
  BY <1>1, <1>2, <1>4, <1>5, PlannedIsOpen DEF OpenCalls

\* So nothing that landed is ever stuck, and nothing is left to wait for.
LEMMA NeverStuck ==
  ASSUME HostInv, PlaceInv, HandInv, SyncInv, pc = "check",
         arrived # <<>> \/ (PlanLeft # {} /\ OpenCalls = {})
  PROVE  CanInject
<1>1. LogInv /\ OnlyPlanned /\ Tracks
  BY DEF SyncInv, FollowInv, Ended
<1>2. CASE PlanLeft = {}
  BY <1>2 DEF CanInject, CanInjectArrival
<1>3. CASE PlanLeft # {}
  <2>1. PICK k \in PlanLeft : \A j \in PlanLeft : k <= j
    BY <1>3, PlanLeftMeans, Least
  <2>2. k \in First(PlanLeft)
    BY <2>1 DEF First
  <2>3. ASSUME NEW q \in Needed(k) PROVE q \in ArrivedIds
    <3>1. q \in OpenCalls /\ Recordings(q) # {}
      BY <1>1, <2>2, Needs
    <3> QED
      BY <3>1 DEF HandInv, ServedFirst, Ended
  <2> QED
    BY <2>2, <2>3 DEF CanInject, CanInjectGroup
<1> QED
  BY <1>2, <1>3

\* The window of a tracked log is re-emitted from its end on.
LEMMA ReEmitsNext ==
  ASSUME HostInv, PlaceInv, LogInv, Tracks, Tracking, pc = "group",
         NEW i \in First(window)
  PROVE  i = Len(log) + 1 /\ recorded[i].cause <= Len(log)
<1> DEFINE n == Len(log) + 1
<1>1. /\ log \in Seq(Events) /\ recorded \in Seq(Events) /\ Len(log) \in Nat
      /\ N \in Nat /\ TracksLog /\ window = Window(n) /\ Len(log) >= 3 + N
  BY LogTypes, MissionFacts DEF Tracks, PlaceInv, LoopPlace
<1>2. /\ i \in PlanLeft /\ \A j \in n..i : recorded[j].type \in InjectedTypes
      /\ \A j \in window : i <= j
  BY <1>1 DEF First, Window
<1>3. /\ i \in Plan /\ i \in Nat /\ ~(i <= Len(log)) /\ i \in 1..Len(recorded)
  BY <1>1, <1>2, PlanLeftMeans DEF TracksLog, Plan
<1>4. n \in n..i /\ n \in 1..Len(recorded) /\ n > 2 /\ n <= Len(log) + 1
  BY <1>1, <1>3, LogTypes
<1>5. n \in Plan
  <2>1. n \in Responses(recorded) \cup Findings(recorded)
    BY <1>2, <1>4 DEF InjectedTypes, Responses, Findings
  <2> QED
    BY <1>1, <1>4, <2>1, TrackedIsPlanned
<1>6. n \in PlanLeft
  <2>1. ~(n <= planAt)
    BY <1>1, <1>5 DEF TracksLog
  <2>2. n > planAt
    BY <1>1, <2>1, PlanLeftMeans
  <2> QED
    BY <1>5, <2>2, PlanLeftMeans
<1>7. n \in window
  <2>1. \A j \in n..n : recorded[j].type \in InjectedTypes
    BY <1>1, <1>2, <1>4
  <2> QED
    BY <1>1, <1>6, <2>1 DEF Window
<1>8. i = n
  BY <1>1, <1>2, <1>3, <1>7
<1>9. recorded[i].cause \in Nat /\ recorded[i].cause < i
  <2>1. recorded[i].cause \in Requests(recorded) /\ recorded[i].cause < i
    BY <1>3, PlanFacts
  <2> QED
    BY <1>1, <2>1, InLog
<1> QED
  BY <1>1, <1>8, <1>9


-----------------------------------------------------------------------------
(***************************************************************************)
(* How that is kept.  First what an injection adds.                        *)
(***************************************************************************)
LEMMA SameEvent ==
  ASSUME NEW e \in Events, NEW f \in Events, e.type = f.type, e.worker = f.worker,
         e.cause = f.cause, e.ver = f.ver, e.ok = f.ok, e.by = f.by
  PROVE  e = f
BY DEF Events

\* A completion of a recorded call becomes the recorded answer again.
LEMMA RespondsAsRecorded ==
  ASSUME HostInv, PlaceInv, HandInv, LogInv, NEW k \in 1..Len(arrived),
         NEW i \in Recordings(arrived[k].req), recorded[i].cause = arrived[k].req
  PROVE  Response(arrived[k]) = recorded[i]
<1> DEFINE q == arrived[k].req
<1>1. /\ q \in Requests(log) /\ Response(arrived[k]) \in Events
      /\ Response(arrived[k]).type = "agent.responded"
      /\ Response(arrived[k]).cause = q /\ Response(arrived[k]).ver = 0
  BY ResponseTakes
<1>2. /\ i \in Responses(recorded) /\ recorded[i].worker = log[q].worker
      /\ \A j \in Recordings(q) : j = i
  BY <1>1, RecordingMeans
<1>3. /\ recorded[i] \in Events /\ recorded[i].type = "agent.responded"
      /\ recorded[i].ver = 0
  BY <1>2, LogTypes, InLog, ShapeRead DEF LogInv, Good, InBlock
<1>4. arrived[k].ok = recorded[i].ok /\ arrived[k].by = recorded[i].by
  <2>1. IsAmong(arrived[k], Recordings(q), recorded)
    BY DEF HandInv, Faithful, AsRecorded
  <2> QED
    BY <1>2, <2>1 DEF IsAmong
<1>5. /\ Response(arrived[k]).worker = log[q].worker
      /\ Response(arrived[k]).ok = arrived[k].ok
      /\ Response(arrived[k]).by = arrived[k].by
  BY DEF Response, Event
<1> QED
  BY <1>1, <1>2, <1>3, <1>4, <1>5, SameEvent

\* The gate's completion finds its verdict in the log.
LEMMA JudgedBefore ==
  ASSUME HostInv, LogInv, ReEmitted, LandedIsJudged,
         NEW q \in ArrivedIds, q \in Requests(log), log[q].worker = Gate,
         \A i \in Recordings(q), g \in Plan : g < i => g <= planAt
  PROVE  \E j \in Findings(log) : log[j].cause = q
<1>1. CASE Recordings(q) = {}
  BY <1>1 DEF LandedIsJudged
<1>2. CASE Recordings(q) # {}
  <2>1. PICK i \in Recordings(q) : TRUE
    BY <1>2
  <2>2. i \in Responses(recorded) /\ recorded[i].worker = Gate
    BY RecordingMeans
  <2>3. PICK g \in Findings(recorded) : g < i /\ recorded[g].cause = recorded[i].cause
    BY <2>2 DEF LogInv, Good, Judged
  <2>4. /\ recorded \in Seq(Events) /\ log \in Seq(Events) /\ N \in Nat /\ N >= 1
        /\ g \in 1..Len(recorded) /\ g \in Nat
        /\ recorded[g].type = "finding.recorded" /\ recorded[i].cause \in Nat
        /\ Shape(recorded) /\ Shape(log) /\ OneAnswerIn(log)
    BY <2>2, LogTypes, MissionFacts, InLog DEF LogInv, Good, OneAnswerIn
  <2>5. /\ recorded[i].cause \in Requests(recorded) /\ recorded[i].cause \in Answered(recorded)
        /\ recorded[recorded[i].cause].worker = Gate
    BY <2>2 DEF LogInv, Good, OneAnswerIn, Answered
  <2>6. recorded[g].cause # 1
    BY <2>3, <2>4, <2>5, RequestCases
  <2>7. g > 2
    BY <2>4, <2>6, ShapeRead
  <2>8. recorded[g].worker = Gate
    BY <2>3, <2>5, <2>6 DEF LogInv, Good, Effects
  <2>9. g \in Plan
    BY <2>3, <2>5, <2>7, AnsweredIsPlanned
  <2>10. g <= planAt
    BY <2>1, <2>3, <2>9
  <2>11. PICK j \in 1..Len(log) : log[j] = recorded[g]
    BY <2>9, <2>10 DEF ReEmitted
  <2>12. j \in Findings(log)
    BY <2>4, <2>11 DEF Findings
  <2>13. log[j].cause \in Requests(log) /\ log[log[j].cause].worker = Gate
    BY <2>6, <2>8, <2>11, <2>12 DEF LogInv, Good, Effects
  <2>14. log[j].cause = q
    BY <2>4, <2>13, AskedOnce
  <2> QED
    BY <2>12, <2>14
<1> QED
  BY <1>1, <1>2

\* A call that nobody recorded and that is running has published nothing yet.
LEMMA NothingPublished ==
  ASSUME HostInv, PlaceInv, HandInv, SyncInv, pc = "wait", NEW id \in running,
         \/ log[id].worker = Gate
         \/ ~HasEmitted(id)
  PROVE  /\ id \in Requests(log) /\ id \notin Answered(log) /\ Recordings(id) = {}
         /\ \A j \in Findings(log) : log[j].cause # id
<1>1. /\ id \in Requests(log) /\ id \notin Answered(log) /\ id \notin ArrivedIds
      /\ Recordings(id) = {} /\ LogInv /\ KnownFindings /\ VerdictLands
      /\ log \in Seq(Events) /\ Shape(log)
  BY LogTypes DEF HostInv, EachCallInOnePlace, HandInv, OnlyUnrecorded, SyncInv,
     FollowInv, Ended, PlaceInv
<1>2. ASSUME NEW j \in Findings(log), log[j].cause = id PROVE FALSE
  <2>1. id >= 3 /\ j \in 1..Len(log) /\ j \in Nat
    BY <1>1, RequestCases, InLog
  <2>2. j > 2 /\ log[j].cause # 1
    <3>1. j = 2 \/ j > 3 + N
      BY <1>1, <2>1, ShapeRead
    <3>2. j # 2
      BY <1>1, <1>2, <2>1, ShapeRead
    <3> QED
      BY <1>2, <2>1, <3>1, <3>2, MissionFacts
  <2>3. log[j].worker = log[id].worker
    BY <1>1, <1>2, <2>2 DEF LogInv, Good, Effects
  <2>4. CASE log[id].worker = Gate
    BY <1>1, <1>2, <2>2, <2>3, <2>4 DEF VerdictLands
  <2>5. CASE ~HasEmitted(id)
    <3>1. log[j].by # attempt
      BY <1>2, <2>5 DEF HasEmitted
    <3>2. PICK h \in Plan : recorded[h] = log[j]
      BY <1>1, <2>2, <3>1 DEF KnownFindings
    <3>3. PICK r \in Responses(recorded) : recorded[r].cause = recorded[h].cause
      BY <1>1, PlanHasAnswer
    <3>4. recorded[r].worker = log[id].worker
      <4>1. recorded[h].worker = recorded[recorded[h].cause].worker
        BY <1>1, PlanFacts
      <4>2. recorded[r].worker = recorded[recorded[r].cause].worker
        BY <1>1 DEF LogInv, Good, OneAnswerIn
      <4> QED
        BY <2>3, <3>2, <3>3, <4>1, <4>2
    <3>5. r \in Recordings(id)
      BY <1>1, <3>4, RecordingMeans
    <3> QED
      BY <1>1, <3>5
  <2> QED
    BY <2>4, <2>5
<1> QED
  BY <1>1, <1>2

\* While the log is tracked no call runs.
LEMMA TrackedRunsNothing ==
  ASSUME HostInv, HandInv, LogInv, Tracks, Tracking
  PROVE  running = {} /\ \A q \in OpenCalls : Recordings(q) # {}
<1>1. TracksLog
  BY DEF Tracks
<1>2. \A q \in Requests(log) : Recordings(q) # {}
  BY <1>1, TrackedIsRecorded
<1>3. \A q \in running : q \in Requests(log) /\ Recordings(q) = {}
  BY DEF HostInv, EachCallInOnePlace, HandInv, OnlyUnrecorded
<1> QED
  BY <1>2, <1>3 DEF OpenCalls

\* Nothing lands outside the plan of a whole recording.
LEMMA TrackedLandsInPlan ==
  ASSUME HostInv, LogInv, Tracking, TracksLog, PlanLeft = {}
  PROVE  OpenCalls = {}
<1> SUFFICES ASSUME NEW q \in OpenCalls PROVE FALSE
  OBVIOUS
<1>1. /\ log \in Seq(Events) /\ recorded \in Seq(Events) /\ Shape(recorded)
      /\ Len(log) \in Nat /\ planAt \in Nat /\ N \in Nat /\ Prefix(log, recorded)
  BY LogTypes, MissionFacts DEF LogInv, Good, TracksLog
<1>2. q \in Requests(log) /\ q \notin Answered(log) /\ q \in Answered(recorded)
  BY TrackedIsRecorded DEF OpenCalls
<1>3. PICK i \in Responses(recorded) : recorded[i].cause = q
  BY <1>2 DEF Answered
<1>4. i \in Nat /\ i > 3 + N /\ i \in 1..Len(recorded)
  BY <1>1, InLog, ShapeRead
<1>5. i \in Plan
  <2>1. i > 2 /\ i \notin Findings(recorded)
    BY <1>1, <1>4 DEF Responses, Findings
  <2> QED
    BY <2>1, AnsweredIsPlanned
<1>6. i <= planAt
  <2>1. ~(i > planAt)
    BY <1>5, PlanLeftMeans
  <2> QED
    BY <1>1, <1>4, <2>1
<1>7. i <= Len(log)
  BY <1>5, <1>6 DEF TracksLog
<1>8. i \in Responses(log) /\ log[i].cause = q
  <2>1. i \in 1..Len(log)
    BY <1>1, <1>4, <1>7
  <2> QED
    BY <1>1, <1>3, <2>1, PrefixEvents
<1> QED
  BY <1>2, <1>8 DEF Answered


\* The plan, and whether the log tracks it, depend on the recording and on
\* what has been passed of it.
LEMMA PlanKept ==
  ASSUME UNCHANGED <<recorded, planAt>>
  PROVE  /\ PlanLeft' = PlanLeft /\ Plan' = Plan /\ (Tracking' <=> Tracking)
         /\ \A k : Window(k)' = Window(k)
<1>1. \A i : Planned(i)' <=> Planned(i)
  BY DEF Planned, Orphaned, Requests, Answered, Responses
<1>2. PlanLeft' = PlanLeft /\ Plan' = Plan
  BY <1>1 DEF PlanLeft, Plan
<1>3. Tracking' <=> Tracking
  BY <1>2 DEF Tracking
<1>4. \A k : Window(k)' = Window(k)
  BY <1>2 DEF Window
<1> QED
  BY <1>2, <1>3, <1>4

\* What the log and the landed completions owe each other.
Books == ReEmitted /\ KnownFindings /\ VerdictLands /\ LandedIsJudged

\* Whose a finding is, and what comes with a verdict.
Known(j) == \/ \E i \in Plan : i <= planAt /\ recorded[i] = log[j]
            \/ log[j].by = attempt /\ Recordings(log[j].cause) = {}
Lands(j) == log[j].worker = Gate /\ Recordings(log[j].cause) = {} =>
              log[j].cause \in Answered(log) \cup ArrivedIds

\* A step that loses no completion, and accounts for what it publishes, for
\* what it passes of the plan and for what it lets land, keeps the books.
LEMMA BooksGrow ==
  ASSUME HostInv, LogInv, Books, log' \in Seq(Events), Prefix(log, log'),
         UNCHANGED <<recorded, attempt>>, planAt' \in Nat, planAt <= planAt',
         Answered(log) \cup ArrivedIds \subseteq Answered(log') \cup ArrivedIds',
         \A i \in Plan : i <= planAt' =>
           i <= planAt \/ \E j \in 1..Len(log') : log'[j] = recorded[i],
         \A j \in Findings(log') : j \in Findings(log) \/ (Known(j)' /\ Lands(j)'),
         \A q \in ArrivedIds' \ ArrivedIds :
           /\ q \in Requests(log)
           /\ \/ log[q].worker # Gate \/ Recordings(q) # {}
              \/ \E j \in Findings(log') : log'[j].cause = q
  PROVE  Books'
<1>1. /\ log \in Seq(Events)
      /\ \A i \in 1..Len(log) : log'[i] = log[i]
      /\ Len(log) \in Nat /\ Len(log') \in Nat /\ Len(log) <= Len(log')
      /\ Findings(log) \subseteq Findings(log')
  BY LogTypes, GrowingLog, PrefixEvents
<1>2. \A q \in Requests(log) : log'[q] = log[q] /\ Recordings(q)' = Recordings(q)
  BY RequestsKept
<1>3. \A j \in Findings(log) : log'[j] = log[j]
  BY <1>1, InLog
<1>4. \A j \in Findings(log) : j > 2 => log[j].cause \in Requests(log)
  <2> SUFFICES ASSUME NEW j \in Findings(log), j > 2
               PROVE  log[j].cause \in Requests(log)
    OBVIOUS
  <2>1. j \in 1..Len(log) /\ Shape(log)
    BY <1>1, InLog DEF LogInv, Good
  <2>2. log[j].cause # 1
    BY <1>1, <2>1, ShapeRead DEF InBlock
  <2> QED
    BY <2>2 DEF LogInv, Good, Effects
<1>5. /\ Plan' = Plan /\ planAt \in Nat /\ \A i \in Plan : i \in Nat
      /\ \A i \in Plan : i <= planAt => i <= planAt'
  <2>1. Plan' = Plan /\ \A i \in Plan : i \in Nat
    BY DEF Plan, Planned, Orphaned, Requests, Responses, Answered
  <2>2. planAt \in Nat
    BY DEF HostInv, TypeOK
  <2> QED
    BY <2>1, <2>2
<1>6. ASSUME NEW j \in Findings(log), j > 2
      PROVE  Recordings(log[j].cause)' = Recordings(log[j].cause)
  <2>1. PICK c \in Requests(log) : c = log[j].cause
    BY <1>4, <1>6
  <2>2. log'[j] = log[j] /\ log'[c] = log[c]
    BY <1>2, <1>3, <2>1
  <2> QED
    BY <2>1, <2>2 DEF Recordings, SameCall, Responses
<1>7. ReEmitted'
  <2> SUFFICES ASSUME NEW i \in Plan, i <= planAt'
               PROVE  \E j \in 1..Len(log') : log'[j] = recorded[i]
    BY <1>5 DEF ReEmitted
  <2>1. CASE i <= planAt
    <3>1. PICK j \in 1..Len(log) : log[j] = recorded[i]
      BY <2>1 DEF Books, ReEmitted
    <3> QED
      BY <1>1, <3>1
  <2> QED
    BY <2>1
<1>8. \A j \in Findings(log') : j > 2 => Known(j)' /\ Lands(j)'
  <2> SUFFICES ASSUME NEW j \in Findings(log), j > 2
               PROVE  Known(j)' /\ Lands(j)'
    OBVIOUS
  <2>1. Recordings(log[j].cause)' = Recordings(log[j].cause)
    BY <1>6
  <2>2. Known(j) /\ Lands(j) /\ log'[j] = log[j]
    BY <1>3 DEF Books, KnownFindings, VerdictLands, Known, Lands
  <2>3. Known(j)'
    <3>1. CASE \E i \in Plan : i <= planAt /\ recorded[i] = log[j]
      <4>1. \E i \in Plan : i <= planAt' /\ recorded[i] = log'[j]
        BY <1>5, <2>2, <3>1
      <4> QED
        BY <1>5, <4>1 DEF Known
    <3>2. CASE log[j].by = attempt /\ Recordings(log[j].cause) = {}
      BY <2>1, <2>2, <3>2 DEF Known
    <3> QED
      BY <2>2, <3>1, <3>2 DEF Known
  <2>4. Lands(j)'
    BY <2>1, <2>2 DEF Lands
  <2> QED
    BY <2>3, <2>4
<1>9. KnownFindings'
  BY <1>8 DEF KnownFindings, Known
<1>10. VerdictLands'
  BY <1>8 DEF VerdictLands, Lands
<1>11. LandedIsJudged'
  <2> SUFFICES ASSUME NEW q \in ArrivedIds', log'[q].worker = Gate,
                      Recordings(q)' = {}
               PROVE  \E j \in Findings(log') : log'[j].cause = q
    BY DEF LandedIsJudged
  <2>1. CASE q \in ArrivedIds
    <3>1. q \in Requests(log)
      BY <2>1, InHandFacts
    <3>2. log[q].worker = Gate /\ Recordings(q) = {}
      BY <1>2, <3>1
    <3>3. PICK j \in Findings(log) : log[j].cause = q
      BY <2>1, <3>2 DEF Books, LandedIsJudged
    <3> QED
      BY <1>1, <1>3, <3>3
  <2>2. CASE q \notin ArrivedIds
    BY <1>2, <2>2
  <2> QED
    BY <2>1, <2>2
<1> QED
  BY <1>7, <1>9, <1>10, <1>11 DEF Books

\* A step that publishes nothing and passes nothing of the plan.
LEMMA BooksKept ==
  ASSUME HostInv, LogInv, Books, log' \in Seq(Events), Prefix(log, log'),
         Findings(log') = Findings(log), UNCHANGED <<recorded, planAt, attempt>>,
         Answered(log) \cup ArrivedIds \subseteq Answered(log') \cup ArrivedIds',
         \A q \in ArrivedIds' \ ArrivedIds :
           q \in Requests(log) /\ (log[q].worker # Gate \/ Recordings(q) # {})
  PROVE  Books'
<1>1. planAt' \in Nat /\ planAt <= planAt'
  BY DEF HostInv, TypeOK
<1> QED
  BY <1>1, BooksGrow

\* A step that injects nothing has injected only what was planned,
LEMMA OnlyPlannedKept ==
  ASSUME HostInv, OnlyPlanned, log' \in Seq(Events), Prefix(log, log'),
         Responses(log') = Responses(log), UNCHANGED <<recorded, planAt>>
  PROVE  OnlyPlanned'
<1>1. PlanLeft' = PlanLeft /\ log \in Seq(Events)
  BY PlanKept, LogTypes
<1>2. \A j \in Responses(log) : log'[j] = log[j]
  BY <1>1, GrowingLog, InLog
<1> QED
  BY <1>1, <1>2 DEF OnlyPlanned

\* How Tracks goes on when log and plan stand still.
StillTracks ==
  Tracking =>
    /\ ~raised' /\ reason' # "raised"
    /\ pc' # "group" /\ cursor' > 0 /\ LastType = "finding.recorded" =>
         recorded[Len(log) + 1].type \notin InjectedTypes
    /\ pc' = "group" => window' = Window(Len(log) + 1)

\* and follows the recording if its place in it is kept.
LEMMA TracksStill ==
  ASSUME Tracks, StillTracks, UNCHANGED <<recorded, planAt, log>>
  PROVE  Tracks'
<1>1. (Tracking' <=> Tracking) /\ Plan' = Plan /\ \A k : Window(k)' = Window(k)
  BY PlanKept
<1>2. LastType' = LastType
  BY DEF LastType
<1>3. TracksLog => TracksLog'
  BY <1>1 DEF TracksLog
<1>4. (pc' = "group" /\ Tracking') => window' = Window(Len(log) + 1)'
  <2>1. Window(Len(log) + 1)' = Window(Len(log) + 1)
    BY <1>1 DEF Window
  <2> QED
    BY <1>1, <2>1 DEF StillTracks
<1> QED
  BY <1>1, <1>2, <1>3, <1>4 DEF Tracks, StillTracks

\* A step that leaves the log alone.
LEMMA SyncStill ==
  ASSUME HostInv, SyncInv, pc \notin Ended, StillTracks,
         UNCHANGED <<attempt, version, recorded, log, planAt, arrived>>
  PROVE  SyncInv'
<1>1. log \in Seq(Events) /\ Prefix(log, log')
  <2>1. log \in Seq(Events)
    BY LogTypes
  <2> QED
    BY <2>1, LenProperties DEF Prefix
<1>2. ArrivedIds' = ArrivedIds /\ Answered(log') = Answered(log)
  BY DEF ArrivedIds
<1>3. LogInv /\ FollowInv
  BY DEF SyncInv
<1>4. LogInv'
  <2>1. log' = log /\ recorded' = recorded
    OBVIOUS
  <2>2. Good(log)' /\ Good(recorded)' /\ Aged(log, attempt)' /\ Aged(recorded, attempt - 1)'
    BY <1>3 DEF LogInv
  <2>3. version' = [w \in Workers |-> 1] /\ attempt' >= 1
        /\ \A k \in 1..Len(arrived') : arrived'[k].by <= attempt'
    BY <1>3 DEF LogInv
  <2> QED
    BY <2>2, <2>3 DEF LogInv
<1>5. Books'
  <2>1. Books
    BY <1>3 DEF FollowInv, Books
  <2>2. ArrivedIds' \ ArrivedIds = {}
    BY <1>2
  <2>3. log' \in Seq(Events) /\ Findings(log') = Findings(log)
    BY <1>1
  <2> QED
    BY <1>1, <1>2, <1>3, <2>1, <2>2, <2>3, BooksKept
<1>6. OnlyPlanned'
  BY <1>1, <1>3, OnlyPlannedKept DEF FollowInv
<1>7. Tracks'
  BY <1>3, TracksStill DEF FollowInv
<1> QED
  BY <1>4, <1>5, <1>6, <1>7 DEF SyncInv, FollowInv, Books


\* A loop that stays out of the windows and does not raise goes on tracking.
LEMMA OutsideWindows ==
  ASSUME Tracks, pc # "group", pc' # "group", UNCHANGED <<cursor, log, recorded>>,
         Tracking => ~raised' /\ reason' # "raised"
  PROVE  StillTracks
BY DEF Tracks, StillTracks

\* The run follows the recording: through the exits of the loop,
LEMMA SyncControl ==
  ASSUME HostInv, PlaceInv, SyncInv,
         ObserveStop \/ Await \/ GoIdle \/ Spin \/ Wake \/ Fail
  PROVE  SyncInv'
<1>1. /\ pc \notin Ended /\ pc # "group" /\ pc' # "group"
      /\ UNCHANGED <<attempt, version, recorded, log, planAt, arrived, cursor, raised>>
  BY DEF ObserveStop, Await, GoIdle, Spin, Wake, Fail, Leave, Ended, identity, tasks
<1>2. reason' # reason => reason' # "raised" \/ raised
  BY DEF ObserveStop, Await, GoIdle, Spin, Wake, Fail, Leave
<1>3. Tracks
  BY <1>1 DEF SyncInv, FollowInv
<1>4. Tracking => ~raised' /\ reason' # "raised"
  BY <1>1, <1>2, <1>3 DEF Tracks
<1>5. StillTracks
  BY <1>1, <1>3, <1>4, OutsideWindows
<1> QED
  BY <1>1, <1>5, SyncStill

\* an interrupt,
LEMMA SyncInterrupt ==
  ASSUME HostInv, PlaceInv, SyncInv, Interrupt
  PROVE  SyncInv'
<1>1. /\ pc \notin Ended
      /\ UNCHANGED <<attempt, version, recorded, log, planAt, arrived, cursor, raised, pc,
                     reason, window>>
  BY DEF Interrupt, identity
<1>2. StillTracks
  BY <1>1 DEF StillTracks, SyncInv, FollowInv, Tracks
<1> QED
  BY <1>1, <1>2, SyncStill

\* the opening of a window,
LEMMA SyncOpen ==
  ASSUME HostInv, PlaceInv, SyncInv, OpenWindow
  PROVE  SyncInv'
<1>1. /\ pc = "check" /\ pc \notin Ended /\ pc' = "group"
      /\ UNCHANGED <<attempt, version, recorded, log, planAt, arrived, cursor, raised, reason>>
  BY DEF OpenWindow, identity, Ended
<1>2. Tracks /\ LogInv
  BY <1>1 DEF SyncInv, FollowInv
<1>3. PICK k \in First(PlanLeft) : window' = Window(k)
  BY DEF OpenWindow
<1>4. Tracking => window' = Window(Len(log) + 1)
  BY <1>1, <1>2, <1>3, OpensHere
<1>5. StillTracks
  BY <1>1, <1>2, <1>4 DEF StillTracks, Tracks
<1> QED
  BY <1>1, <1>5, SyncStill

\* After the last event of a window the recording asks or settles.
LEMMA WindowEnds ==
  ASSUME HostInv, PlaceInv, SyncInv, pc = "group", window = {}, Tracking,
         LastType = "finding.recorded"
  PROVE  recorded[Len(log) + 1].type \notin InjectedTypes
<1> SUFFICES ASSUME recorded[Len(log) + 1].type \in InjectedTypes PROVE FALSE
  OBVIOUS
<1> DEFINE n == Len(log) + 1
<1>1. LogInv /\ Tracks /\ TracksLog
  BY DEF SyncInv, FollowInv, Ended, Tracks
<1>2. Len(log) >= 3 + N /\ N \in Nat /\ N >= 1 /\ Len(log) \in Nat
      /\ log \in Seq(Events) /\ recorded \in Seq(Events)
  BY LogTypes, MissionFacts, LenProperties DEF PlaceInv, LoopPlace
<1>3. n \in 1..Len(recorded)
  BY <1>1, <1>2, RecordingGoesOn
<1>4. n \in Responses(recorded) \cup Findings(recorded)
  BY <1>3 DEF InjectedTypes, Responses, Findings
<1>5. n > 2 /\ n <= Len(log) + 1 /\ n \in Nat
  BY <1>2
<1>6. n \in Plan
  BY <1>1, <1>4, <1>5, TrackedIsPlanned
<1>7. ~(n <= planAt) /\ planAt \in Nat
  BY <1>1, <1>2, <1>6, PlanLeftMeans DEF TracksLog
<1>8. n \in PlanLeft
  BY <1>5, <1>6, <1>7, PlanLeftMeans
<1>9. \A j \in n..n : j = n
  BY <1>5
<1>10. n \in Window(n)
  BY <1>8, <1>9 DEF Window
<1> QED
  BY <1>1, <1>10 DEF Tracks

\* its closing,
LEMMA SyncClose ==
  ASSUME HostInv, PlaceInv, SyncInv, CloseWindow
  PROVE  SyncInv'
<1>1. /\ pc = "group" /\ window = {} /\ pc \notin Ended /\ pc' = "settle"
      /\ UNCHANGED <<attempt, version, recorded, log, planAt, arrived, cursor, raised, reason>>
  BY DEF CloseWindow, identity, Ended
<1>2. Tracks
  BY <1>1 DEF SyncInv, FollowInv
<1>3. StillTracks
  BY <1>1, <1>2, WindowEnds DEF StillTracks, Tracks
<1> QED
  BY <1>1, <1>3, SyncStill


\* No brief has been amended: every request carries the first version.
LEMMA FirstVersion ==
  ASSUME LogInv, NEW w \in Workers, NEW c \in Nat
  PROVE  Requested(w, c) = Event("agent.requested", w, c, 1, TRUE, 0)
BY DEF LogInv, Requested

\* (two parts of a log, by position)
LEMMA TwoParts ==
  ASSUME NEW s \in Seq(Events), NEW t \in Seq(Events), Len(s) = 2, Len(t) = N
  PROVE  /\ Len(s \o t) = 2 + N /\ (s \o t)[1] = s[1] /\ (s \o t)[2] = s[2]
         /\ \A i \in 3..(2 + N) : i - 2 \in 1..N /\ (s \o t)[i] = t[i - 2]
<1> DEFINE m == s \o t
<1>1. N \in Nat /\ N >= 1
  BY MissionFacts
<1>2. /\ Len(m) = Len(s) + Len(t)
      /\ \A i \in 1..(Len(s) + Len(t)) : m[i] = IF i <= Len(s) THEN s[i] ELSE t[i - Len(s)]
  BY ConcatProperties
<1> HIDE DEF m
<1>3. \A i \in 1..(2 + N) : m[i] = IF i <= 2 THEN s[i] ELSE t[i - 2]
  BY <1>2
<1>4. \A i \in 3..(2 + N) : i - 2 \in 1..N /\ m[i] = t[i - 2]
  BY <1>1, <1>3
<1>5. Len(m) = 2 + N /\ m[1] = s[1] /\ m[2] = s[2]
  BY <1>1, <1>2, <1>3
<1> QED
  BY <1>4, <1>5 DEF m

\* (what the first processed event asks for)
LEMMA FirstWaveAsked ==
  ASSUME LogInv, log' = Seed \o [k \in 1..N |-> Requested(AgentList[k], 1)]
  PROVE  /\ Len(log') = 2 + N
         /\ log'[1] = Started /\ log'[2] = Fact
         /\ \A i \in 3..(2 + N) :
              log'[i] = Event("agent.requested", AgentList[i - 2], 1, 1, TRUE, 0)
<1> DEFINE t == [k \in 1..N |-> Event("agent.requested", AgentList[k], 1, 1, TRUE, 0)]
<1>1. [k \in 1..N |-> Requested(AgentList[k], 1)] = t
  <2>1. \A k \in 1..N : Requested(AgentList[k], 1)
                          = Event("agent.requested", AgentList[k], 1, 1, TRUE, 0)
    <3> SUFFICES ASSUME NEW k \in 1..N
                 PROVE  Requested(AgentList[k], 1)
                          = Event("agent.requested", AgentList[k], 1, 1, TRUE, 0)
      OBVIOUS
    <3>1. AgentList[k] \in Workers /\ 1 \in Nat
      BY MissionFacts DEF Workers
    <3> QED
      BY <3>1, FirstVersion
  <2> QED
    BY <2>1
<1>2. t \in Seq(Events) /\ Len(t) = N
  <2>1. \A k \in 1..N : Event("agent.requested", AgentList[k], 1, 1, TRUE, 0) \in Events
    <3>1. \A k \in 1..N : AgentList[k] \in Workers
      BY MissionFacts DEF Workers
    <3> QED
      BY <3>1 DEF Event, Events, EventTypes
  <2>2. t \in [1..N -> Events] /\ N \in Nat
    BY <2>1, MissionFacts
  <2> HIDE DEF t
  <2> QED
    BY <2>2, LenProperties
<1>3. /\ Seed \in Seq(Events) /\ Len(Seed) = 2 /\ Seed[1] = Started /\ Seed[2] = Fact
  BY SeedShape
<1>4. log' = Seed \o t
  BY <1>1
<1>5. \A k \in 1..N : t[k] = Event("agent.requested", AgentList[k], 1, 1, TRUE, 0)
  OBVIOUS
<1> HIDE DEF t
<1>6. /\ Len(log') = 2 + N /\ log'[1] = Started /\ log'[2] = Fact
      /\ \A i \in 3..(2 + N) : i - 2 \in 1..N /\ log'[i] = t[i - 2]
  BY <1>2, <1>3, <1>4, TwoParts
<1> QED
  BY <1>5, <1>6

\* What the behaviors add to the log.
LEMMA ProcessAdds ==
  ASSUME HostInv, PlaceInv, LogInv, ProcessEvent
  PROVE  \A i \in 1..Len(log') : \/ i \in 1..Len(log) /\ log'[i] = log[i]
                                 \/ log'[i].ver = 1 /\ log'[i].by = 0
<1>1. log \in Seq(Events) /\ Len(log) \in Nat
  BY LogTypes, LenProperties
<1>2. CASE log' = Seed \o [k \in 1..N |-> Requested(AgentList[k], 1)] /\ log = Seed
  <2>1. /\ Len(log') = 2 + N /\ log'[1] = Started /\ log'[2] = Fact
        /\ \A i \in 3..(2 + N) :
              log'[i] = Event("agent.requested", AgentList[i - 2], 1, 1, TRUE, 0)
    BY <1>2, FirstWaveAsked
  <2>2. Len(log) = 2 /\ log[1] = Started /\ log[2] = Fact /\ N \in Nat
    BY <1>2, SeedShape, MissionFacts
  <2>3. \A i \in 1..(2 + N) : i = 1 \/ i = 2 \/ i \in 3..(2 + N)
    BY <2>2
  <2>5. ASSUME NEW w PROVE /\ Event("agent.requested", w, 1, 1, TRUE, 0).ver = 1
                           /\ Event("agent.requested", w, 1, 1, TRUE, 0).by = 0
    BY DEF Event
  <2>4. \A i \in 3..(2 + N) : log'[i].ver = 1 /\ log'[i].by = 0
    BY <2>1, <2>5, Zenon
  <2> QED
    BY <2>1, <2>2, <2>3, <2>4
<1>3. CASE log' = log
  BY <1>3
<1>4. CASE \E w \in Workers : log' = Append(log, Requested(w, Len(log)))
  <2>1. PICK w \in Workers : log' = Append(log, Requested(w, Len(log)))
    BY <1>4
  <2>2. Requested(w, Len(log)) = Event("agent.requested", w, Len(log), 1, TRUE, 0)
    BY <1>1, FirstVersion
  <2> DEFINE e == Requested(w, Len(log))
  <2>3. e.ver = 1 /\ e.by = 0
    BY <2>2 DEF Event
  <2> HIDE DEF e
  <2>4. log' = Append(log, e)
    BY <2>1 DEF e
  <2>5. \A i \in 1..Len(log') : \/ i \in 1..Len(log) /\ log'[i] = log[i]
                                \/ log'[i] = e
    BY <1>1, <2>4, AppendProperties
  <2> QED
    BY <2>3, <2>5
<1> QED
  BY <1>2, <1>3, <1>4, ProcessCases

\* A step that goes on with the recording's next event.
LEMMA TrackGrows ==
  ASSUME HostInv, TracksLog, NEW e \in Events, log' = Append(log, e),
         UNCHANGED recorded, Len(log) + 1 \in 1..Len(recorded),
         recorded[Len(log) + 1] = e,
         IF Len(log) + 1 \in Plan THEN planAt' = Len(log) + 1 ELSE planAt' = planAt
  PROVE  TracksLog'
<1>1. /\ log \in Seq(Events) /\ Len(log) \in Nat /\ Len(log') = Len(log) + 1
      /\ \A i \in 1..Len(log) : log'[i] = log[i]
      /\ log'[Len(log) + 1] = e
  BY LogTypes, OneMore
<1>2. Plan' = Plan /\ Plan \subseteq 1..Len(recorded)
  BY DEF Plan, Planned, Orphaned, Requests, Responses, Answered
<1>3. Prefix(log', recorded)
  BY <1>1 DEF TracksLog, Prefix
<1>4. recorded \in Seq(Events) /\ Len(recorded) \in Nat /\ planAt \in Nat
  BY LogTypes, LenProperties DEF HostInv, TypeOK
<1>5. \A i \in Plan : i \in Nat /\ (i <= planAt <=> i <= Len(log))
  BY <1>2, <1>4 DEF TracksLog
<1>6. \A i \in Plan : i <= planAt' <=> i <= Len(log) + 1
  <2>1. CASE Len(log) + 1 \in Plan
    BY <1>1, <1>5, <2>1
  <2>2. CASE Len(log) + 1 \notin Plan
    <3>1. \A i \in Plan : i # Len(log) + 1
      BY <2>2
    <3> QED
      BY <1>1, <1>5, <2>2, <3>1
  <2> QED
    BY <2>1, <2>2
<1> QED
  BY <1>1, <1>2, <1>3, <1>6 DEF TracksLog


\* A log that grows by events no attempt stamped is no younger.
LEMMA AgedGrows ==
  ASSUME NEW l, NEW m, NEW n \in Nat, Aged(l, n),
         \A i \in 1..Len(m) : (i \in 1..Len(l) /\ m[i] = l[i]) \/ m[i].by <= n
  PROVE  Aged(m, n)
BY DEF Aged

\* A log that stays good keeps the log's invariant.
LEMMA LogGrows ==
  ASSUME HostInv, LogInv, log' \in Seq(Events), Good(log'), Aged(log', attempt),
         UNCHANGED <<attempt, version, recorded>>,
         \A k \in 1..Len(arrived') : arrived'[k].by <= attempt
  PROVE  LogInv'
BY DEF LogInv

\* Processing an event keeps it,
LEMMA ProcessKeepsLog ==
  ASSUME HostInv, PlaceInv, LogInv, ProcessEvent
  PROVE  LogInv'
<1>1. /\ log \in Seq(Events) /\ log' \in Seq(Events) /\ Prefix(log, log')
      /\ Responses(log') = Responses(log) /\ Findings(log') = Findings(log)
      /\ UNCHANGED <<arrived, recorded, version, attempt>> /\ pc' = "settle"
  BY ProcessMoves, LogTypes
<1>2. PlaceInv'
  BY PlaceProcess
<1>3. Shape(log') /\ log'[Len(log')].type # "mission.completed"
  BY <1>1, <1>2 DEF PlaceInv, LoopPlace, LastType
<1>4. Earned(log')
  BY <1>1, <1>3, UnfinishedIsEarned
<1>5. \A i \in 1..Len(log') : \/ i \in 1..Len(log) /\ log'[i] = log[i]
                              \/ log'[i].ver = 1 /\ log'[i].by = 0
  BY ProcessAdds
<1>6. \A i \in Requests(log') : i \in Requests(log) \/ log'[i].ver = 1
  BY <1>5 DEF Requests
<1>7. Good(log')
  BY <1>1, <1>3, <1>4, <1>6, GoodGrows DEF LogInv
<1>8. attempt \in Nat
  BY DEF HostInv, TypeOK
<1>9. Aged(log', attempt)
  BY <1>5, <1>8 DEF LogInv, Aged
<1> QED
  BY <1>1, <1>7, <1>9, LogGrows DEF LogInv

\* The behaviors request again what the recording shows they requested.
LEMMA ProcessFollows ==
  ASSUME HostInv, PlaceInv, SyncInv, ProcessEvent, Tracking
  PROVE  TracksLog' /\ (cursor = 0 \/ log' # log => LastType' = "agent.requested")
<1>1. /\ log \in Seq(Events) /\ log' \in Seq(Events) /\ Len(log) \in Nat
      /\ recorded \in Seq(Events) /\ Len(recorded) \in Nat
      /\ UNCHANGED <<recorded, planAt>> /\ pc = "settle"
      /\ N \in Nat /\ N >= 1 /\ planAt \in Nat
  BY ProcessMoves, LogTypes, LenProperties, MissionFacts DEF HostInv, TypeOK
<1>2. LogInv /\ TracksLog /\ Shape(recorded) /\ Good(recorded)
  BY <1>1 DEF SyncInv, FollowInv, Tracks, Ended, LogInv, Good
<1>3. Plan' = Plan
  BY <1>1, PlanKept
<1>4. CASE log = Seed /\ log' = Seed \o [k \in 1..N |-> Requested(AgentList[k], 1)]
  <2>1. /\ Len(log') = 2 + N /\ log'[1] = Started /\ log'[2] = Fact
        /\ \A i \in 3..(2 + N) :
              log'[i] = Event("agent.requested", AgentList[i - 2], 1, 1, TRUE, 0)
    BY <1>2, <1>4, FirstWaveAsked
  <2>2. 2 + N <= Len(recorded)
    <3>1. N \in 1..N
      BY <1>1
    <3>2. 2 + N \in Answered(recorded)
      BY <3>1 DEF Tracking, WaveAnswered
    <3>3. 2 + N \in Requests(recorded)
      BY <1>2, <3>2 DEF Good, OneAnswerIn, Answered
    <3> QED
      BY <1>1, <3>3, InLog
  <2>3. \A i \in 3..(2 + N) : recorded[i] = log'[i]
    <3> SUFFICES ASSUME NEW i \in 3..(2 + N) PROVE recorded[i] = log'[i]
      OBVIOUS
    <3>1. i \in 1..Len(recorded)
      BY <1>1, <2>2
    <3>2. RequestAt(recorded, i, AgentList[i - 2], 1) /\ i \in Requests(recorded)
      BY <1>1, <1>2, <3>1, ShapeRead DEF Shape, WellPlaced
    <3>3. recorded[i].ver = 1
      BY <1>2, <3>2 DEF Good, Plain
    <3>4. recorded[i] = Event("agent.requested", AgentList[i - 2], 1, 1, TRUE, 0)
      BY <3>2, <3>3 DEF RequestAt
    <3> QED
      BY <2>1, <3>4
  <2>4. recorded[1] = Started /\ recorded[2] = Fact
    <3>1. 1 \in 1..Len(recorded) /\ 2 \in 1..Len(recorded)
      BY <1>1, <2>2
    <3> QED
      BY <1>2, <3>1 DEF Shape, WellPlaced
  <2>5. \A i \in 1..(2 + N) : i = 1 \/ i = 2 \/ i \in 3..(2 + N)
    BY <1>1
  <2>6. Prefix(log', recorded)
    BY <2>1, <2>2, <2>3, <2>4, <2>5 DEF Prefix
  <2>7. \A i \in Plan : i <= planAt <=> i <= Len(log')
    <3> SUFFICES ASSUME NEW i \in Plan PROVE i <= planAt <=> i <= 2 + N
      BY <2>1
    <3>1. i \in Nat /\ i > 3 + N
      BY <1>2, PlanFacts
    <3>2. i <= planAt <=> i <= Len(log)
      BY <1>2 DEF TracksLog
    <3>3. Len(log) = 2
      BY <1>4, SeedShape
    <3> QED
      BY <1>1, <3>1, <3>2, <3>3
  <2>8. LastType' = "agent.requested"
    <3>1. 2 + N \in 3..(2 + N)
      BY <1>1
    <3>2. PICK w : log'[2 + N] = Event("agent.requested", w, 1, 1, TRUE, 0)
      BY <2>1, <3>1
    <3>3. log'[2 + N].type = "agent.requested"
      BY <3>2 DEF Event
    <3> QED
      BY <2>1, <3>3 DEF LastType
  <2> QED
    BY <1>1, <1>3, <2>6, <2>7, <2>8 DEF TracksLog
<1>5. CASE cursor > 0 /\ log' = log
  <2>1. TracksLog'
    BY <1>1, <1>2, <1>3, <1>5 DEF TracksLog
  <2> QED
    BY <1>5, <2>1
<1>6. CASE /\ cursor > 0 /\ Len(log) \in Responses(log)
           /\ \E w \in Workers : /\ Wave(log, Len(log)) = <<w>>
                                 /\ log' = Append(log, Requested(w, Len(log)))
  <2>1. PICK w \in Workers : /\ Wave(log, Len(log)) = <<w>>
                             /\ log' = Append(log, Requested(w, Len(log)))
    BY <1>6
  <2> DEFINE n == Len(log)
             e == Requested(w, n)
  <2>2. n >= 2 + N /\ LastType # "mission.completed"
    BY <1>1, <1>6 DEF PlaceInv, LoopPlace
  <2>3. /\ n + 1 \in 1..Len(recorded) /\ n \in 1..Len(recorded) /\ recorded[n] = log[n]
    BY <1>1, <1>2, <2>2, RecordingGoesOn
  <2>4. n \in 1..Len(log) /\ log[n].type = "agent.responded"
    BY <1>1, <1>6, <2>2 DEF Responses
  <2>5. Wave(recorded, n) = <<w>>
    BY <1>1, <1>2, <2>1, <2>4, WavePrefix DEF TracksLog
  <2>6. AskedBy(recorded, n + 1)
    BY <1>1, <1>2, <2>2, <2>3, <2>4, <2>5, NextEvent, OneOrNone
  <2>7. recorded[n + 1].worker = w
    <3>1. (n + 1) - 1 = n
      BY <1>1
    <3>2. Wave(recorded, n) = <<recorded[n + 1].worker>>
      BY <2>6, <3>1 DEF AskedBy
    <3> QED
      BY <2>5, <3>2
  <2>8. RequestAt(recorded, n + 1, w, n)
    <3>1. (n + 1) - 1 = n
      BY <1>1
    <3> QED
      BY <2>6, <2>7, <3>1 DEF AskedBy
  <2>9. recorded[n + 1].type = "agent.requested"
    BY <2>8 DEF RequestAt, Event
  <2>10. n + 1 \in Requests(recorded) /\ recorded[n + 1].ver = 1
    BY <1>2, <2>3, <2>9 DEF Requests, Good, Plain
  <2>11. recorded[n + 1] = e
    BY <1>1, <1>2, <2>8, <2>10, FirstVersion DEF RequestAt
  <2>12. e \in Events /\ n + 1 \notin Plan
    <3>1. recorded[n + 1] \in Events
      BY <1>1, <2>3, ElementOfSeq
    <3> QED
      BY <2>9, <2>11, <3>1 DEF Plan, Planned, InjectedTypes
  <2>13. e.type = "agent.requested"
    BY <2>9, <2>11
  <2> HIDE DEF e
  <2>14. log' = Append(log, e)
    BY <2>1 DEF e
  <2>15. TracksLog'
    BY <1>1, <1>2, <2>3, <2>11, <2>12, <2>14, TrackGrows
  <2>16. LastType' = "agent.requested"
    BY <1>1, <2>12, <2>13, <2>14, AppendPositions DEF LastType
  <2> QED
    BY <2>15, <2>16
<1> QED
  BY <1>4, <1>5, <1>6, ProcessCases

\* and follows the recording;
LEMMA SyncProcess ==
  ASSUME HostInv, PlaceInv, SyncInv, ProcessEvent
  PROVE  SyncInv'
<1>1. /\ log' \in Seq(Events) /\ Prefix(log, log') /\ pc = "settle" /\ pc' = "settle"
      /\ Responses(log') = Responses(log) /\ Answered(log') = Answered(log)
      /\ Findings(log') = Findings(log)
      /\ UNCHANGED <<arrived, recorded, planAt, raised, reason, version, attempt>>
  BY ProcessMoves
<1>2. LogInv /\ FollowInv /\ Books
  BY <1>1 DEF SyncInv, FollowInv, Ended, Books
<1>3. LogInv'
  BY <1>2, ProcessKeepsLog
<1>4. ArrivedIds' = ArrivedIds /\ ArrivedIds' \ ArrivedIds = {}
  BY <1>1 DEF ArrivedIds
<1>5. Books'
  BY <1>1, <1>2, <1>4, BooksKept
<1>6. OnlyPlanned'
  BY <1>1, <1>2, OnlyPlannedKept DEF FollowInv
<1>7. Tracks'
  <2>1. Tracking' <=> Tracking
    BY <1>1, PlanKept
  <2>2. SUFFICES ASSUME Tracking
                 PROVE  /\ TracksLog' /\ ~raised /\ reason # "raised"
                        /\ LastType' = "finding.recorded" =>
                             recorded[Len(log') + 1].type \notin InjectedTypes
    BY <1>1, <2>1 DEF Tracks
  <2>3. TracksLog' /\ (cursor = 0 \/ log' # log => LastType' = "agent.requested")
    BY <2>2, ProcessFollows
  <2>4. ~raised /\ reason # "raised"
    BY <1>2, <2>2 DEF FollowInv, Tracks
  <2>5. cursor \in Nat
    BY DEF HostInv, TypeOK
  <2>6. ASSUME LastType' = "finding.recorded"
        PROVE  recorded[Len(log') + 1].type \notin InjectedTypes
    <3>1. cursor > 0 /\ log' = log /\ LastType = "finding.recorded"
      BY <2>3, <2>5, <2>6 DEF LastType
    <3> QED
      BY <1>1, <1>2, <2>2, <3>1 DEF FollowInv, Tracks
  <2> QED
    BY <2>3, <2>4, <2>6
<1> QED
  BY <1>3, <1>5, <1>6, <1>7 DEF SyncInv, FollowInv, Books


\* so does going idle,
LEMMA QuiesceKeepsLog ==
  ASSUME HostInv, PlaceInv, LogInv, Quiesce
  PROVE  LogInv' /\ Prefix(log, log')
<1>1. /\ log \in Seq(Events) /\ log' \in Seq(Events) /\ Idle \in Events
      /\ log' = log \/ log' = Append(log, Idle)
      /\ Idle.type = "runtime.idle" /\ Len(log') >= 3 + N /\ log'[Len(log')] = Idle
      /\ Responses(log') = Responses(log) /\ Requests(log') = Requests(log)
      /\ Findings(log') = Findings(log) /\ Shape(log')
  BY QuiesceCases, LogTypes
<1>2. UNCHANGED <<attempt, version, recorded, arrived>> /\ attempt \in Nat
  BY DEF Quiesce, identity, HostInv, TypeOK
<1>3. /\ Prefix(log, log') /\ Len(log) \in Nat
      /\ \A i \in 1..Len(log') : (i \in 1..Len(log) /\ log'[i] = log[i]) \/ log'[i] = Idle
  <2>1. CASE log' = log
    BY <1>1, <2>1, LenProperties DEF Prefix
  <2>2. CASE log' = Append(log, Idle)
    <3>1. /\ Prefix(log, log') /\ Len(log) \in Nat /\ Len(log') = Len(log) + 1
          /\ \A i \in 1..Len(log) : log'[i] = log[i]
          /\ log'[Len(log) + 1] = Idle
      BY <1>1, <2>2, OneMore
    <3> QED
      BY <3>1
  <2> QED
    BY <1>1, <2>1, <2>2
<1>4. Earned(log')
  BY <1>1, UnfinishedIsEarned
<1>5. Good(log')
  BY <1>1, <1>3, <1>4, GoodGrows DEF LogInv
<1>6. Idle.by = 0
  BY DEF Idle, Event
<1>7. Aged(log', attempt)
  BY <1>2, <1>3, <1>6 DEF LogInv, Aged
<1> QED
  BY <1>1, <1>2, <1>3, <1>5, <1>7, LogGrows DEF LogInv

\* Where the loop settles, the recording shows that it settled.
LEMMA QuiesceFollows ==
  ASSUME HostInv, PlaceInv, LogInv, Tracks, Quiesce, Tracking
  PROVE  TracksLog'
<1>1. /\ log \in Seq(Events) /\ Len(log) \in Nat /\ recorded \in Seq(Events)
      /\ Len(recorded) \in Nat /\ Idle \in Events /\ Idle.type = "runtime.idle"
      /\ cursor = Len(log) /\ Len(log) >= 2 + N /\ N \in Nat /\ N >= 1
      /\ \/ log[Len(log)] = Idle /\ log' = log
         \/ log[Len(log)] # Idle /\ log' = Append(log, Idle)
  BY LogTypes, LenProperties, QuiesceCases, MissionFacts
<1>2. pc = "settle" /\ UNCHANGED <<recorded, planAt>>
  BY DEF Quiesce, identity
<1>3. TracksLog /\ Shape(log) /\ Shape(recorded) /\ LastType # "mission.completed"
  BY <1>2 DEF Tracks, LogInv, Good, PlaceInv, LoopPlace
<1>4. CASE log' = log
  <2>1. Plan' = Plan
    BY <1>2, PlanKept
  <2> QED
    BY <1>2, <1>3, <1>4, <2>1 DEF TracksLog
<1>5. CASE log[Len(log)] # Idle /\ log' = Append(log, Idle)
  <2> DEFINE n == Len(log)
  <2>1. n + 1 \in 1..Len(recorded) /\ n \in 1..Len(recorded) /\ recorded[n] = log[n]
    BY <1>1, <1>3, RecordingGoesOn
  <2>2. recorded[n + 1] = Idle
    <3>1. CASE n + 1 = 3 + N
      BY <1>1, <1>3, <2>1, <3>1, ShapeRead
    <3>2. CASE n >= 3 + N
      <4>1. n \in 1..n /\ log[n] \in Events
        BY <1>1, <3>2, ElementOfSeq
      <4>2. log[n].type \in EventTypes
        BY <4>1 DEF Events
      <4>3. log[n].type # "runtime.idle"
        BY <1>1, <1>3, <1>5, <4>1, ShapeRead
      <4>4. log[n].type # "mission.started"
        <5>1. (2 + N # n /\ n > 3 + N) \/ n = 3 + N
          BY <1>1, <3>2
        <5>2. CASE n = 3 + N
          BY <1>1, <1>3, <1>5, <4>1, <5>2, ShapeRead
        <5>3. CASE n > 3 + N
          <6>1. InBlock(log, n) \/ AskedBy(log, n) \/ Settled(log, n) \/ Finished(log, n)
            BY <1>3, <4>1, <5>3 DEF Shape, WellPlaced
          <6> QED
            BY <1>1, <6>1 DEF InBlock, AskedBy, Settled, Finished, InjectedTypes, RequestAt,
               Event
        <5> QED
          BY <5>1, <5>2, <5>3
      <4>5. CASE log[n].type = "agent.requested"
        BY <1>1, <1>3, <2>1, <4>5, NextEvent
      <4>6. CASE log[n].type = "agent.responded"
        <5>1. n \in Responses(log)
          BY <4>1, <4>6 DEF Responses
        <5>2. ~(n > cursor)
          BY <1>1
        <5>3. Wave(log, n) = <<>>
          BY <1>2, <5>1, <5>2 DEF PlaceInv, LoopPlace
        <5>4. Wave(recorded, n) = <<>>
          BY <1>1, <1>3, <4>1, <5>3, WavePrefix DEF TracksLog
        <5> QED
          BY <1>1, <1>3, <2>1, <4>6, <5>4, NextEvent
      <4>7. CASE log[n].type = "finding.recorded"
        <5>1. recorded[n + 1] = Idle \/ InBlock(recorded, n + 1)
          BY <1>1, <1>3, <2>1, <4>7, NextEvent
        <5>2. cursor > 0 /\ LastType = "finding.recorded"
          BY <1>1, <4>7 DEF LastType
        <5>3. recorded[n + 1].type \notin InjectedTypes
          BY <1>2, <5>2 DEF Tracks
        <5> QED
          BY <5>1, <5>3 DEF InBlock
      <4> QED
        BY <1>3, <4>2, <4>3, <4>4, <4>5, <4>6, <4>7 DEF EventTypes, InjectedTypes, LastType
    <3> QED
      BY <1>1, <3>1, <3>2
  <2>3. n + 1 \notin Plan
    BY <1>1, <2>2 DEF Plan, Planned, InjectedTypes
  <2> QED
    BY <1>1, <1>2, <1>3, <1>5, <2>1, <2>2, <2>3, TrackGrows
<1> QED
  BY <1>1, <1>4, <1>5

\* which stands where the recording has its mark;
LEMMA SyncQuiesce ==
  ASSUME HostInv, PlaceInv, SyncInv, Quiesce
  PROVE  SyncInv'
<1>1. /\ pc = "settle" /\ pc' = "check"
      /\ UNCHANGED <<arrived, recorded, planAt, raised, reason, version, attempt>>
  BY DEF Quiesce, identity
<1>2. LogInv /\ FollowInv /\ Books
  BY <1>1 DEF SyncInv, FollowInv, Ended, Books
<1>3. LogInv' /\ Prefix(log, log')
  BY <1>2, QuiesceKeepsLog
<1>4. /\ log' \in Seq(Events) /\ log'[Len(log')] = Idle /\ Idle.type = "runtime.idle"
      /\ Responses(log') = Responses(log) /\ Answered(log') = Answered(log)
      /\ Findings(log') = Findings(log)
  BY QuiesceCases
<1>5. ArrivedIds' = ArrivedIds /\ ArrivedIds' \ ArrivedIds = {}
  BY <1>1 DEF ArrivedIds
<1>6. Books'
  BY <1>1, <1>2, <1>3, <1>4, <1>5, BooksKept
<1>7. OnlyPlanned'
  BY <1>1, <1>2, <1>3, <1>4, OnlyPlannedKept DEF FollowInv
<1>8. Tracks'
  <2>1. Tracking' <=> Tracking
    BY <1>1, PlanKept
  <2>2. LastType' = "runtime.idle"
    BY <1>4 DEF LastType
  <2>3. Tracking => TracksLog'
    BY <1>2, QuiesceFollows DEF FollowInv
  <2>4. Tracking => ~raised /\ reason # "raised"
    BY <1>2 DEF FollowInv, Tracks
  <2> QED
    BY <1>1, <2>1, <2>2, <2>3, <2>4 DEF Tracks
<1> QED
  BY <1>3, <1>6, <1>7, <1>8 DEF SyncInv, FollowInv, Books


\* An answer goes into the log, after its call's verdict if it is the gate's.
LEMMA InjectKeepsLog ==
  ASSUME HostInv, PlaceInv, LogInv, PlaceInv', NEW k \in 1..Len(arrived), Injects(k),
         UNCHANGED <<attempt, version, recorded>>,
         log[arrived[k].req].worker = Gate =>
           \E g \in Findings(log) : log[g].cause = arrived[k].req
  PROVE  LogInv'
<1> DEFINE e == Response(arrived[k])
<1>1. /\ e \in Events /\ e.type = "agent.responded" /\ e.cause = arrived[k].req
      /\ arrived[k].req \in Requests(log) /\ arrived[k].req \notin Answered(log)
      /\ log' = Append(log, e)
  BY ResponseTakes DEF Injects
<1>2. e.worker = log[arrived[k].req].worker /\ e.by = arrived[k].by
  BY DEF Response, Event
<1> HIDE DEF e
<1>3. /\ log' \in Seq(Events) /\ Len(log') = Len(log) + 1 /\ Len(log) \in Nat
      /\ log'[Len(log) + 1] = e /\ \A i \in 1..Len(log) : log'[i] = log[i]
      /\ AreOthers(arrived', arrived, k)
  BY InjectMoves DEF e
<1>4. log \in Seq(Events) /\ Good(log) /\ Aged(log, attempt) /\ Shape(log')
  BY LogTypes DEF LogInv, PlaceInv
<1>5. Good(log')
  BY <1>1, <1>2, <1>4, GoodResponse
<1>6. /\ e.by <= attempt
      /\ \A j \in 1..Len(arrived') : arrived'[j].by <= attempt
  BY <1>2, <1>3 DEF LogInv, AreOthers
<1>7. Aged(log', attempt)
  BY <1>3, <1>4, <1>6 DEF Aged
<1> QED
  BY <1>3, <1>5, <1>6, <1>7, LogGrows

\* so does a completion that no recorded window wants,
LEMMA SyncArrival ==
  ASSUME HostInv, PlaceInv, SyncInv, InjectArrival
  PROVE  SyncInv'
<1>1. /\ pc = "check" /\ pc' = "settle" /\ PlanLeft = {}
      /\ UNCHANGED <<attempt, version, recorded, planAt, raised, reason>>
      /\ 1 \in 1..Len(arrived) /\ Injects(1) /\ PlaceInv'
  BY ArrivalMoves, PlaceArrival DEF InjectArrival, CanInjectArrival, identity
<1> DEFINE q == arrived[1].req
<1>2. LogInv /\ FollowInv /\ Books
  BY <1>1 DEF SyncInv, FollowInv, Ended, Books
<1>3. /\ log' \in Seq(Events) /\ Prefix(log, log') /\ Findings(log') = Findings(log)
      /\ Answered(log') = Answered(log) \cup {q} /\ ArrivedIds' = ArrivedIds \ {q}
      /\ q \in OpenCalls /\ q \in ArrivedIds /\ q \in Requests(log)
  BY <1>1, InjectMoves, InHandFacts DEF OpenCalls
<1>4. log[q].worker = Gate => \E g \in Findings(log) : log[g].cause = q
  <2> SUFFICES ASSUME log[q].worker = Gate
               PROVE  \E g \in Findings(log) : log[g].cause = q
    OBVIOUS
  <2>1. \A g \in Plan : g <= planAt
    <3> SUFFICES ASSUME NEW g \in Plan PROVE g <= planAt
      OBVIOUS
    <3>1. g \in Nat /\ planAt \in Nat /\ ~(g > planAt)
      BY <1>1, <1>2, PlanFacts, PlanLeftMeans
    <3> QED
      BY <3>1
  <2>2. \A i \in Recordings(q), g \in Plan : g < i => g <= planAt
    BY <2>1
  <2> HIDE DEF q
  <2> QED
    BY <1>2, <1>3, <2>2, JudgedBefore DEF FollowInv
<1>5. LogInv'
  BY <1>1, <1>2, <1>4, InjectKeepsLog
<1> HIDE DEF q
<1>6. Books'
  BY <1>1, <1>2, <1>3, BooksKept
<1>7. PlanLeft' = {} /\ (Tracking' <=> Tracking)
  BY <1>1, PlanKept
<1>8. OnlyPlanned'
  BY <1>7 DEF OnlyPlanned
<1>9. ~Tracking
  BY <1>1, <1>2, <1>3, TrackedLandsInPlan DEF FollowInv, Tracks
<1>10. Tracks'
  BY <1>7, <1>9 DEF Tracks
<1> QED
  BY <1>5, <1>6, <1>8, <1>10 DEF SyncInv, FollowInv, Books

\* The next event of the window is the next of the plan.
LEMMA WindowGoesOn ==
  ASSUME HostInv, PlaceInv, LogInv, pc = "group", NEW i \in First(window),
         planAt' = i, UNCHANGED recorded
  PROVE  /\ i \in PlanLeft /\ i \in Plan /\ i \in Nat /\ planAt \in Nat /\ planAt < i
         /\ \A g \in Plan : g < i => g <= planAt
         /\ \A g \in Plan : g <= i => g <= planAt \/ g = i
         /\ PlanLeft' = PlanLeft \ {i} /\ Plan' = Plan
<1>1. /\ i \in window /\ window \subseteq PlanLeft /\ \A j \in window : i <= j
      /\ \A j \in PlanLeft : j < i => j \in window
  BY DEF First, PlaceInv, WindowPlace
<1>2. /\ \A j \in PlanLeft : j \in Plan /\ j > planAt /\ j \in Nat
      /\ \A j \in Plan : j > planAt => j \in PlanLeft
      /\ planAt \in Nat
  BY PlanLeftMeans
<1>3. \A j \in Plan : j \in Nat
  BY PlanFacts
<1>4. \A g \in Plan : g < i => g <= planAt
  BY <1>1, <1>2, <1>3
<1>5. \A g \in Plan : g <= i => g <= planAt \/ g = i
  BY <1>1, <1>2, <1>3, <1>4
<1>6. \A j : Planned(j)' <=> Planned(j)
  BY DEF Planned, Orphaned, Requests, Answered, Responses
<1>7. Plan' = Plan
  BY <1>6 DEF Plan
<1>8. PlanLeft' = PlanLeft \ {i}
  <2>1. PlanLeft' = {j \in (i + 1)..Len(recorded) : Planned(j)}
    BY <1>6 DEF PlanLeft
  <2>2. Len(recorded) \in Nat
    BY LogTypes, LenProperties
  <2>3. \A j \in PlanLeft : i <= j
    BY <1>1, <1>2
  <2>4. PlanLeft = {j \in (planAt + 1)..Len(recorded) : Planned(j)}
    BY DEF PlanLeft
  <2>5. i \in Nat /\ planAt < i
    BY <1>1, <1>2
  <2> HIDE DEF PlanLeft
  <2>6. ASSUME NEW j \in PlanLeft' PROVE j \in PlanLeft \ {i}
    BY <1>2, <2>1, <2>2, <2>4, <2>5, <2>6
  <2>7. ASSUME NEW j \in PlanLeft, j # i PROVE j \in PlanLeft'
    BY <1>2, <2>1, <2>2, <2>3, <2>4, <2>5, <2>7
  <2> QED
    BY <2>6, <2>7
<1> QED
  BY <1>1, <1>2, <1>4, <1>5, <1>7, <1>8


\* The next event of the window belongs to an open call of the same worker.
LEMMA WindowIsOpen ==
  ASSUME HostInv, PlaceInv, SyncInv, pc = "group", NEW i \in First(window), i \in PlanLeft
  PROVE  /\ recorded[i].cause \in Requests(log) /\ recorded[i].cause \notin Answered(log)
         /\ log[recorded[i].cause].worker = recorded[i].worker
         /\ i \in Responses(recorded) => i \in Recordings(recorded[i].cause)
         /\ Recordings(recorded[i].cause) # {}
<1>1. LogInv /\ FollowInv
  BY DEF SyncInv, Ended
<1>2. Len(log) >= 2 + N
  <2>1. Len(log) >= 3 + N /\ N \in Nat /\ Len(log) \in Nat
    BY MissionFacts, LogTypes, LenProperties DEF PlaceInv, LoopPlace
  <2> QED
    BY <2>1
<1>3. Tracking => recorded[i].cause <= Len(log)
  BY <1>1, ReEmitsNext DEF FollowInv
<1> QED
  BY <1>1, <1>2, <1>3, PlannedIsOpen DEF FollowInv

\* A recorded finding still to be re-emitted is not in the log.
LEMMA FindingIsNew ==
  ASSUME HostInv, LogInv, KnownFindings, NEW i \in PlanLeft, i \in Findings(recorded),
         recorded[i].cause \in Requests(log), Recordings(recorded[i].cause) # {}
  PROVE  \A j \in Findings(log) : log[j].cause # recorded[i].cause
<1> SUFFICES ASSUME NEW j \in Findings(log), log[j].cause = recorded[i].cause
             PROVE  FALSE
  OBVIOUS
<1>1. /\ log \in Seq(Events) /\ Shape(log) /\ i \in Plan /\ ~(i <= planAt)
  BY LogTypes, PlanLeftMeans DEF LogInv, Good
<1>2. log[j].cause # 1
  <2>1. recorded[i].cause # 1
    BY <1>1, PlanFacts
  <2> QED
    BY <2>1
<1>3. j > 2
  <2>1. j \in 1..Len(log) /\ j \in Nat
    BY <1>1, InLog
  <2>2. j # 2 /\ j # 1
    BY <1>1, <1>2, <2>1, ShapeRead DEF Findings
  <2> QED
    BY <2>1, <2>2
<1>4. CASE \E h \in Plan : h <= planAt /\ recorded[h] = log[j]
  <2>1. PICK h \in Plan : h <= planAt /\ recorded[h] = log[j]
    BY <1>4
  <2>2. h \in 1..Len(recorded)
    BY DEF Plan
  <2>3. log[j].type = "finding.recorded"
    BY DEF Findings
  <2>4. h \in Findings(recorded)
    BY <2>1, <2>2, <2>3 DEF Findings
  <2>5. recorded[h].cause = recorded[i].cause
    BY <2>1
  <2>6. h = i
    BY <2>4, <2>5 DEF LogInv, Good, OneFinding
  <2> QED
    BY <1>1, <2>1, <2>6
<1>5. CASE Recordings(log[j].cause) = {}
  BY <1>5
<1> QED
  BY <1>3, <1>4, <1>5 DEF KnownFindings

\* A recorded verdict is not older than the answers it comes after.
LEMMA VerdictStaysFresh ==
  ASSUME HostInv, LogInv, Tracks, NEW i \in PlanLeft, i \in Findings(recorded),
         recorded[i].worker = Gate, NEW r \in Responses(log), log[r].worker \in Agents
  PROVE  log[r].by <= recorded[i].by
<1>1. /\ log \in Seq(Events) /\ recorded \in Seq(Events) /\ i \in Plan
      /\ Shape(recorded) /\ OneAnswerIn(recorded) /\ N \in Nat
  BY LogTypes, PlanLeftMeans, MissionFacts DEF LogInv, Good
<1> DEFINE p == recorded[i].cause
<1>2. p \in Requests(recorded) /\ recorded[p].worker = Gate /\ p # 1
  BY <1>1, PlanFacts
<1>3. WaveAnswered(recorded)
  <2> SUFFICES ASSUME ~WaveAnswered(recorded) PROVE FALSE
    OBVIOUS
  <2> HIDE DEF p
  <2>1. p \in 3..(2 + N)
    BY <1>1, <1>2, FirstWaveOnly
  <2>2. p \in 1..Len(recorded)
    BY <1>1, <1>2, InLog
  <2>3. recorded[p].worker = AgentList[p - 2]
    BY <1>1, <2>1, <2>2, ShapeRead
  <2>4. p - 2 \in 1..N
    BY <1>1, <2>1
  <2> QED
    BY <1>2, <2>3, <2>4, MissionFacts
<1>4. TracksLog
  BY <1>3 DEF Tracking, Tracks
<1>5. r \in 1..Len(log)
  BY <1>1, InLog
<1>6. r \in Responses(recorded) /\ recorded[r] = log[r]
  BY <1>1, <1>4, <1>5, PrefixEvents DEF TracksLog
<1>7. i \in GateFindings(recorded)
  BY <1>2 DEF GateFindings
<1> QED
  BY <1>6, <1>7 DEF LogInv, Good, FreshVerdict

\* a side effect emitted again (the log's part,
LEMMA ReEmitsFinding ==
  ASSUME HostInv, PlaceInv, SyncInv, PlaceInv', pc = "group",
         NEW i \in First(window), i \in PlanLeft, recorded[i].type = "finding.recorded",
         log' = Append(log, recorded[i]), UNCHANGED <<attempt, version, recorded, arrived>>
  PROVE  LogInv'
<1> DEFINE e == recorded[i]
<1>1. /\ log \in Seq(Events) /\ LogInv /\ FollowInv /\ i \in Plan /\ attempt \in Nat
      /\ Good(log) /\ Shape(log') /\ Aged(log, attempt) /\ Aged(recorded, attempt - 1)
  BY LogTypes, PlanLeftMeans DEF SyncInv, Ended, LogInv, PlaceInv, HostInv, TypeOK
<1>2. i \in 1..Len(recorded) /\ e \in Events /\ i \in Findings(recorded)
  BY <1>1, PlanFacts DEF Findings
<1>3. /\ e.cause \in Requests(log) /\ e.cause \notin Answered(log)
      /\ log[e.cause].worker = e.worker /\ Recordings(e.cause) # {}
  BY WindowIsOpen
<1>4. \A j \in Findings(log) : log[j].cause # e.cause
  BY <1>1, <1>2, <1>3, FindingIsNew DEF FollowInv
<1>5. e.worker = Gate =>
        \A r \in Responses(log) : log[r].worker \in Agents => log[r].by <= e.by
  BY <1>1, <1>2, VerdictStaysFresh DEF FollowInv
<1>6. e.type = "finding.recorded" /\ log' = Append(log, e)
  OBVIOUS
<1>7. e.by <= attempt
  <2>1. e.by <= attempt - 1 /\ e.by \in Nat
    BY <1>1, <1>2 DEF Aged, Events
  <2> QED
    BY <1>1, <2>1
<1> HIDE DEF e
<1>8. Good(log')
  BY <1>1, <1>2, <1>3, <1>4, <1>5, <1>6, GoodFinding
<1>9. /\ log' \in Seq(Events) /\ Len(log') = Len(log) + 1 /\ Len(log) \in Nat
      /\ log'[Len(log) + 1] = e /\ \A j \in 1..Len(log) : log'[j] = log[j]
  BY <1>2, <1>6, FindingMoves
<1>10. Aged(log', attempt)
  BY <1>1, <1>7, <1>9 DEF Aged
<1>11. \A k \in 1..Len(arrived') : arrived'[k].by <= attempt
  BY <1>1 DEF LogInv
<1> QED
  BY <1>1, <1>8, <1>9, <1>10, <1>11, LogGrows


\* What is left of a window whose first event has been re-emitted.
LEMMA WindowMoves ==
  ASSUME HostInv, NEW n \in Nat, n \in PlanLeft, PlanLeft' = PlanLeft \ {n},
         window = Window(n), window' = window \ {n}, UNCHANGED recorded,
         \A j \in PlanLeft : n <= j, recorded[n].type \in InjectedTypes
  PROVE  window' = Window(n + 1)'
<1> DEFINE Inj(x) == recorded[x].type \in InjectedTypes
<1>1. Window(n + 1)' = {x \in PlanLeft \ {n} : \A j \in (n + 1)..x : Inj(j)}
  BY DEF Window
<1>2. window' = {x \in PlanLeft : \A j \in n..x : Inj(j)} \ {n}
  BY DEF Window
<1>3. \A x \in PlanLeft : x \in Nat
  BY DEF PlanLeft, HostInv, TypeOK
<1>4. ASSUME NEW x \in PlanLeft, x # n
      PROVE  (\A j \in (n + 1)..x : Inj(j)) <=> (\A j \in n..x : Inj(j))
  <2>1. x \in Nat /\ n <= x /\ Inj(n)
    BY <1>3
  <2>2. \A j : j \in n..x <=> j = n \/ j \in (n + 1)..x
    BY <2>1
  <2> HIDE DEF Inj
  <2> QED
    BY <2>1, <2>2
<1> HIDE DEF Inj
<1> QED
  BY <1>1, <1>2, <1>4

\* the place in the recording,
LEMMA ReEmitTracks ==
  ASSUME HostInv, PlaceInv, SyncInv, pc = "group", pc' = "group",
         NEW i \in First(window), window' = window \ {i}, planAt' = i,
         log' = Append(log, recorded[i]), UNCHANGED <<recorded, raised, reason>>
  PROVE  Tracks'
<1>1. /\ LogInv /\ Tracks /\ i \in PlanLeft /\ i \in Plan /\ i \in Nat
      /\ \A g \in Plan : g < i => g <= planAt
      /\ PlanLeft' = PlanLeft \ {i} /\ Plan' = Plan
  BY WindowGoesOn DEF SyncInv, FollowInv, Ended
<1>2. Tracking' => Tracking
  BY <1>1 DEF Tracking
<1>3. SUFFICES ASSUME Tracking
               PROVE  TracksLog' /\ window' = Window(Len(log) + 1)'
  BY <1>1, <1>2 DEF Tracks
<1>4. /\ TracksLog /\ window = Window(Len(log) + 1) /\ i = Len(log) + 1
  BY <1>1, <1>3, ReEmitsNext DEF Tracks
<1>5. i \in 1..Len(recorded) /\ recorded[i] \in Events
      /\ recorded[i].type \in InjectedTypes
  BY <1>1, PlanFacts
<1>6. Len(log') = i
  BY <1>4, <1>5, LogTypes, OneMore
<1>7. TracksLog'
  BY <1>1, <1>4, <1>5, TrackGrows
<1>8. \A j \in PlanLeft : i <= j
  BY <1>1, PlanLeftMeans
<1>9. window' = Window(i + 1)'
  <2>1. window = Window(i)
    BY <1>4
  <2> QED
    BY <1>1, <1>5, <1>8, <2>1, WindowMoves
<1>10. Window(Len(log) + 1)' = Window(i + 1)'
  BY <1>6 DEF Window
<1> QED
  BY <1>7, <1>9, <1>10

\* what has been emitted so far),
LEMMA ReEmitBooks ==
  ASSUME HostInv, PlaceInv, SyncInv, pc = "group", NEW i \in First(window),
         planAt' = i, NEW e \in Events, e = recorded[i], log' = Append(log, e),
         UNCHANGED <<recorded, attempt>>,
         IF e.type = "finding.recorded" THEN arrived' = arrived
         ELSE /\ e.type = "agent.responded"
              /\ ArrivedIds' = ArrivedIds \ {e.cause}
  PROVE  Books' /\ OnlyPlanned'
<1>1. /\ LogInv /\ FollowInv /\ Books /\ i \in PlanLeft /\ i \in Plan /\ i \in Nat
      /\ planAt \in Nat /\ planAt < i
      /\ \A g \in Plan : g <= i => g <= planAt \/ g = i
      /\ PlanLeft' = PlanLeft \ {i} /\ Plan' = Plan
  BY WindowGoesOn DEF SyncInv, FollowInv, Books, Ended
<1>2. /\ log \in Seq(Events) /\ log' \in Seq(Events) /\ Prefix(log, log')
      /\ Len(log) \in Nat /\ Len(log') = Len(log) + 1 /\ log'[Len(log) + 1] = e
      /\ \A j \in 1..Len(log) : log'[j] = log[j]
      /\ e.type # "agent.responded" =>
           Responses(log') = Responses(log) /\ Answered(log') = Answered(log)
      /\ e.type = "agent.responded" =>
           /\ Responses(log') = Responses(log) \cup {Len(log) + 1}
           /\ Answered(log') = Answered(log) \cup {e.cause}
      /\ e.type # "finding.recorded" => Findings(log') = Findings(log)
      /\ e.type = "finding.recorded" =>
           Findings(log') = Findings(log) \cup {Len(log) + 1}
  BY LogTypes, OneMore
<1>3. Answered(log) \cup ArrivedIds \subseteq Answered(log') \cup ArrivedIds'
      /\ ArrivedIds' \ ArrivedIds = {}
  <2>1. CASE e.type = "finding.recorded"
    <3>1. arrived' = arrived
      BY <2>1
    <3>2. ArrivedIds' = ArrivedIds
      BY <3>1 DEF ArrivedIds
    <3> QED
      BY <1>2, <2>1, <3>2
  <2>2. CASE e.type # "finding.recorded"
    BY <1>2, <2>2
  <2> QED
    BY <2>1, <2>2
<1>4. \A g \in Plan : g <= planAt' =>
        g <= planAt \/ \E j \in 1..Len(log') : log'[j] = recorded[g]
  <2>1. Len(log) + 1 \in 1..Len(log')
    BY <1>2
  <2> QED
    BY <1>1, <1>2, <2>1
<1>5. \A j \in Findings(log') : j \in Findings(log) \/ (Known(j)' /\ Lands(j)')
  <2> SUFFICES ASSUME NEW j \in Findings(log'), j \notin Findings(log)
               PROVE  Known(j)' /\ Lands(j)'
    OBVIOUS
  <2>1. j = Len(log) + 1 /\ log'[j] = e
    BY <1>2
  <2>2. Known(j)'
    <3>1. i \in Plan' /\ i <= planAt' /\ recorded'[i] = log'[j]
      BY <1>1, <2>1
    <3> QED
      BY <3>1 DEF Known
  <2>3. e.cause \in Requests(log) /\ Recordings(e.cause) # {}
    BY <1>1, WindowIsOpen
  <2>4. Recordings(e.cause)' # {}
    BY <1>2, <2>3, RequestsKept
  <2>5. Recordings(log[j].cause)' # {}
    <3>1. log'[j].cause = e.cause /\ log'[log'[j].cause] = log'[e.cause]
      BY <2>1
    <3>2. Recordings(log[j].cause)' = Recordings(e.cause)'
      BY <3>1 DEF Recordings, SameCall, Responses
    <3> QED
      BY <2>4, <3>2
  <2>6. Lands(j)'
    BY <2>5 DEF Lands
  <2> QED
    BY <2>2, <2>6
<1>6. Books'
  <2>1. planAt' \in Nat /\ planAt <= planAt'
    BY <1>1
  <2> QED
    BY <1>1, <1>2, <1>3, <1>4, <1>5, <2>1, BooksGrow
<1>7. OnlyPlanned'
  <2> SUFFICES ASSUME PlanLeft' # {}, NEW j \in Responses(log')
               PROVE  \E h \in Responses(recorded) : h <= i /\ recorded[h].cause = log'[j].cause
    BY DEF OnlyPlanned
  <2>1. CASE j \in Responses(log)
    <3>1. PlanLeft # {} /\ log'[j] = log[j]
      BY <1>1, <1>2, <2>1, InLog
    <3>2. PICK h \in Responses(recorded) : h <= planAt /\ recorded[h].cause = log[j].cause
      BY <1>1, <2>1, <3>1 DEF FollowInv, OnlyPlanned
    <3>3. h \in Nat
      BY LogTypes, InLog
    <3>4. h <= i
      BY <1>1, <3>2, <3>3
    <3> QED
      BY <3>1, <3>2, <3>4
  <2>2. CASE j \notin Responses(log)
    <3>1. e.type = "agent.responded" /\ log'[j] = e
      BY <1>2, <2>2
    <3>2. i \in Responses(recorded)
      BY <1>1, <3>1 DEF Plan, Responses
    <3> QED
      BY <1>1, <3>1, <3>2
  <2> QED
    BY <2>1, <2>2
<1> QED
  BY <1>6, <1>7

\* and whatever else a window holds,
LEMMA SyncReEmit ==
  ASSUME HostInv, PlaceInv, HandInv, SyncInv, ReEmit
  PROVE  SyncInv'
<1>1. PICK i \in First(window) :
           /\ i \in PlanLeft /\ planAt' = i /\ window' = window \ {i}
           /\ \/ /\ recorded[i].type = "agent.responded"
                 /\ \E k \in 1..Len(arrived) :
                      /\ arrived[k].req = recorded[i].cause
                      /\ log' = Append(log, Response(arrived[k]))
                      /\ arrived' = Without(arrived, k)
              \/ /\ recorded[i].type = "finding.recorded"
                 /\ log' = Append(log, recorded[i]) /\ arrived' = arrived
  BY ReEmitCases
<1>2. /\ pc = "group" /\ pc' = "group" /\ PlaceInv'
      /\ UNCHANGED <<attempt, version, recorded, raised, reason>>
  BY PlaceReEmit DEF ReEmit, identity
<1>3. /\ LogInv /\ FollowInv /\ Books /\ i \in Plan
      /\ \A g \in Plan : g < i => g <= planAt
  BY <1>1, <1>2, WindowGoesOn DEF SyncInv, FollowInv, Books, Ended
<1>4. recorded[i] \in Events /\ i \in 1..Len(recorded)
  BY <1>3, PlanFacts
<1>5. CASE recorded[i].type = "finding.recorded" /\ log' = Append(log, recorded[i])
           /\ arrived' = arrived
  <2>1. LogInv'
    BY <1>1, <1>2, <1>5, ReEmitsFinding
  <2>2. Books' /\ OnlyPlanned'
    BY <1>1, <1>2, <1>4, <1>5, ReEmitBooks
  <2>3. Tracks'
    BY <1>1, <1>2, <1>5, ReEmitTracks
  <2> QED
    BY <2>1, <2>2, <2>3 DEF SyncInv, FollowInv, Books
<1>6. ASSUME recorded[i].type = "agent.responded", NEW k \in 1..Len(arrived),
             arrived[k].req = recorded[i].cause, Injects(k)
      PROVE  SyncInv'
  <2> DEFINE q == arrived[k].req
  <2>1. i \in Responses(recorded)
    BY <1>4, <1>6 DEF Responses
  <2>2. /\ q \in Requests(log) /\ i \in Recordings(q) /\ q \in ArrivedIds
    BY <1>1, <1>2, <1>6, <2>1, WindowIsOpen, InHandFacts
  <2>3. Response(arrived[k]) = recorded[i]
    BY <1>3, <1>6, <2>2, RespondsAsRecorded
  <2>4. log' = Append(log, recorded[i]) /\ ArrivedIds' = ArrivedIds \ {recorded[i].cause}
    BY <1>6, <2>3, InjectMoves DEF Injects
  <2>5. log[q].worker = Gate => \E g \in Findings(log) : log[g].cause = q
    <3> SUFFICES ASSUME log[q].worker = Gate
                 PROVE  \E g \in Findings(log) : log[g].cause = q
      OBVIOUS
    <3>1. \A j \in Recordings(q) : j = i
      BY <1>3, <2>2, RecordingMeans
    <3>2. \A j \in Recordings(q), g \in Plan : g < j => g <= planAt
      BY <1>3, <3>1
    <3> HIDE DEF q
    <3> QED
      BY <1>3, <2>2, <3>2, JudgedBefore DEF FollowInv
  <2>6. LogInv'
    BY <1>2, <1>3, <1>6, <2>5, InjectKeepsLog
  <2>7. Books' /\ OnlyPlanned'
    BY <1>1, <1>2, <1>4, <1>6, <2>4, ReEmitBooks
  <2>8. Tracks'
    BY <1>1, <1>2, <2>4, ReEmitTracks
  <2> QED
    BY <2>6, <2>7, <2>8 DEF SyncInv, FollowInv, Books
<1> QED
  BY <1>1, <1>5, <1>6 DEF Injects


\* The mission ends with the status its log shows.
LEMMA SyncComplete ==
  ASSUME HostInv, PlaceInv, SyncInv, Complete
  PROVE  SyncInv'
<1> DEFINE e == CompletedEvent
           m == Append(log, e)
<1>1. /\ pc = "check" /\ reason # "raised" /\ pc' = "done" /\ log' = Append(log, e)
      /\ UNCHANGED <<attempt, version, recorded, arrived>> /\ PlaceInv' /\ LogInv
  BY PlaceComplete DEF Complete, identity, CompletedEvent, SyncInv
<1>2. /\ e \in Events /\ e.type = "mission.completed" /\ e.by = 0
      /\ log \in Seq(Events) /\ Good(log) /\ Shape(log') /\ attempt \in Nat
  BY <1>1, CompletedType, LogTypes
     DEF LogInv, PlaceInv, CompletedEvent, Event, HostInv, TypeOK
<1>3. log[Len(log)] = Idle /\ Len(log) \in Nat /\ Idle.type = "runtime.idle"
  BY <1>1, <1>2, LenProperties DEF PlaceInv, LoopPlace, Idle, Event
<1>4. \A i \in 1..Len(log) : log[i].type # "mission.completed"
  BY <1>2, <1>3 DEF Good, Earned
<1>5. e = Event("mission.completed", Gate, 0, 0, MissionOk, 0)
  BY DEF CompletedEvent
<1> HIDE DEF e
<1>6. /\ Requests(m) = Requests(log) /\ Responses(m) = Responses(log)
      /\ Findings(m) = Findings(log) /\ m \in Seq(Events) /\ Len(m) = Len(log) + 1
      /\ Prefix(log, m) /\ m[Len(log) + 1] = e
      /\ \A i \in 1..Len(log) : m[i] = log[i]
  BY <1>2, OneMore
<1>7. m = log' /\ Shape(m)
  BY <1>1, <1>2
<1> HIDE DEF m
<1>8. OkOf(m) = MissionOk
  <2>1. /\ \A i \in Responses(log) : m[i] = log[i]
        /\ \A i \in Findings(log) : m[i] = log[i]
    BY <1>2, <1>6, InLog
  <2>2. GateFindings(m) = GateFindings(log)
    BY <1>6, <2>1 DEF GateFindings
  <2>3. (\E g \in Last(GateFindings(m)) : ~m[g].ok) <=> GateFailed
    BY <2>1, <2>2 DEF GateFailed, Last, GateFindings
  <2>4. \A w : (\E i \in Responses(m) : m[i].worker = w /\ m[i].ok) <=> ReportedOk(w)
    BY <1>6, <2>1 DEF ReportedOk
  <2> QED
    BY <2>3, <2>4 DEF OkOf, MissionOk
<1>9. Earned(m)
  <2>1. \A i \in 1..Len(m) : i \in 1..Len(log) \/ i = Len(log) + 1
    BY <1>3, <1>6
  <2>2. e = Event("mission.completed", Gate, 0, 0, OkOf(m), 0)
    BY <1>5, <1>8
  <2> QED
    BY <1>4, <1>6, <2>1, <2>2 DEF Earned
<1>10. Good(m)
  BY <1>2, <1>6, <1>7, <1>9, GoodGrows
<1>11. Aged(m, attempt)
  <2>1. \A i \in 1..Len(m) : i \in 1..Len(log) \/ i = Len(log) + 1
    BY <1>3, <1>6
  <2> QED
    BY <1>1, <1>2, <1>6, <2>1 DEF LogInv, Aged
<1>12. Good(log') /\ Aged(log', attempt) /\ log' \in Seq(Events)
  BY <1>6, <1>7, <1>10, <1>11
<1>13. \A k \in 1..Len(arrived') : arrived'[k].by <= attempt
  BY <1>1 DEF LogInv
<1>14. LogInv'
  BY <1>1, <1>12, <1>13, LogGrows
<1> QED
  BY <1>1, <1>14 DEF SyncInv, Ended

\* What lands is not from a later attempt.
LEMMA LandsYoung ==
  ASSUME HostInv, LogInv, NEW c \in Completions, c.by <= attempt,
         arrived' = arrived \/ arrived' = Append(arrived, c)
  PROVE  \A k \in 1..Len(arrived') : arrived'[k].by <= attempt
<1>1. arrived \in Seq(Completions) /\ Len(arrived) \in Nat
  BY LenProperties DEF HostInv, TypeOK
<1>2. CASE arrived' = arrived
  BY <1>2 DEF LogInv
<1>3. CASE arrived' = Append(arrived, c)
  <2>1. \A k \in 1..Len(arrived') : (k \in 1..Len(arrived) /\ arrived'[k] = arrived[k])
                                    \/ arrived'[k] = c
    BY <1>1, <1>3, AppendProperties
  <2> QED
    BY <2>1 DEF LogInv
<1> QED
  BY <1>2, <1>3

\* A call lands, or not, and nothing is published.
LEMMA SyncLanding ==
  ASSUME HostInv, SyncInv, pc = "wait", pc' = "wait",
         UNCHANGED <<attempt, version, recorded, log, planAt, reason, cursor>>,
         Tracking => ~raised',
         NEW c \in Completions, c.by <= attempt, c.req \in Requests(log),
         arrived' = arrived \/ arrived' = Append(arrived, c),
         ArrivedIds' \subseteq ArrivedIds \cup {c.req}, ArrivedIds \subseteq ArrivedIds',
         log[c.req].worker # Gate \/ Recordings(c.req) # {}
  PROVE  SyncInv'
<1>1. LogInv /\ FollowInv /\ Books /\ log \in Seq(Events) /\ Prefix(log, log')
  BY LogTypes, LenProperties DEF SyncInv, FollowInv, Books, Ended, Prefix
<1>2. LogInv'
  <2>1. \A k \in 1..Len(arrived') : arrived'[k].by <= attempt
    BY <1>1, LandsYoung
  <2>2. Good(log') /\ Aged(log', attempt) /\ log' \in Seq(Events)
    BY <1>1 DEF LogInv
  <2> QED
    BY <1>1, <2>1, <2>2, LogGrows
<1>3. Books'
  <2>1. Findings(log') = Findings(log) /\ log' \in Seq(Events)
        /\ Answered(log) \cup ArrivedIds \subseteq Answered(log') \cup ArrivedIds'
    BY <1>1
  <2>2. \A q \in ArrivedIds' \ ArrivedIds :
           q \in Requests(log) /\ (log[q].worker # Gate \/ Recordings(q) # {})
    OBVIOUS
  <2> QED
    BY <1>1, <2>1, <2>2, BooksKept
<1>4. OnlyPlanned'
  BY <1>1, OnlyPlannedKept DEF FollowInv
<1>5. Tracks'
  <2>1. StillTracks
    BY <1>1, OutsideWindows DEF FollowInv, Tracks
  <2> QED
    BY <1>1, <2>1, TracksStill DEF FollowInv
<1> QED
  BY <1>2, <1>3, <1>4, <1>5 DEF SyncInv, FollowInv, Books

\* a call that starts,
LEMMA SyncStart ==
  ASSUME HostInv, PlaceInv, SyncInv, StartTask
  PROVE  SyncInv'
<1>1. /\ pc = "wait" /\ pc' = "wait"
      /\ UNCHANGED <<log, recorded, reason, planAt, version, attempt, cursor>>
  BY StartMoves
<1>2. PICK id \in OpenCalls :
              \/ /\ \E i \in Recordings(id) :
                         arrived' = Append(arrived, [req |-> id, ok |-> recorded[i].ok,
                                                     by |-> recorded[i].by])
                 /\ ArrivedIds' = ArrivedIds \cup {id}
                 /\ UNCHANGED <<queued, running, raised>>
              \/ /\ Recordings(id) = {} /\ mode = "replay" /\ raised' = TRUE
                 /\ UNCHANGED <<queued, running, arrived>>
              \/ /\ Recordings(id) = {} /\ mode # "replay"
                 /\ UNCHANGED <<arrived, raised>>
  BY StartMoves
<1>3. LogInv /\ FollowInv /\ id \in Requests(log) /\ id \in Nat /\ attempt \in Nat
  BY <1>1, InLog, LogTypes DEF SyncInv, Ended, OpenCalls, HostInv, TypeOK
<1>4. Tracking => TracksLog /\ ~raised /\ reason # "raised" /\ Recordings(id) # {}
  BY <1>3, TrackedIsRecorded DEF FollowInv, Tracks
<1>5. ASSUME NEW i \in Recordings(id),
             arrived' = Append(arrived, [req |-> id, ok |-> recorded[i].ok,
                                         by |-> recorded[i].by]),
             ArrivedIds' = ArrivedIds \cup {id}, raised' = raised
      PROVE  SyncInv'
  <2> DEFINE c == [req |-> id, ok |-> recorded[i].ok, by |-> recorded[i].by]
  <2>1. i \in 1..Len(recorded) /\ recorded[i] \in Events
    <3>1. i \in 1..Len(recorded)
      BY DEF Recordings, Responses
    <3> QED
      BY <3>1, LogTypes, ElementOfSeq
  <2>2. recorded[i].by \in Nat /\ recorded[i].by <= attempt
    <3>1. recorded[i].by <= attempt - 1 /\ recorded[i].by \in Nat
      BY <1>3, <2>1 DEF LogInv, Aged, Events
    <3> QED
      BY <1>3, <3>1
  <2>3. c \in Completions /\ c.by <= attempt /\ c.req = id
    BY <1>3, <2>1, <2>2 DEF Completions, Events
  <2>4. arrived' = Append(arrived, c)
    BY <1>5
  <2> HIDE DEF c
  <2>5. Recordings(c.req) # {}
    BY <2>3
  <2> QED
    BY <1>1, <1>3, <1>4, <1>5, <2>3, <2>4, <2>5, SyncLanding
<1>6. CASE arrived' = arrived /\ (raised' = raised \/ Recordings(id) = {})
  <2>1. Tracking => ~raised'
    BY <1>4, <1>6
  <2>2. StillTracks
    BY <1>1, <1>3, <1>4, <2>1, OutsideWindows DEF FollowInv
  <2> QED
    BY <1>1, <1>6, <2>2, SyncStill DEF Ended
<1> QED
  BY <1>2, <1>5, <1>6


\* answers,
LEMMA SyncAnswer ==
  ASSUME HostInv, PlaceInv, SyncInv, NEW id \in running, NEW ok \in BOOLEAN,
         WorkerAnswer(id, ok)
  PROVE  SyncInv'
<1> DEFINE c == [req |-> id, ok |-> ok, by |-> attempt]
<1>1. /\ pc = "wait" /\ pc' = "wait" /\ id \in Requests(log) /\ id \in Nat
      /\ UNCHANGED <<log, recorded, reason, planAt, version, attempt, cursor, raised>>
      /\ log[id].worker # Gate /\ arrived' = Append(arrived, c)
  BY CallMoves, InLog, LogTypes DEF WorkerAnswer, Arrive, OpenCalls, identity
<1>2. c \in Completions /\ c.req = id /\ c.by <= attempt
  BY <1>1 DEF Completions, HostInv, TypeOK
<1>3. ArrivedIds' = ArrivedIds \cup {id}
  <2>1. arrived \in Seq(Completions) /\ Len(arrived) \in Nat
    BY LenProperties DEF HostInv, TypeOK
  <2> HIDE DEF c
  <2>2. /\ Len(arrived') = Len(arrived) + 1 /\ arrived'[Len(arrived) + 1] = c
        /\ \A k \in 1..Len(arrived) : arrived'[k] = arrived[k]
    BY <1>1, <1>2, <2>1, AppendProperties
  <2>3. \A k \in 1..(Len(arrived) + 1) : k \in 1..Len(arrived) \/ k = Len(arrived) + 1
    BY <2>1
  <2>4. Len(arrived) + 1 \in 1..(Len(arrived) + 1)
        /\ 1..Len(arrived) \subseteq 1..(Len(arrived) + 1)
    BY <2>1
  <2> QED
    BY <1>2, <2>2, <2>3, <2>4 DEF ArrivedIds
<1>4. Tracking => ~raised'
  BY <1>1 DEF SyncInv, FollowInv, Tracks, Ended
<1> HIDE DEF c
<1> QED
  BY <1>1, <1>2, <1>3, <1>4, SyncLanding

\* raises,
LEMMA SyncRaise ==
  ASSUME HostInv, PlaceInv, HandInv, SyncInv, NEW id \in running, WorkerRaise(id)
  PROVE  SyncInv'
<1>1. /\ pc = "wait" /\ pc' = "wait"
      /\ UNCHANGED <<attempt, version, recorded, log, planAt, arrived, cursor, reason>>
  BY DEF WorkerRaise, identity
<1>2. LogInv /\ Tracks
  BY <1>1 DEF SyncInv, FollowInv, Ended
<1>3. ~Tracking
  BY <1>2, TrackedRunsNothing
<1>4. StillTracks
  BY <1>3 DEF StillTracks
<1> QED
  BY <1>1, <1>4, SyncStill DEF Ended

\* A running call that nobody recorded publishes its finding.
LEMMA Publishes ==
  ASSUME HostInv, PlaceInv, HandInv, SyncInv, PlaceInv', pc = "wait", pc' = "wait",
         NEW id \in running, NEW verdict \in BOOLEAN,
         log' = Append(log, Finding(id, verdict)),
         UNCHANGED <<attempt, version, recorded, planAt>>,
         IF log[id].worker = Gate
         THEN /\ ArrivedIds' = ArrivedIds \cup {id}
              /\ arrived' = Append(arrived, [req |-> id, ok |-> TRUE, by |-> attempt])
         ELSE ~HasEmitted(id) /\ arrived' = arrived
  PROVE  SyncInv'
<1> DEFINE e == Finding(id, verdict)
<1>1. /\ e \in Events /\ e.type = "finding.recorded" /\ e.worker = log[id].worker
      /\ e.cause = id /\ e.by = attempt /\ log' = Append(log, e)
  BY FindingTakes
<1> HIDE DEF e
<1>2. /\ id \in Requests(log) /\ id \notin Answered(log) /\ Recordings(id) = {}
      /\ \A j \in Findings(log) : log[j].cause # id
  BY NothingPublished
<1>3. /\ LogInv /\ FollowInv /\ Books /\ log \in Seq(Events) /\ attempt \in Nat
      /\ Good(log) /\ Aged(log, attempt) /\ Shape(log')
  BY LogTypes DEF SyncInv, FollowInv, Books, Ended, LogInv, PlaceInv, HostInv, TypeOK
<1>4. /\ log' \in Seq(Events) /\ Prefix(log, log') /\ Len(log') = Len(log) + 1
      /\ Responses(log') = Responses(log) /\ Answered(log') = Answered(log)
      /\ Findings(log') = Findings(log) \cup {Len(log) + 1}
      /\ log'[Len(log) + 1] = e /\ Len(log) \in Nat
      /\ \A i \in 1..Len(log) : log'[i] = log[i]
  BY <1>1, FindingMoves
<1>5. \A i \in Responses(log) : log[i].by <= e.by
  BY <1>1, <1>3, InLog DEF Aged
<1>6. Good(log')
  BY <1>1, <1>2, <1>3, <1>5, GoodFinding
<1>7. Aged(log', attempt)
  <2>1. e.by <= attempt
    BY <1>1, <1>3
  <2>2. \A i \in 1..Len(log') : i \in 1..Len(log) \/ i = Len(log) + 1
    BY <1>4
  <2> QED
    BY <1>3, <1>4, <2>1, <2>2 DEF Aged
<1>8. \A k \in 1..Len(arrived') : arrived'[k].by <= attempt
  <2> DEFINE c == [req |-> id, ok |-> TRUE, by |-> attempt]
  <2>1. c \in Completions /\ c.by <= attempt
    <3>1. id \in Nat
      BY <1>2, <1>3, InLog
    <3> QED
      BY <1>3, <3>1 DEF Completions
  <2>2. arrived' = arrived \/ arrived' = Append(arrived, c)
    OBVIOUS
  <2> HIDE DEF c
  <2> QED
    BY <1>3, <2>1, <2>2, LandsYoung
<1>9. LogInv'
  BY <1>3, <1>4, <1>6, <1>7, <1>8, LogGrows
<1>10. ArrivedIds \subseteq ArrivedIds' /\ ArrivedIds' \subseteq ArrivedIds \cup {id}
       /\ (log[id].worker = Gate => id \in ArrivedIds')
       /\ (log[id].worker # Gate => ArrivedIds' = ArrivedIds)
  BY DEF ArrivedIds
<1>11. \A j \in Findings(log') : j \in Findings(log) \/ (Known(j)' /\ Lands(j)')
  <2> SUFFICES ASSUME NEW j \in Findings(log'), j \notin Findings(log)
               PROVE  Known(j)' /\ Lands(j)'
    OBVIOUS
  <2>1. j = Len(log) + 1 /\ log'[j] = e
    BY <1>4
  <2>2. Recordings(id)' = {}
    BY <1>2, <1>4, RequestsKept
  <2>3. Recordings(log[j].cause)' = {}
    <3>1. log'[j].cause = id /\ log'[log'[j].cause] = log'[id]
      BY <1>1, <2>1
    <3>2. Recordings(log[j].cause)' = Recordings(id)'
      BY <3>1 DEF Recordings, SameCall, Responses
    <3> QED
      BY <2>2, <3>2
  <2>4. log'[j].by = attempt'
    BY <1>1, <2>1
  <2>5. Known(j)'
    BY <2>3, <2>4 DEF Known
  <2>6. Lands(j)'
    BY <1>1, <1>10, <2>1 DEF Lands
  <2> QED
    BY <2>5, <2>6
<1>12. \A q \in ArrivedIds' \ ArrivedIds :
         /\ q \in Requests(log)
         /\ \/ log[q].worker # Gate \/ Recordings(q) # {}
            \/ \E j \in Findings(log') : log'[j].cause = q
  BY <1>1, <1>2, <1>4, <1>10
<1>13. Books'
  <2>1. planAt' \in Nat /\ planAt <= planAt' /\ planAt' = planAt
    BY DEF HostInv, TypeOK
  <2> QED
    BY <1>3, <1>4, <1>10, <1>11, <1>12, <2>1, BooksGrow
<1>14. OnlyPlanned'
  BY <1>3, <1>4, OnlyPlannedKept DEF FollowInv
<1>15. Tracks'
  <2>1. ~Tracking
    BY <1>3, TrackedRunsNothing DEF FollowInv
  <2> QED
    BY <2>1, PlanKept DEF Tracks
<1> QED
  BY <1>9, <1>13, <1>14, <1>15 DEF SyncInv, FollowInv, Books

\* has an effect,
LEMMA SyncEmit ==
  ASSUME HostInv, PlaceInv, HandInv, SyncInv, NEW id \in running, WorkerEmit(id)
  PROVE  SyncInv'
<1>1. TRUE \in BOOLEAN
  OBVIOUS
<1>2. PlaceInv'
  BY <1>1, PlaceCalls
<1>3. log[id].worker # Gate
  BY MissionFacts DEF WorkerEmit
<1>4. /\ pc = "wait" /\ pc' = "wait" /\ log' = Append(log, Finding(id, TRUE))
      /\ UNCHANGED <<attempt, version, recorded, planAt>>
      /\ ~HasEmitted(id) /\ arrived' = arrived
  BY DEF WorkerEmit, identity
<1> QED
  BY <1>1, <1>2, <1>3, <1>4, Publishes

\* or is the gate's;
LEMMA SyncGate ==
  ASSUME HostInv, PlaceInv, HandInv, SyncInv, NEW id \in running, NEW v \in BOOLEAN,
         RunGate(id, v)
  PROVE  SyncInv'
<1>1. PlaceInv'
  BY PlaceCalls
<1>2. /\ pc = "wait" /\ pc' = "wait" /\ log' = Append(log, Finding(id, v))
      /\ UNCHANGED <<attempt, version, recorded, planAt>>
      /\ log[id].worker = Gate
      /\ arrived' = Append(arrived, [req |-> id, ok |-> TRUE, by |-> attempt])
  BY DEF RunGate, identity, Arrive
<1>3. ArrivedIds' = ArrivedIds \cup {id}
  <2>1. CASE ArrivedIds' = ArrivedIds \cup {id}
    BY <2>1
  <2>2. CASE arrived' = arrived
    <3>1. arrived \in Seq(Completions) /\ Len(arrived) \in Nat /\ Len(arrived') = Len(arrived)
      BY <2>2, LenProperties DEF HostInv, TypeOK
    <3>2. [req |-> id, ok |-> TRUE, by |-> attempt] \in Completions
      <4>1. id \in Nat /\ attempt \in Nat
        BY CallMoves, InLog, LogTypes DEF OpenCalls, HostInv, TypeOK
      <4> QED
        BY <4>1 DEF Completions
    <3>3. Len(arrived') = Len(arrived) + 1
      BY <1>2, <3>1, <3>2, AppendProperties
    <3> QED
      BY <3>1, <3>3
  <2> QED
    BY <2>1, <2>2, CallMoves
<1> QED
  BY <1>1, <1>2, <1>3, Publishes

\* so all steps of calls.
LEMMA SyncCalls ==
  ASSUME HostInv, PlaceInv, HandInv, SyncInv,
         \/ StartTask \/ Answers
         \/ \E id \in running : WorkerEmit(id) \/ WorkerRaise(id)
  PROVE  SyncInv'
BY SyncStart, SyncAnswer, SyncGate, SyncEmit, SyncRaise DEF Answers


\* A crash leaves a prefix of the log.
LEMMA SyncCrash ==
  ASSUME HostInv, PlaceInv, SyncInv, Crash
  PROVE  SyncInv'
<1>1. /\ pc' = "crashed" /\ arrived' = <<>> /\ UNCHANGED <<attempt, version, recorded>>
      /\ LogInv
  BY DEF Crash, Forget, identity, SyncInv
<1>2. log \in Seq(Events) /\ log' \in Seq(Events) /\ Prefix(log', log)
  BY CrashCut, LogTypes
<1>3. Good(log')
  BY <1>1, <1>2, GoodPrefix DEF LogInv
<1>4. Aged(log', attempt)
  BY <1>1, <1>2, PrefixEvents DEF LogInv, Aged
<1>5. \A k \in 1..Len(arrived') : arrived'[k].by <= attempt
  BY <1>1, OneOrNone
<1>6. LogInv'
  BY <1>1, <1>2, <1>3, <1>4, <1>5, LogGrows
<1> QED
  BY <1>1, <1>6 DEF SyncInv, Ended

\* A new attempt starts at the beginning of what it reads.
LEMMA SyncRestart ==
  ASSUME Unamended, HostInv, PlaceInv, SyncInv,
         NEW m \in LaterModes, NEW edits \in EditSets, Restart(m, edits)
  PROVE  SyncInv'
<1>1. /\ attempt' = attempt + 1 /\ recorded' = log /\ log' = Seed /\ pc' = "settle"
      /\ reason' = "none" /\ cursor' = 0 /\ arrived' = <<>> /\ raised' = FALSE
      /\ planAt' = 0 /\ LogInv /\ attempt \in Nat
      /\ log \in Seq(Events) /\ N \in Nat /\ N >= 1
  BY LogTypes, MissionFacts DEF Restart, Forget, SyncInv, HostInv, TypeOK
<1>2. version' = [w \in Workers |-> 1]
  <2>1. edits = {}
    BY DEF Unamended
  <2>2. version' = [w \in Workers |-> version[w]]
    BY <2>1 DEF Restart
  <2> QED
    BY <1>1, <2>2 DEF LogInv
<1>3. /\ Seed \in Seq(Events) /\ Len(Seed) = 2 /\ Seed[1] = Started /\ Seed[2] = Fact
      /\ Responses(Seed) = {} /\ Findings(Seed) = {2} /\ Good(Seed)
      /\ \A n \in Nat : Aged(Seed, n)
  BY SeedShape, SeedGood
<1>4. Len(arrived') = 0 /\ \A k : k \notin 1..Len(arrived')
  BY <1>1, OneOrNone
<1>5. LogInv'
  <2>1. /\ attempt' \in Nat /\ attempt' - 1 = attempt /\ attempt' >= 1
    BY <1>1 DEF LogInv
  <2>2. /\ Good(log') /\ Aged(log', attempt') /\ Good(recorded')
    BY <1>1, <1>3, <2>1 DEF LogInv
  <2>3. Aged(recorded', attempt' - 1)
    BY <1>1, <2>1 DEF LogInv
  <2>4. \A k \in 1..Len(arrived') : arrived'[k].by <= attempt'
    BY <1>4
  <2> QED
    BY <1>2, <2>1, <2>2, <2>3, <2>4 DEF LogInv
<1>6. \A i \in Plan' : i \in Nat /\ i > 2 /\ ~(i <= planAt') /\ ~(i <= 2)
  <2> SUFFICES ASSUME NEW i \in Plan' PROVE i \in Nat /\ i > 2 /\ ~(i <= 0) /\ ~(i <= 2)
    BY <1>1
  <2>1. i \in 1..Len(log) /\ \E r \in Requests(log) : r < i
    BY <1>1 DEF Plan, Planned
  <2>2. PICK r \in Requests(log) : r < i
    BY <2>1
  <2>3. Shape(log)
    BY DEF PlaceInv
  <2>4. r >= 3 /\ r \in Nat
    BY <1>1, <2>3, InLog, RequestCases
  <2>5. i \in Nat
    BY <2>1
  <2> QED
    BY <2>2, <2>4, <2>5
<1>7. OnlyPlanned' /\ ReEmitted'
  BY <1>1, <1>3, <1>6 DEF OnlyPlanned, ReEmitted
<1>8. KnownFindings' /\ VerdictLands'
  <2>1. \A j \in Findings(log') : ~(j > 2)
    BY <1>1, <1>3
  <2> QED
    BY <2>1 DEF KnownFindings, VerdictLands
<1>9. LandedIsJudged'
  BY <1>4 DEF LandedIsJudged, ArrivedIds
<1>10. Tracks'
  <2>1. SUFFICES ASSUME Tracking'
                 PROVE  TracksLog'
    BY <1>1 DEF Tracks
  <2>2. Len(log) >= 2 /\ Len(log) \in Nat
    <3>1. WaveAnswered(log) /\ 1 \in 1..N
      BY <1>1, <2>1 DEF Tracking
    <3>2. 2 + 1 \in Answered(log)
      BY <3>1 DEF WaveAnswered
    <3>3. 3 \in Requests(log)
      BY <1>1, <3>2 DEF LogInv, Good, OneAnswerIn, Answered
    <3>4. 3 \in 1..Len(log) /\ Len(log) \in Nat
      BY <1>1, <3>3, InLog
    <3> QED
      BY <3>4
  <2>3. log[1] = Started /\ log[2] = Fact
    BY <2>2 DEF PlaceInv, Shape, WellPlaced
  <2>4. Prefix(Seed, log)
    <3>1. \A i \in 1..2 : i = 1 \/ i = 2
      OBVIOUS
    <3> QED
      BY <1>3, <2>2, <2>3, <3>1 DEF Prefix
  <2>5. \A i \in Plan' : i <= planAt' <=> i <= Len(log')
    BY <1>1, <1>3, <1>6
  <2> QED
    BY <1>1, <2>4, <2>5 DEF TracksLog
<1> QED
  BY <1>5, <1>7, <1>8, <1>9, <1>10 DEF SyncInv, FollowInv

\* At the start there is nothing to follow.
LEMMA SyncInvInit == Init => SyncInv
<1> SUFFICES ASSUME Init PROVE SyncInv
  OBVIOUS
<1>1. /\ attempt = 1 /\ version = [w \in Workers |-> 1] /\ recorded = <<>> /\ log = Seed
      /\ pc = "settle" /\ reason = "none" /\ cursor = 0 /\ arrived = <<>>
      /\ raised = FALSE /\ planAt = 0
  BY DEF Init
<1>2. /\ Len(<<>>) = 0 /\ \A k : k \notin 1..Len(<<>>)
  BY OneOrNone
<1>3. /\ Responses(Seed) = {} /\ Findings(Seed) = {2} /\ Good(Seed) /\ Good(<<>>)
      /\ \A n \in Nat : Aged(Seed, n) /\ Aged(<<>>, n)
  BY SeedShape, SeedGood
<1>4. LogInv
  BY <1>1, <1>2, <1>3 DEF LogInv
<1>5. Plan = {} /\ PlanLeft \subseteq 1..0
  BY <1>1, <1>2 DEF Plan, PlanLeft
<1>6. OnlyPlanned /\ ReEmitted
  BY <1>1, <1>3, <1>5 DEF OnlyPlanned, ReEmitted
<1>7. KnownFindings /\ VerdictLands
  <2>1. \A j \in Findings(log) : ~(j > 2)
    BY <1>1, <1>3
  <2> QED
    BY <2>1 DEF KnownFindings, VerdictLands
<1>8. LandedIsJudged
  BY <1>1, <1>2 DEF LandedIsJudged, ArrivedIds
<1>9. Tracks
  <2>1. Answered(recorded) = {}
    BY <1>1, <1>2 DEF Answered, Responses
  <2>2. 1 \in 1..N
    BY MissionFacts
  <2>3. ~Tracking
    BY <2>1, <2>2 DEF Tracking, WaveAnswered
  <2> QED
    BY <2>3 DEF Tracks
<1> QED
  BY <1>4, <1>6, <1>7, <1>8, <1>9 DEF SyncInv, FollowInv

\* Every step of a mission whose briefs stay follows the recording.
LEMMA SyncInvStep ==
  ASSUME Unamended
  PROVE  HostInv /\ PlaceInv /\ HandInv /\ SyncInv /\ [Next]_vars => SyncInv'
<1> SUFFICES ASSUME HostInv, PlaceInv, HandInv, SyncInv, [Next]_vars PROVE SyncInv'
  OBVIOUS
<1>1. CASE UNCHANGED vars
  <2>1. UNCHANGED <<attempt, version, recorded, log, pc, reason, cursor, arrived, raised,
                    planAt, window>>
    BY <1>1 DEF vars
  <2>2. CASE pc \in Ended
    <3>1. LogInv'
      BY <2>1 DEF SyncInv, LogInv
    <3> QED
      BY <2>1, <2>2, <3>1 DEF SyncInv
  <2>3. CASE pc \notin Ended
    <3>1. StillTracks
      BY <2>1, <2>3 DEF StillTracks, SyncInv, FollowInv, Tracks
    <3> QED
      BY <2>1, <2>3, <3>1, SyncStill
  <2> QED
    BY <2>2, <2>3
<1>2. CASE Loop
  BY <1>2, SyncProcess, SyncQuiesce, SyncControl, SyncArrival, SyncOpen, SyncReEmit,
     SyncClose, SyncComplete DEF Loop
<1>3. CASE StartTask \/ Answers \/ \E id \in running : WorkerEmit(id) \/ WorkerRaise(id)
  BY <1>3, SyncCalls
<1>4. CASE \/ Interrupt \/ Crash
           \/ \E m \in LaterModes, edits \in EditSets : Restart(m, edits)
  BY <1>4, SyncInterrupt, SyncCrash, SyncRestart
<1> QED
  BY <1>1, <1>2, <1>3, <1>4 DEF Next


-----------------------------------------------------------------------------
(***************************************************************************)
(* How an attempt ends.                                                    *)
(***************************************************************************)
\* What a finished attempt leaves.
DoneMeans ==
  pc = "done" =>
    /\ log[Len(log)].type = "mission.completed" /\ reason \in {"idle", "until"}
    /\ reason = "idle" => /\ OpenCalls = {} /\ cursor = Len(log) - 1
                          /\ arrived = <<>> /\ PlanLeft = {} /\ ReEmitted
\* What a replay of a whole recording leaves.
ReplayEnds ==
  mode = "replay" /\ Whole(recorded) /\ pc \in Ended =>
    /\ Prefix(log, recorded) /\ pc # "error"
    /\ pc = "done" => log = recorded

EndInv == NeverSpins /\ LandedIsRecorded /\ DoneMeans /\ ReplayEnds

\* The last steps of an attempt, and the reasons to leave the loop.
LEMMA LastSteps ==
  ASSUME HostInv, Next, pc \notin Ended
  PROVE  \/ Complete \/ Fail \/ Crash \/ Spin
         \/ pc' \notin Ended /\ (reason' = reason \/ reason' # "max_quanta")
<1>1. CASE Loop
  BY <1>1 DEF Loop, ProcessEvent, Quiesce, ObserveStop, InjectArrival, OpenWindow, ReEmit,
     CloseWindow, Await, GoIdle, Wake, Leave, Ended
<1>2. CASE StartTask \/ Answers \/ \E id \in running : WorkerEmit(id) \/ WorkerRaise(id)
  BY <1>2 DEF StartTask, Answers, WorkerAnswer, RunGate, WorkerEmit, WorkerRaise
<1>3. CASE Interrupt
  BY <1>3 DEF Interrupt
<1>4. ASSUME NEW m \in LaterModes, NEW edits \in EditSets, Restart(m, edits)
      PROVE  FALSE
  BY <1>4 DEF Restart
<1> QED
  BY <1>1, <1>2, <1>3, <1>4 DEF Next

\* An attempt that is over stays as it is until the next one.
LEMMA EndedRests ==
  ASSUME Next, pc \in Ended
  PROVE  \E m \in LaterModes, edits \in EditSets : Restart(m, edits)
<1>1. ~Loop
  BY DEF Loop, ProcessEvent, Quiesce, ObserveStop, InjectArrival, OpenWindow, ReEmit,
     CloseWindow, Await, GoIdle, Spin, Wake, Fail, Complete, Ended
<1>2. ~StartTask /\ ~Answers /\ ~ \E id \in running : WorkerEmit(id) \/ WorkerRaise(id)
  BY DEF StartTask, Answers, WorkerAnswer, RunGate, WorkerEmit, WorkerRaise, Ended
<1>3. ~Interrupt /\ ~Crash
  BY DEF Interrupt, Crash
<1> QED
  BY <1>1, <1>2, <1>3 DEF Next

\* An appended event is the next.
LEMMA AppendLonger ==
  ASSUME NEW l \in Seq(Events), NEW e
  PROVE  Len(Append(l, e)) = Len(l) + 1 /\ Len(l) \in Nat
<1> DEFINE X == Events \cup {e}
<1>1. l \in Seq(X)
  <2>1. \A i \in 1..Len(l) : l[i] \in X
    BY ElementOfSeq
  <2> QED
    BY <2>1, LenProperties
<1>2. e \in X
  OBVIOUS
<1> HIDE DEF X
<1> QED
  BY <1>1, <1>2, AppendProperties, LenProperties

\* A log starts with what the mission seeds, whatever a crash cuts off.
Begun == Len(log) >= 2 /\ (mode # "live" => Len(recorded) >= 2)

\* A log never loses its first two events.
LEMMA BegunStep == HostInv /\ PlaceInv /\ Begun /\ [Next]_vars => Begun'
<1> SUFFICES ASSUME HostInv, PlaceInv, Begun, [Next]_vars PROVE Begun'
  OBVIOUS
<1>1. log \in Seq(Events) /\ Len(log) \in Nat
  BY LogTypes, LenProperties
<1>2. ASSUME UNCHANGED <<mode, recorded>>, log' = log \/ \E e : log' = Append(log, e)
      PROVE  Begun'
  BY <1>1, <1>2, AppendLonger DEF Begun
<1>3. CASE UNCHANGED vars
  BY <1>2, <1>3 DEF vars
<1>4. CASE ProcessEvent
  <2>1. Prefix(log, log') /\ log' \in Seq(Events) /\ UNCHANGED <<mode, recorded>>
    BY <1>4, ProcessMoves
  <2>2. Len(log) <= Len(log') /\ Len(log') \in Nat
    BY <1>1, <2>1, PrefixEvents
  <2> QED
    BY <1>1, <2>1, <2>2 DEF Begun
<1>5. CASE \/ Quiesce \/ ObserveStop \/ InjectArrival \/ OpenWindow \/ ReEmit
           \/ CloseWindow \/ Await \/ GoIdle \/ Spin \/ Wake \/ Fail \/ Complete
  BY <1>2, <1>5 DEF Quiesce, ObserveStop, InjectArrival, OpenWindow, ReEmit, CloseWindow,
     Await, GoIdle, Spin, Wake, Fail, Complete, identity
<1>6. CASE StartTask \/ Answers \/ Interrupt
           \/ \E id \in running : WorkerEmit(id) \/ WorkerRaise(id)
  BY <1>2, <1>6 DEF StartTask, Answers, WorkerAnswer, RunGate, WorkerEmit, WorkerRaise,
     Interrupt, identity
<1>7. CASE Crash
  <2>1. /\ log' \in Seq(Events) /\ Len(log') \in Nat
        /\ \A i \in 1..Len(log) : i > Len(log') => i \in In(pending)
        /\ UNCHANGED <<mode, recorded>>
    BY <1>7, CrashCut, LenProperties DEF Crash, identity
  <2>2. Len(log') >= 2
    <3> SUFFICES ASSUME ~(Len(log') >= 2) PROVE FALSE
      OBVIOUS
    <3>1. 2 \in 1..Len(log) /\ 2 > Len(log')
      BY <1>1, <2>1 DEF Begun
    <3>2. 2 \in Requests(log)
      BY <2>1, <3>1 DEF HostInv, EachCallInOnePlace
    <3>3. Shape(log)
      BY DEF PlaceInv
    <3> QED
      BY <1>1, <3>2, <3>3, RequestCases
  <2> QED
    BY <2>1, <2>2 DEF Begun
<1>8. CASE \E m \in LaterModes, edits \in EditSets : Restart(m, edits)
  BY <1>8, SeedShape DEF Restart, Begun
<1> QED
  BY <1>3, <1>4, <1>5, <1>6, <1>7, <1>8 DEF Next, Loop

\* A whole recording is tracked.
LEMMA WholeIsTracked ==
  ASSUME HostInv, LogInv, Whole(recorded), Len(recorded) >= 2
  PROVE  Tracking
<1>1. /\ recorded \in Seq(Events) /\ Len(recorded) \in Nat /\ Shape(recorded)
      /\ N \in Nat /\ N >= 1
  BY LogTypes, LenProperties, MissionFacts DEF LogInv, Good
<1>2. Len(recorded) \in 1..Len(recorded)
      /\ recorded[Len(recorded)].type = "mission.completed"
  BY <1>1 DEF Whole
<1>3. Len(recorded) > 3 + N
  BY <1>1, <1>2, ShapeRead
<1>4. \A k \in 1..N : 2 + k \in Answered(recorded)
  <2> SUFFICES ASSUME NEW k \in 1..N PROVE 2 + k \in Answered(recorded)
    OBVIOUS
  <2>1. 2 + k \in 1..Len(recorded) /\ 2 + k \in 3..(2 + N)
    BY <1>1, <1>3
  <2>2. 2 + k \in Requests(recorded)
    BY <1>1, <2>1, ShapeRead
  <2> QED
    BY <2>2 DEF Whole
<1> QED
  BY <1>4 DEF Tracking, WaveAnswered


\* What a replay of a whole recording has come to while it runs.
LEMMA ReplayRuns ==
  ASSUME HostInv, SyncInv, Begun, pc \notin Ended, mode = "replay", Whole(recorded)
  PROVE  Tracking /\ TracksLog /\ ~raised /\ reason # "raised" /\ LogInv /\ Tracks
<1>1. LogInv /\ Tracks
  BY DEF SyncInv, FollowInv
<1>2. Tracking
  BY <1>1, WholeIsTracked DEF Begun
<1> QED
  BY <1>1, <1>2 DEF Tracks

\* A run that an exception leaves ends with what it must;
LEMMA FailEnds ==
  ASSUME HostInv, PlaceInv, HandInv, SyncInv, Begun, NeverSpins, Fail
  PROVE  EndInv'
<1>1. /\ pc = "check" /\ pc \notin Ended /\ pc' = "error"
      /\ UNCHANGED <<mode, recorded, log, reason, arrived>>
  BY DEF Fail, identity, Ended
<1>2. ~CanInject => arrived = <<>> /\ ~(PlanLeft # {} /\ OpenCalls = {})
  BY <1>1, NeverStuck
<1>3. ASSUME mode # "replay" PROVE arrived = <<>>
  BY <1>2, <1>3 DEF Fail, Overrun
<1>4. ASSUME mode = "replay", Whole(recorded) PROVE FALSE
  <2>1. Tracking /\ TracksLog /\ reason # "raised" /\ LogInv
    BY <1>1, <1>4, ReplayRuns
  <2>2. CASE Overrun
    <3>1. PlanLeft = {} /\ arrived # <<>>
      BY <2>2 DEF Overrun, CanInjectArrival
    <3>2. OpenCalls = {} /\ ArrivedIds \subseteq OpenCalls
      BY <2>1, <3>1, TrackedLandsInPlan, InHandFacts
    <3>3. Len(arrived) \in Nat \ {0}
      BY <3>1, EmptySeq DEF HostInv, TypeOK
    <3>4. arrived[1].req \in ArrivedIds
      BY <3>3, InHandFacts
    <3> QED
      BY <3>2, <3>4
  <2>3. CASE Flushing /\ ~CanInject /\ Stalled
    <3>1. PlanLeft # {} /\ OpenCalls # {}
      BY <1>2, <2>3 DEF Stalled
    <3>2. reason \in {"until", "idle"}
      BY <2>1, <2>3 DEF Flushing, HostInv, TypeOK, NeverSpins
    <3>3. reason # "until"
      BY <1>4 DEF HandInv, LeftPlace
    <3>4. reason # "idle"
      BY <1>1, <3>1 DEF HandInv, IdlePlace
    <3> QED
      BY <3>2, <3>3, <3>4
  <2> QED
    BY <2>1, <2>2, <2>3 DEF Fail
<1>5. NeverSpins'
  BY <1>1 DEF NeverSpins
<1>6. LandedIsRecorded' /\ DoneMeans'
  BY <1>1, <1>3 DEF LandedIsRecorded, DoneMeans
<1>7. ReplayEnds'
  BY <1>1, <1>4 DEF ReplayEnds, Whole
<1> QED
  BY <1>5, <1>6, <1>7 DEF EndInv

\* Two logs that agree up to their ends, both of them finished, are the same.
LEMMA FinishedAlike ==
  ASSUME NEW l \in Seq(Events), NEW r \in Seq(Events), Earned(l), Earned(r),
         NEW n \in Nat, n >= 1, Len(l) = n, Len(r) = n,
         \A i \in 1..(n - 1) : l[i] = r[i],
         l[n].type = "mission.completed", r[n].type = "mission.completed"
  PROVE  l = r
<1>1. \A i \in 1..n : i \in 1..(n - 1) \/ i = n
  OBVIOUS
<1>2. \A i \in 1..n : l[i].type = r[i].type
  BY <1>1
<1>3. /\ \A i \in Responses(l) : i \in Responses(r) /\ l[i] = r[i]
      /\ \A i \in Responses(r) : i \in Responses(l)
      /\ \A i \in Findings(l) : i \in Findings(r) /\ l[i] = r[i]
      /\ \A i \in Findings(r) : i \in Findings(l)
  BY <1>1, <1>2 DEF Responses, Findings
<1>4. Responses(l) = Responses(r) /\ Findings(l) = Findings(r)
  BY <1>3
<1>5. GateFindings(l) = GateFindings(r) /\ \A g \in GateFindings(l) : l[g] = r[g]
  BY <1>3, <1>4 DEF GateFindings
<1>6. (\E g \in Last(GateFindings(l)) : ~l[g].ok) <=> (\E g \in Last(GateFindings(r)) : ~r[g].ok)
  BY <1>5 DEF Last
<1>7. \A w : (\E i \in Responses(l) : l[i].worker = w /\ l[i].ok)
             <=> (\E i \in Responses(r) : r[i].worker = w /\ r[i].ok)
  BY <1>3, <1>4
<1>8. OkOf(l) = OkOf(r)
  <2>1. (\A w \in Agents : \E i \in Responses(l) : l[i].worker = w /\ l[i].ok)
        <=> (\A w \in Agents : \E i \in Responses(r) : r[i].worker = w /\ r[i].ok)
    BY <1>7
  <2>2. OkOf(l) <=> OkOf(r)
    BY <1>6, <2>1, Zenon DEF OkOf
  <2>3. OkOf(l) \in BOOLEAN /\ OkOf(r) \in BOOLEAN
    BY DEF OkOf
  <2> QED
    BY <2>2, <2>3
<1>9. n \in 1..n
  OBVIOUS
<1>10. l[n] = r[n]
  BY <1>8, <1>9 DEF Earned
<1>11. \A i \in 1..n : l[i] = r[i]
  BY <1>1, <1>10
<1> QED
  BY <1>11, SeqEqual

\* A replay of a whole recording that completes is that recording.
LEMMA ReplayCompletes ==
  ASSUME HostInv, PlaceInv, HandInv, SyncInv, Begun, NeverSpins, Complete,
         LogInv', mode = "replay", Whole(recorded)
  PROVE  log' = recorded
<1> DEFINE n == Len(log)
<1>1. /\ pc = "check" /\ pc \notin Ended /\ reason # "raised" /\ recorded' = recorded
      /\ ~Stalled /\ log' = Append(log, CompletedEvent)
  BY DEF Complete, identity, Ended, CompletedEvent
<1>2. Tracking /\ TracksLog /\ LogInv
  BY <1>1, ReplayRuns
<1>3. PlanLeft = {}
  BY <1>1 DEF Stalled
<1>4. /\ log \in Seq(Events) /\ recorded \in Seq(Events) /\ n \in Nat /\ n >= 3 + N
      /\ N \in Nat /\ N >= 1 /\ log[n] = Idle /\ LastType = "runtime.idle"
      /\ Shape(recorded)
  BY <1>1, <1>2, LogTypes, LenProperties, MissionFacts
     DEF PlaceInv, LoopPlace, Standing, LastType, Idle, Event
<1>5. /\ n + 1 \in 1..Len(recorded) /\ n \in 1..Len(recorded) /\ recorded[n] = log[n]
  BY <1>2, <1>4, RecordingGoesOn
<1>6. InBlock(recorded, n + 1) \/ Finished(recorded, n + 1)
  <2>1. recorded[n].type = "runtime.idle"
    BY <1>4, <1>5 DEF LastType
  <2> QED
    BY <1>4, <1>5, <2>1, NextEvent
<1>7. ~InBlock(recorded, n + 1)
  <2> SUFFICES ASSUME InBlock(recorded, n + 1) PROVE FALSE
    OBVIOUS
  <2> DEFINE m == n + 1
  <2>1. m \in Responses(recorded) \cup Findings(recorded)
    BY <1>5 DEF InBlock, InjectedTypes, Responses, Findings
  <2>2. m > 2 /\ m <= Len(log) + 1 /\ m \in Nat
    BY <1>4
  <2>3. m \in Plan
    BY <1>2, <2>1, <2>2, TrackedIsPlanned
  <2>4. ~(m <= planAt) /\ planAt \in Nat
    BY <1>2, <1>4, <2>3, PlanLeftMeans DEF TracksLog
  <2>5. m \in PlanLeft
    BY <2>2, <2>3, <2>4, PlanLeftMeans
  <2> QED
    BY <1>3, <2>5
<1>8. recorded[n + 1].type = "mission.completed"
  BY <1>6, <1>7 DEF Finished
<1>9. n + 1 = Len(recorded)
  BY <1>2, <1>5, <1>8 DEF LogInv, Good, Earned
<1>10. /\ log' \in Seq(Events) /\ Len(log') = n + 1 /\ log'[n + 1] = CompletedEvent
       /\ \A i \in 1..n : log'[i] = log[i]
  BY <1>1, <1>4, CompletedType, OneMore
<1>11. \A i \in 1..((n + 1) - 1) : log'[i] = recorded[i]
  <2>1. (n + 1) - 1 = n
    BY <1>4
  <2> QED
    BY <1>2, <1>10, <2>1 DEF TracksLog, Prefix
<1>12. Earned(log') /\ Earned(recorded)
  BY <1>2 DEF LogInv, Good
<1>13. log'[n + 1].type = "mission.completed"
  BY <1>10, CompletedType
<1>14. n + 1 \in Nat /\ n + 1 >= 1
  BY <1>4
<1> HIDE DEF n
<1> QED
  BY <1>4, <1>8, <1>9, <1>10, <1>11, <1>12, <1>13, <1>14, FinishedAlike

\* so does one that comes to its end.
LEMMA CompleteEnds ==
  ASSUME HostInv, PlaceInv, HandInv, SyncInv, Begun, NeverSpins, Complete, LogInv'
  PROVE  EndInv'
<1>1. /\ pc = "check" /\ pc \notin Ended /\ pc' = "done" /\ reason # "raised"
      /\ Flushing /\ ~CanInject /\ log' = Append(log, CompletedEvent)
      /\ UNCHANGED <<mode, recorded, reason, arrived, cursor, planAt>>
  BY DEF Complete, identity, Ended, CompletedEvent
<1>2. arrived = <<>> /\ ~(PlanLeft # {} /\ OpenCalls = {})
  BY <1>1, NeverStuck
<1>3. /\ log \in Seq(Events) /\ Len(log) \in Nat /\ Len(log') = Len(log) + 1
      /\ log' \in Seq(Events) /\ log'[Len(log) + 1] = CompletedEvent
      /\ \A i \in 1..Len(log) : log'[i] = log[i]
      /\ Requests(log') = Requests(log) /\ Answered(log') = Answered(log)
  BY <1>1, LogTypes, CompletedType, OneMore
<1>4. reason \in {"idle", "until"}
  BY <1>1 DEF Flushing, HostInv, TypeOK, NeverSpins
<1>5. DoneMeans'
  <2>1. log'[Len(log')].type = "mission.completed"
    BY <1>3, CompletedType
  <2>2. ASSUME reason = "idle"
        PROVE  /\ OpenCalls' = {} /\ cursor = Len(log') - 1 /\ arrived' = <<>>
               /\ PlanLeft' = {} /\ ReEmitted'
    <3>1. OpenCalls = {} /\ OpenCalls' = OpenCalls
      BY <1>1, <1>3, <2>2 DEF HandInv, IdlePlace, OpenCalls
    <3>2. PlanLeft = {} /\ PlanLeft' = PlanLeft /\ Plan' = Plan
      BY <1>1, <1>2, <3>1, PlanKept
    <3>3. cursor = Len(log)
      BY <1>1 DEF PlaceInv, LoopPlace
    <3>4. ReEmitted
      BY <1>1 DEF SyncInv, FollowInv
    <3>5. ReEmitted'
      <4> SUFFICES ASSUME NEW i \in Plan, i <= planAt
                   PROVE  \E j \in 1..Len(log') : log'[j] = recorded[i]
        BY <1>1, <3>2 DEF ReEmitted
      <4>1. PICK j \in 1..Len(log) : log[j] = recorded[i]
        BY <3>4 DEF ReEmitted
      <4>2. j \in 1..Len(log')
        BY <1>3
      <4> QED
        BY <1>3, <4>1, <4>2
    <3> QED
      BY <1>1, <1>2, <1>3, <3>1, <3>2, <3>3, <3>5
  <2> QED
    BY <1>1, <1>4, <2>1, <2>2 DEF DoneMeans
<1>6. NeverSpins' /\ LandedIsRecorded'
  BY <1>1, <1>2 DEF NeverSpins, LandedIsRecorded
<1>7. ReplayEnds'
  <2> SUFFICES ASSUME mode = "replay", Whole(recorded)
               PROVE  Prefix(log', recorded) /\ log' = recorded
    BY <1>1 DEF ReplayEnds, Whole
  <2>1. log' = recorded
    BY ReplayCompletes
  <2>2. Prefix(recorded, recorded)
    BY LogTypes, LenProperties DEF Prefix
  <2> QED
    BY <2>1, <2>2
<1> QED
  BY <1>5, <1>6, <1>7 DEF EndInv


\* Every step keeps the promise of the end.
LEMMA EndInvStep ==
  HostInv /\ PlaceInv /\ HandInv /\ SyncInv /\ SyncInv' /\ Begun /\ EndInv /\ [Next]_vars
    => EndInv'
<1> SUFFICES ASSUME HostInv, PlaceInv, HandInv, SyncInv, SyncInv', Begun, EndInv, [Next]_vars
             PROVE  EndInv'
  OBVIOUS
<1>1. NeverSpins /\ LandedIsRecorded /\ DoneMeans /\ ReplayEnds /\ LogInv'
  BY DEF EndInv, SyncInv
<1>2. ASSUME pc' \notin Ended, reason' # "max_quanta" PROVE EndInv'
  BY <1>2 DEF EndInv, NeverSpins, LandedIsRecorded, DoneMeans, ReplayEnds, Ended
<1>3. CASE UNCHANGED vars
  <2>1. UNCHANGED <<mode, recorded, log, pc, reason, cursor, arrived, planAt>>
    BY <1>3 DEF vars
  <2>2. PlanLeft' = PlanLeft /\ Plan' = Plan /\ OpenCalls' = OpenCalls
    BY <2>1, PlanKept DEF OpenCalls
  <2>3. DoneMeans'
    BY <1>1, <2>1, <2>2 DEF DoneMeans, ReEmitted
  <2>4. NeverSpins' /\ LandedIsRecorded' /\ ReplayEnds'
    BY <1>1, <2>1 DEF NeverSpins, LandedIsRecorded, ReplayEnds, Ended, Whole, Prefix
  <2> QED
    BY <2>3, <2>4 DEF EndInv
<1>4. CASE pc \in Ended /\ Next
  <2>1. \E m \in LaterModes, edits \in EditSets : Restart(m, edits)
    BY <1>4, EndedRests
  <2>2. pc' = "settle" /\ reason' = "none"
    BY <2>1 DEF Restart, Forget
  <2> QED
    BY <1>2, <2>2 DEF Ended
<1>5. CASE pc \notin Ended /\ Next
  <2>1. CASE Complete
    BY <1>1, <2>1, CompleteEnds
  <2>2. CASE Fail
    BY <1>1, <2>2, FailEnds
  <2>3. CASE Spin
    BY <2>3, NeverStuck DEF Spin
  <2>4. CASE Crash
    <3>1. /\ pc' = "crashed" /\ reason' = "none" /\ UNCHANGED <<mode, recorded>>
      BY <2>4 DEF Crash, Forget, identity
    <3>2. ReplayEnds'
      <4> SUFFICES ASSUME mode = "replay", Whole(recorded)
                   PROVE  Prefix(log', recorded)
        BY <3>1 DEF ReplayEnds, Whole
      <4>1. TracksLog
        BY <1>5, ReplayRuns
      <4>2. /\ log \in Seq(Events) /\ log' \in Seq(Events) /\ recorded \in Seq(Events)
            /\ Prefix(log', log) /\ Prefix(log, recorded)
        BY <2>4, <4>1, CrashCut, LogTypes DEF TracksLog
      <4>3. /\ Len(log') \in Nat /\ Len(log) \in Nat /\ Len(recorded) \in Nat
            /\ Len(log') <= Len(log) /\ Len(log) <= Len(recorded)
        BY <4>2, PrefixEvents
      <4>4. \A i \in 1..Len(log') : i \in 1..Len(log)
        BY <4>3
      <4> QED
        BY <4>2, <4>3, <4>4 DEF Prefix
    <3> QED
      BY <3>1, <3>2 DEF EndInv, NeverSpins, LandedIsRecorded, DoneMeans
  <2>5. CASE pc' \notin Ended /\ (reason' = reason \/ reason' # "max_quanta")
    BY <1>1, <1>2, <2>5 DEF NeverSpins
  <2> QED
    BY <1>5, <2>1, <2>2, <2>3, <2>4, <2>5, LastSteps
<1> QED
  BY <1>3, <1>4, <1>5

\* Everything the chain of attempts keeps true while no brief is amended.
MissionInv == HostInv /\ PlaceInv /\ HandInv /\ SyncInv /\ Begun /\ EndInv

\* All of this holds of every mission whose briefs stay.
LEMMA MissionInvHolds ==
  ASSUME Unamended
  PROVE  Spec => []MissionInv
<1>1. Init => MissionInv
  <2> SUFFICES ASSUME Init PROVE MissionInv
    OBVIOUS
  <2>1. HostInv /\ PlaceInv /\ HandInv /\ SyncInv
    BY HostInvInit, PlaceInvInit, HandInvInit, SyncInvInit
  <2>2. Begun
    BY SeedShape DEF Init, Begun
  <2>3. EndInv
    BY DEF Init, EndInv, NeverSpins, LandedIsRecorded, DoneMeans, ReplayEnds, Ended
  <2> QED
    BY <2>1, <2>2, <2>3 DEF MissionInv
<1>2. MissionInv /\ [Next]_vars => MissionInv'
  <2> SUFFICES ASSUME MissionInv, [Next]_vars PROVE MissionInv'
    OBVIOUS
  <2>1. HostInv /\ PlaceInv /\ HandInv /\ SyncInv /\ Begun /\ EndInv
    BY DEF MissionInv
  <2>2. HostInv' /\ PlaceInv' /\ HandInv' /\ SyncInv' /\ Begun'
    BY <2>1, HostInvStep, PlaceInvStep, HandInvStep, SyncInvStep, BegunStep
  <2>3. EndInv'
    BY <2>1, <2>2, EndInvStep
  <2> QED
    BY <2>2, <2>3 DEF MissionInv
<1> QED
  BY <1>1, <1>2, PTL DEF Spec

\* Host.run's promise of termination: while no brief is amended, the loop never
\* goes round with completions it cannot place, whatever is interrupted,
\* raised or crashed on the way.
THEOREM NothingIsStuck ==
  ASSUME Unamended
  PROVE  Spec => []NeverSpins
<1>1. MissionInv => NeverSpins
  BY DEF MissionInv, EndInv
<1> QED
  BY <1>1, MissionInvHolds, PTL

\* Host._flush_arrived: no way out of the loop, by the end of the work, an
\* interrupt or an exception, drops a completion that landed.
THEOREM LandedAreRecorded ==
  ASSUME Unamended
  PROVE  Spec => []LandedIsRecorded
<1>1. MissionInv => LandedIsRecorded
  BY DEF MissionInv, EndInv
<1> QED
  BY <1>1, MissionInvHolds, PTL

\* Host.run ends "idle" only when every request of the log is answered, every
\* event is processed and the plan is used up.
THEOREM IdleIsAnswered ==
  ASSUME Unamended
  PROVE  Spec => []IdleMeansAnswered
<1>1. MissionInv => IdleMeansAnswered
  <2> SUFFICES ASSUME MissionInv, pc = "done", reason = "idle"
               PROVE  /\ Requests(log) = Answered(log)
                      /\ cursor = Len(log) - 1 /\ arrived = <<>> /\ PlanLeft = {}
    BY DEF IdleMeansAnswered
  <2>1. OpenCalls = {} /\ cursor = Len(log) - 1 /\ arrived = <<>> /\ PlanLeft = {}
    BY DEF MissionInv, EndInv, DoneMeans
  <2>2. Answered(log) \subseteq Requests(log)
    BY DEF MissionInv, HostInv, OneAnswerPerCall, OneAnswerIn, Answered
  <2> QED
    BY <2>1, <2>2 DEF OpenCalls
<1> QED
  BY <1>1, MissionInvHolds, PTL

\* WorkerAPI, AgentDispatcher: a side effect is in the log between the request
\* that let its worker run and that request's answer.
THEOREM EffectsStayInside ==
  ASSUME Unamended
  PROVE  Spec => []EffectsInsideTheirCall
<1>1. MissionInv => EffectsInsideTheirCall
  BY DEF MissionInv, SyncInv, LogInv, Good, Effects, EffectsInsideTheirCall
<1> QED
  BY <1>1, MissionInvHolds, PTL

\* Mission._gate: no agent's answer in a finished log is younger than the
\* verdict the log carries.
THEOREM VerdictStandsFresh ==
  ASSUME Unamended
  PROVE  Spec => []VerdictIsFresh
<1>1. MissionInv => VerdictIsFresh
  BY DEF MissionInv, SyncInv, LogInv, Good, FreshVerdict, VerdictIsFresh
<1> QED
  BY <1>1, MissionInvHolds, PTL

\* ReplayPlan.from_events: a replay of a whole recording is at every moment a
\* prefix of it, never fails, and ends as the recording itself.
THEOREM ReplayIsTheRecording ==
  ASSUME Unamended
  PROVE  Spec => []ReplayReproduces
<1>1. MissionInv => ReplayReproduces
  <2> SUFFICES ASSUME MissionInv, mode = "replay", Whole(recorded)
               PROVE  /\ Prefix(log, recorded) /\ pc # "error"
                      /\ pc = "done" => log = recorded
    BY DEF ReplayReproduces, Prefix
  <2>1. HostInv /\ SyncInv /\ Begun /\ ReplayEnds
    BY DEF MissionInv, EndInv
  <2>2. CASE pc \in Ended
    BY <2>1, <2>2 DEF ReplayEnds
  <2>3. CASE pc \notin Ended
    BY <2>1, <2>3, ReplayRuns DEF TracksLog, Ended
  <2> QED
    BY <2>2, <2>3
<1> QED
  BY <1>1, MissionInvHolds, PTL


\* A request of a later wave finds the first wave answered before it.
LEMMA AfterReports ==
  ASSUME NEW l \in Seq(Events), Shape(l), OneAnswerIn(l),
         NEW i \in Requests(l), l[i].worker \notin Agents, NEW w \in Agents
  PROVE  \E j \in Responses(l) : j < i /\ l[j].worker = w
<1>1. i \in Nat /\ i > 3 + N /\ i > 2 + N /\ N \in Nat
  BY RequestCases, MissionFacts
<1>2. PICK k \in 1..N : w = AgentList[k]
  BY MissionFacts
<1>3. 2 + k \in 3..(2 + N) /\ (2 + k) - 2 = k /\ 2 + k \in 1..Len(l)
  BY <1>1, <1>2, InLog
<1>4. l[2 + k].worker = w
  BY <1>2, <1>3, ShapeRead
<1>5. ASSUME NEW n \in Nat, n < i, AllReported(l, n)
      PROVE  \E j \in Responses(l) : j < i /\ l[j].worker = w
  <2>1. PICK j \in Responses(l) : j <= n /\ l[j].cause = 2 + k
    BY <1>5 DEF AllReported
  <2>2. j < i
    BY <1>1, <1>5, <2>1, InLog
  <2>3. l[j].worker = w
    BY <1>4, <2>1 DEF OneAnswerIn
  <2> QED
    BY <2>2, <2>3
<1>6. CASE AllReported(l, i - 1)
  BY <1>1, <1>5, <1>6
<1>7. CASE ~AllReported(l, i - 1)
  <2>1. PICK c \in Requests(l) : c < i - 1 /\ l[c].worker = Gate /\ c > 2 + N
    BY <1>1, <1>7, Askers
  <2>2. AllReported(l, c - 1)
    BY <2>1, Askers, MissionFacts
  <2>3. c \in Nat
    BY InLog
  <2>4. c - 1 \in Nat /\ c - 1 < i
    BY <1>1, <2>1, <2>3
  <2> QED
    BY <1>5, <2>2, <2>4
<1> QED
  BY <1>6, <1>7

\* The synthesizer of a mission with a gate is asked after the verdict.
LEMMA AfterVerdict ==
  ASSUME NEW l \in Seq(Events), Good(l), HasGate,
         NEW i \in Requests(l), l[i].worker = Synthesizer
  PROVE  \E g \in GateFindings(l) : g < i
<1>1. Shape(l) /\ OneAnswerIn(l) /\ Judged(l) /\ Effects(l)
  BY DEF Good
<1>2. i \in Nat /\ i > 2 + N /\ N \in Nat
  BY <1>1, RequestCases, MissionFacts
<1>3. /\ i - 1 \in Responses(l) /\ l[i - 1].worker = Gate
      /\ l[i - 1].cause \in Requests(l) /\ l[l[i - 1].cause].worker = Gate
  BY <1>1, <1>2, Askers, MissionFacts
<1>4. PICK g \in Findings(l) : g < i - 1 /\ l[g].cause = l[i - 1].cause
  BY <1>1, <1>3 DEF Judged
<1>5. l[g].cause # 1
  BY <1>1, <1>3, <1>4, RequestCases
<1>6. l[g].worker = Gate
  BY <1>1, <1>3, <1>4, <1>5 DEF Effects
<1>7. g < i
  BY <1>2, <1>4, InLog
<1> QED
  BY <1>5, <1>6, <1>7 DEF GateFindings

\* Mission._behaviors: the gate is asked once, after every agent's answer, and
\* the synthesizer once, after the gate's verdict, in every log of a chain of
\* live, resumed and replayed attempts.
THEOREM WavesComeInOrder ==
  ASSUME Unamended
  PROVE  Spec => []WavesInOrder
<1>1. MissionInv => WavesInOrder
  <2> SUFFICES ASSUME MissionInv PROVE WavesInOrder
    OBVIOUS
  <2>1. log \in Seq(Events) /\ Good(log)
    BY LogTypes DEF MissionInv, SyncInv, LogInv
  <2>2. Shape(log) /\ OneAnswerIn(log)
    BY <2>1 DEF Good
  <2>4. \A i \in Requests(log) : log[i].worker \notin Agents =>
          /\ \A w \in Agents : \E j \in Responses(log) : j < i /\ log[j].worker = w
          /\ \A j \in Requests(log) : log[j].worker = log[i].worker => j = i
    BY <2>1, <2>2, AfterReports, AskedOnce
  <2>5. HasGate => \A i \in Requests(log) : log[i].worker = Synthesizer =>
          \E j \in GateFindings(log) : j < i
    BY <2>1, AfterVerdict
  <2> QED
    BY <2>4, <2>5 DEF WavesInOrder
<1> QED
  BY <1>1, MissionInvHolds, PTL


\* No event of a call is twice in a log.
LEMMA OnceInLog ==
  ASSUME NEW l \in Seq(Events), Good(l),
         NEW j \in Responses(l) \cup Findings(l),
         NEW k \in Responses(l) \cup Findings(l), l[k] = l[j]
  PROVE  k = j
<1>1. l[k].type = l[j].type /\ l[k].cause = l[j].cause
  OBVIOUS
<1>2. CASE j \in Responses(l)
  <2>1. k \in Responses(l)
    BY <1>1, <1>2 DEF Responses, Findings
  <2> QED
    BY <1>1, <1>2, <2>1 DEF Good, OneAnswerIn
<1>3. CASE j \in Findings(l)
  <2>1. k \in Findings(l)
    BY <1>1, <1>3 DEF Responses, Findings
  <2> QED
    BY <1>1, <1>3, <2>1 DEF Good, OneFinding
<1> QED
  BY <1>2, <1>3

\* What a resume must keep is in the plan.
LEMMA KeptIsPlanned ==
  ASSUME HostInv, LogInv, NEW i \in Kept(recorded)
  PROVE  i \in Plan
<1>1. recorded \in Seq(Events) /\ Good(recorded) /\ Shape(recorded) /\ OneAnswerIn(recorded)
  BY LogTypes DEF LogInv, Good
<1>2. /\ i \in Responses(recorded) \cup Findings(recorded)
      /\ recorded[i].cause \in Answered(recorded)
  BY DEF Kept
<1>3. recorded[i].cause \in Requests(recorded)
  BY <1>1, <1>2 DEF OneAnswerIn, Answered
<1>4. recorded[i].cause # 1 /\ N \in Nat
  BY <1>1, <1>3, RequestCases, MissionFacts
<1>5. i \in 1..Len(recorded) /\ i \in Nat
  BY <1>1, <1>2, InLog
<1>6. i # 1 /\ i # 2 /\ i # 0
  BY <1>1, <1>2, <1>4, <1>5, ShapeRead DEF Responses, Findings
<1>7. i > 2
  BY <1>5, <1>6
<1> QED
  BY <1>1, <1>2, <1>7, AnsweredIsPlanned

\* An event of a finished run is of an answered call with the one brief there is.
LEMMA KeptInLog ==
  ASSUME HostInv, LogInv, OpenCalls = {}, NEW j \in 1..Len(log),
         log[j].type \in InjectedTypes, log[j].cause # 1
  PROVE  j \in Kept(log)
<1>1. log \in Seq(Events) /\ Good(log) /\ log[j] \in Events
  BY LogTypes, ElementOfSeq DEF LogInv
<1>2. j \in Responses(log) \cup Findings(log)
  BY DEF InjectedTypes, Responses, Findings
<1>3. log[j].cause \in Requests(log)
  BY <1>1, <1>2 DEF Good, OneAnswerIn, Effects
<1>4. log[j].cause \in Answered(log)
  BY <1>3 DEF OpenCalls
<1>5. log[log[j].cause].ver = 1
  BY <1>1, <1>3 DEF Good, Plain
<1>6. log[j].worker \in Workers
  BY <1>1 DEF Events
<1>7. version[log[j].worker] = 1
  BY <1>6 DEF LogInv
<1> QED
  BY <1>2, <1>4, <1>5, <1>7 DEF Kept

\* AgentCache.from_events, ReplayPlan.from_events: a resume that ran to idle
\* bought no recorded answer again; every answer and every side effect of an
\* answered call is in its log exactly once, as it was recorded.
THEOREM AnswersSurviveResume ==
  ASSUME Unamended
  PROVE  Spec => []ResumeKeepsAnswers
<1>1. MissionInv => ResumeKeepsAnswers
  <2> SUFFICES ASSUME MissionInv, pc = "done", reason = "idle", NEW i \in Kept(recorded)
               PROVE  \E j \in Kept(log) : /\ log[j] = recorded[i]
                                           /\ \A k \in Kept(log) : log[k] = log[j] => k = j
    BY DEF ResumeKeepsAnswers
  <2>1. HostInv /\ LogInv /\ log \in Seq(Events) /\ Good(log)
    BY LogTypes DEF MissionInv, SyncInv, LogInv
  <2>2. OpenCalls = {} /\ PlanLeft = {} /\ ReEmitted
    BY DEF MissionInv, EndInv, DoneMeans
  <2>3. i \in Plan
    BY <2>1, KeptIsPlanned
  <2>4. i <= planAt
    <3>1. ~(i > planAt) /\ planAt \in Nat
      BY <2>1, <2>2, <2>3, PlanLeftMeans
    <3>2. i \in Nat
      BY <2>1, <2>3, PlanFacts
    <3> QED
      BY <3>1, <3>2
  <2>5. PICK j \in 1..Len(log) : log[j] = recorded[i]
    BY <2>2, <2>3, <2>4 DEF ReEmitted
  <2>6. log[j].type \in InjectedTypes /\ log[j].cause # 1
    BY <2>1, <2>3, <2>5, PlanFacts
  <2>7. j \in Kept(log)
    BY <2>1, <2>2, <2>6, KeptInLog
  <2>8. \A k \in Kept(log) : log[k] = log[j] => k = j
    BY <2>1, <2>7, OnceInLog DEF Kept
  <2> QED
    BY <2>5, <2>7, <2>8
<1> QED
  BY <1>1, MissionInvHolds, PTL


\* Without the interrupt of another thread no run is cut short.
CalmInv == ~stop /\ reason # "until"

\* Without interrupts no run is stopped.
LEMMA CalmStep ==
  ASSUME ~MayInterrupt
  PROVE  /\ Init => CalmInv
         /\ CalmInv /\ [Next]_vars => CalmInv'
<1>1. Init => CalmInv
  BY DEF Init, CalmInv
<1>2. CalmInv /\ [Next]_vars => CalmInv'
  <2> SUFFICES ASSUME CalmInv, [Next]_vars PROVE CalmInv'
    OBVIOUS
  <2>1. CASE UNCHANGED vars
    BY <2>1 DEF vars, CalmInv
  <2>2. CASE Loop
    BY <2>2 DEF CalmInv, Loop, ProcessEvent, Quiesce, ObserveStop, InjectArrival, OpenWindow,
       ReEmit, CloseWindow, Await, GoIdle, Spin, Wake, Fail, Complete, Leave
  <2>3. CASE StartTask \/ Answers \/ \E id \in running : WorkerEmit(id) \/ WorkerRaise(id)
    <3>1. StartTask => UNCHANGED <<reason, stop>>
      BY DEF StartTask
    <3>2. \A id \in running, ok \in BOOLEAN :
            WorkerAnswer(id, ok) \/ RunGate(id, ok) => UNCHANGED <<reason, stop>>
      BY DEF WorkerAnswer, RunGate
    <3>3. \A id \in running : WorkerEmit(id) \/ WorkerRaise(id) => UNCHANGED <<reason, stop>>
      BY DEF WorkerEmit, WorkerRaise
    <3> QED
      BY <2>3, <3>1, <3>2, <3>3 DEF Answers, CalmInv
  <2>4. CASE Interrupt \/ Crash
    BY <2>4 DEF CalmInv, Interrupt, Crash, Forget
  <2>5. CASE \E m \in LaterModes, edits \in EditSets : Restart(m, edits)
    BY <2>5 DEF CalmInv, Restart, Forget
  <2> QED
    BY <2>1, <2>2, <2>3, <2>4, <2>5 DEF Next
<1> QED
  BY <1>1, <1>2

\* A log with every call answered is past its first wave.
LEMMA LastOfFirstWave ==
  ASSUME NEW l \in Seq(Events), Good(l), Requests(l) \subseteq Answered(l),
         Len(l) >= 2, l[Len(l)].type = "mission.completed"
  PROVE  /\ \A w \in Agents : \E j \in Responses(l) : l[j].worker = w
         /\ \E r \in Responses(l) :
              /\ l[r].worker \in Agents /\ AllReported(l, r)
              /\ \A j \in Responses(l) : l[j].worker \in Agents => j <= r
<1>1. Shape(l) /\ OneAnswerIn(l) /\ N \in Nat /\ N >= 1 /\ Len(l) \in Nat
  BY MissionFacts, LenProperties DEF Good
<1>2. Len(l) > 3 + N
  <2>1. Len(l) \in 1..Len(l)
    BY <1>1
  <2> QED
    BY <1>1, <2>1, ShapeRead
<1>3. ASSUME NEW k \in 1..N
      PROVE  \E j \in Responses(l) : l[j].cause = 2 + k /\ l[j].worker = AgentList[k]
  <2>1. 2 + k \in 3..(2 + N) /\ 2 + k \in 1..Len(l) /\ (2 + k) - 2 = k
    BY <1>1, <1>2
  <2>2. 2 + k \in Requests(l) /\ l[2 + k].worker = AgentList[k]
    BY <1>1, <2>1, ShapeRead
  <2>3. PICK j \in Responses(l) : l[j].cause = 2 + k
    BY <2>2 DEF Answered
  <2> QED
    BY <1>1, <2>2, <2>3 DEF OneAnswerIn
<1>4. ASSUME NEW w \in Agents PROVE \E j \in Responses(l) : l[j].worker = w
  <2>1. PICK k \in 1..N : w = AgentList[k]
    BY MissionFacts
  <2> QED
    BY <1>3, <2>1
<1>5. \E r \in Responses(l) :
        /\ l[r].worker \in Agents /\ AllReported(l, r)
        /\ \A j \in Responses(l) : l[j].worker \in Agents => j <= r
  <2> DEFINE S == {j \in Responses(l) : l[j].worker \in Agents}
  <2>1. S \subseteq 0..Len(l)
    BY <1>1, InLog
  <2>2. S # {}
    <3>1. 1 \in 1..N
      BY <1>1
    <3>2. AgentList[1] \in Agents
      BY <3>1, MissionFacts
    <3> QED
      BY <1>4, <3>2
  <2>3. PICK r \in S : \A j \in S : j <= r
    <3> HIDE DEF S
    <3> QED
      BY <1>1, <2>1, <2>2, Greatest
  <2>4. AllReported(l, r)
    <3> SUFFICES ASSUME NEW k \in 1..N
                 PROVE  \E j \in Responses(l) : j <= r /\ l[j].cause = 2 + k
      BY DEF AllReported
    <3>1. PICK j \in Responses(l) : l[j].cause = 2 + k /\ l[j].worker = AgentList[k]
      BY <1>3
    <3>2. j \in S
      BY <3>1, MissionFacts
    <3> QED
      BY <2>3, <3>1, <3>2
  <2> QED
    BY <2>3, <2>4
<1> QED
  BY <1>4, <1>5

\* A log with every call answered has one verdict, reached after every report.
LEMMA OneVerdict ==
  ASSUME NEW l \in Seq(Events), Good(l), Requests(l) \subseteq Answered(l),
         Len(l) >= 2, l[Len(l)].type = "mission.completed", HasGate
  PROVE  \E g \in GateFindings(l) :
           /\ \A h \in GateFindings(l) : h = g
           /\ g \in Last(GateFindings(l))
           /\ \A i \in Responses(l) : l[i].worker \in Agents => i < g
<1>1. /\ Shape(l) /\ OneAnswerIn(l) /\ Effects(l) /\ Judged(l) /\ OneFinding(l)
      /\ N \in Nat /\ N >= 1 /\ Len(l) \in Nat
  BY MissionFacts, LenProperties DEF Good
<1>2. PICK r \in Responses(l) :
        /\ l[r].worker \in Agents /\ AllReported(l, r)
        /\ \A j \in Responses(l) : l[j].worker \in Agents => j <= r
  BY LastOfFirstWave
<1>3. /\ r \in Nat /\ r \in 1..Len(l) /\ r > 3 + N /\ l[r].type = "agent.responded"
  BY <1>1, InLog, ShapeRead
<1>4. r + 1 \in 1..Len(l) /\ r + 1 \in Nat /\ r >= 2 + N /\ (r + 1) - 1 = r
  <2>1. r # Len(l)
    BY <1>3
  <2> QED
    BY <1>1, <1>3, <2>1
<1>5. Wave(l, r) = <<Gate>>
  BY <1>2 DEF Wave, AfterLastReport
<1>6. AskedBy(l, r + 1)
  BY <1>1, <1>3, <1>4, <1>5, NextEvent, OneOrNone
<1>7. r + 1 \in Requests(l) /\ l[r + 1].worker = Gate
  <2>1. l[r + 1].type = "agent.requested"
    BY <1>6 DEF AskedBy, RequestAt, Event
  <2>2. <<l[r + 1].worker>> = <<Gate>>
    BY <1>4, <1>5, <1>6 DEF AskedBy
  <2>3. l[r + 1].worker = Gate
    BY <2>2, OneOrNone
  <2> QED
    BY <1>4, <2>1, <2>3 DEF Requests
<1>8. PICK a \in Responses(l) : l[a].cause = r + 1
  BY <1>7 DEF Answered
<1>9. l[a].worker = Gate
  BY <1>1, <1>7, <1>8 DEF OneAnswerIn
<1>10. PICK g \in Findings(l) : l[g].cause = r + 1
  BY <1>1, <1>8, <1>9 DEF Judged
<1>11. r + 1 # 1 /\ g \in Nat
  BY <1>1, <1>3, InLog
<1>12. g \in GateFindings(l) /\ r + 1 < g
  BY <1>1, <1>7, <1>10, <1>11 DEF Effects, GateFindings
<1>13. ASSUME NEW h \in GateFindings(l) PROVE h = g
  <2>1. h \in Findings(l) /\ l[h].cause \in Requests(l) /\ l[l[h].cause].worker = Gate
    BY <1>1 DEF Effects, GateFindings
  <2>2. l[h].cause = r + 1
    BY <1>1, <1>7, <2>1, AskedOnce
  <2> QED
    BY <1>1, <1>10, <2>1, <2>2 DEF OneFinding
<1>14. g \in Last(GateFindings(l))
  BY <1>11, <1>12, <1>13 DEF Last
<1>15. ASSUME NEW i \in Responses(l), l[i].worker \in Agents PROVE i < g
  <2>1. i <= r /\ i \in Nat
    BY <1>1, <1>2, <1>15, InLog
  <2> QED
    BY <1>3, <1>11, <1>12, <2>1
<1> QED
  BY <1>12, <1>13, <1>14, <1>15

\* Mission._execute: a mission that no interrupt cut short says completed only
\* on an answer without error from every agent and on a passing verdict that
\* was reached after the last of them.
THEOREM CompletionIsEarned ==
  ASSUME Unamended, ~MayInterrupt
  PROVE  Spec => []CompletedIsEarned
<1>1. MissionInv /\ CalmInv => CompletedIsEarned
  <2> SUFFICES ASSUME MissionInv, CalmInv, pc = "done", log[Len(log)].ok
               PROVE  /\ \A w \in Agents : ReportedOk(w)
                      /\ HasGate => \E g \in GateFindings(log) :
                           /\ log[g].ok
                           /\ \A i \in Responses(log) : log[i].worker \in Agents => i < g
    BY DEF CompletedIsEarned
  <2>1. log \in Seq(Events) /\ Good(log) /\ Earned(log) /\ Len(log) \in Nat
    BY LogTypes DEF MissionInv, SyncInv, LogInv, Good
  <2>2. log[Len(log)].type = "mission.completed" /\ reason = "idle" /\ OpenCalls = {}
    BY DEF MissionInv, EndInv, DoneMeans, CalmInv
  <2>3. Requests(log) \subseteq Answered(log)
    BY <2>2 DEF OpenCalls
  <2>4. Len(log) \in 1..Len(log) /\ Len(log) >= 2
    BY <2>1 DEF MissionInv, Begun
  <2>5. OkOf(log)
    <3>1. log[Len(log)] = Event("mission.completed", Gate, 0, 0, OkOf(log), 0)
      BY <2>1, <2>2, <2>4 DEF Earned
    <3>2. ASSUME NEW b PROVE Event("mission.completed", Gate, 0, 0, b, 0).ok = b
      BY DEF Event
    <3>3. log[Len(log)].ok = OkOf(log)
      BY <3>1, <3>2, Zenon
    <3> QED
      BY <3>3, Zenon
  <2>6. ASSUME HasGate
        PROVE  \E g \in GateFindings(log) :
                 /\ log[g].ok
                 /\ \A i \in Responses(log) : log[i].worker \in Agents => i < g
    <3>1. PICK g \in GateFindings(log) :
            /\ g \in Last(GateFindings(log))
            /\ \A i \in Responses(log) : log[i].worker \in Agents => i < g
      BY <2>1, <2>2, <2>3, <2>4, <2>6, OneVerdict
    <3>2. log[g].ok
      BY <2>5, <3>1 DEF OkOf
    <3> QED
      BY <3>1, <3>2
  <2> QED
    BY <2>5, <2>6 DEF OkOf, ReportedOk
<1>2. Init => CalmInv
  BY CalmStep
<1>3. CalmInv /\ [Next]_vars => CalmInv'
  BY CalmStep
<1>4. Spec => []CalmInv
  BY <1>2, <1>3, PTL DEF Spec
<1> QED
  BY <1>1, <1>4, MissionInvHolds, PTL


-----------------------------------------------------------------------------
(***************************************************************************)
(* The promise of the mission: the refinement of MissionPromise.  What the *)
(* promise speaks of is read off a log; how each kind of event changes the *)
(* reading; and then one lemma for every action of the promise.            *)
(***************************************************************************)
AskedIn(l) == {l[i].worker : i \in Requests(l)}
Of(l, w) == {i \in Responses(l) : l[i].worker = w}
AnswerIn(l, w) ==
  IF Of(l, w) = {} THEN "none"
  ELSE IF \E i \in Last(Of(l, w)) : l[i].ok THEN "ok" ELSE "error"
FailedIn(l) == \E g \in Last(GateFindings(l)) : ~l[g].ok
VerdictIn(l) ==
  IF GateFindings(l) = {} THEN "none" ELSE IF FailedIn(l) THEN "failed" ELSE "passed"

\* The views of the module are those of its log.
LEMMA Views ==
  /\ \A w : AnswerOf(w) = AnswerIn(log, w) /\ AnswerOf(w)' = AnswerIn(log', w)
  /\ VerdictOf = VerdictIn(log) /\ VerdictOf' = VerdictIn(log')
<1>1. \A w : AnswerOf(w) = AnswerIn(log, w) /\ AnswerOf(w)' = AnswerIn(log', w)
  BY DEF AnswerOf, AnswerIn, Of
<1>2. VerdictOf = VerdictIn(log) /\ VerdictOf' = VerdictIn(log')
  BY DEF VerdictOf, VerdictIn, GateFailed, FailedIn
<1> QED
  BY <1>1, <1>2

\* What the loop's place is for a reader of the mission.
LEMMA StatusCases ==
  /\ pc \notin Ended => StatusOf = "running"
  /\ pc' \notin Ended => StatusOf' = "running"
  /\ pc \in Ended => StatusOf # "running"
  /\ pc' = "error" => StatusOf' = "raised"
  /\ pc' = "crashed" => StatusOf' = "crashed"
  /\ pc' = "done" => StatusOf' = IF log'[Len(log')].ok THEN "completed" ELSE "failed"
BY DEF StatusOf, Ended

\* A step that the reader of the mission does not see.
LEMMA Stutters ==
  ASSUME AskedIn(log') = AskedIn(log),
         \A w \in Workers : AnswerIn(log', w) = AnswerIn(log, w),
         VerdictIn(log') = VerdictIn(log), StatusOf' = StatusOf
  PROVE  UNCHANGED Promise!vars
<1>1. [w \in Workers |-> AnswerOf(w)]' = [w \in Workers |-> AnswerOf(w)]
  BY Views
<1>2. {log[i].worker : i \in Requests(log)}' = {log[i].worker : i \in Requests(log)}
  BY DEF AskedIn
<1>3. VerdictOf' = VerdictOf
  BY Views
<1> QED
  BY <1>1, <1>2, <1>3 DEF Promise!vars

\* The actions of the promise, each from what the views show: an answer,
LEMMA PromiseAnswers ==
  ASSUME NEW w \in Workers, NEW a \in {"ok", "error"}, pc \notin Ended, pc' \notin Ended,
         w \in AskedIn(log), AnswerIn(log, w) = "none",
         w = Gate => VerdictIn(log) # "none" /\ a = "ok",
         AskedIn(log') = AskedIn(log), AnswerIn(log', w) = a,
         \A v \in Workers : v # w => AnswerIn(log', v) = AnswerIn(log, v),
         VerdictIn(log') = VerdictIn(log)
  PROVE  Promise!Next
<1>1. [v \in Workers |-> AnswerOf(v)]' = [[v \in Workers |-> AnswerOf(v)] EXCEPT ![w] = a]
  BY Views
<1>2. {log[i].worker : i \in Requests(log)}' = {log[i].worker : i \in Requests(log)}
  BY DEF AskedIn
<1>3. VerdictOf' = VerdictOf /\ StatusOf' = StatusOf /\ StatusOf = "running"
  BY Views, StatusCases
<1>4. w \in {log[i].worker : i \in Requests(log)}
  BY DEF AskedIn
<1>5. [v \in Workers |-> AnswerOf(v)][w] = "none"
  BY Views
<1>6. w = Gate => VerdictOf # "none" /\ a = "ok"
  BY Views
<1>7. Promise!Answer(w, a)
  BY <1>1, <1>2, <1>3, <1>4, <1>5, <1>6 DEF Promise!Answer, Promise!Answered
<1>8. w \in Promise!Workers
  BY DEF Promise!Workers, Workers
<1> QED
  BY <1>7, <1>8 DEF Promise!Next


\* (the same answers are the same function)
LEMMA SameAnswers ==
  ASSUME \A w \in Workers : AnswerIn(log', w) = AnswerIn(log, w)
  PROVE  [w \in Workers |-> AnswerOf(w)]' = [w \in Workers |-> AnswerOf(w)]
BY Views

\* a verdict,
LEMMA PromiseJudges ==
  ASSUME NEW v \in {"passed", "failed"}, pc \notin Ended, pc' \notin Ended,
         Gate \in AskedIn(log), VerdictIn(log) = "none", VerdictIn(log') = v,
         AskedIn(log') = AskedIn(log),
         \A w \in Workers : AnswerIn(log', w) = AnswerIn(log, w)
  PROVE  Promise!Next
<1>1. [w \in Workers |-> AnswerOf(w)]' = [w \in Workers |-> AnswerOf(w)]
  BY SameAnswers
<1>2. {log[i].worker : i \in Requests(log)}' = {log[i].worker : i \in Requests(log)}
  BY DEF AskedIn
<1>3. StatusOf' = StatusOf /\ StatusOf = "running"
  BY StatusCases
<1>4. VerdictOf = "none" /\ VerdictOf' = v
  BY Views
<1>5. Gate \in {log[i].worker : i \in Requests(log)}
  BY DEF AskedIn
<1>6. Promise!Judge(v)
  BY <1>1, <1>2, <1>3, <1>4, <1>5 DEF Promise!Judge
<1> QED
  BY <1>6 DEF Promise!Next

\* a wave of requests,
LEMMA PromiseAsks ==
  ASSUME NEW ws \in {Agents, {Gate}, {Synthesizer}}, pc \notin Ended, pc' \notin Ended,
         ws \cap AskedIn(log) = {}, AskedIn(log') = AskedIn(log) \cup ws,
         \/ ws = Agents
         \/ HasGate /\ ws = {Gate} /\ \A w \in Agents : AnswerIn(log, w) # "none"
         \/ /\ HasSynthesis /\ ws = {Synthesizer}
            /\ \A w \in Agents : AnswerIn(log, w) # "none"
            /\ HasGate => AnswerIn(log, Gate) # "none",
         VerdictIn(log') = VerdictIn(log),
         \A w \in Workers : AnswerIn(log', w) = AnswerIn(log, w)
  PROVE  Promise!Next
<1>1. [w \in Workers |-> AnswerOf(w)]' = [w \in Workers |-> AnswerOf(w)]
  BY SameAnswers
<1>2. /\ {log[i].worker : i \in Requests(log)}' = {log[i].worker : i \in Requests(log)} \cup ws
      /\ ws \cap {log[i].worker : i \in Requests(log)} = {}
  BY DEF AskedIn
<1>3. StatusOf' = StatusOf /\ StatusOf = "running"
  BY StatusCases
<1>4. VerdictOf' = VerdictOf
  BY Views
<1>5. \A w \in Workers : [v \in Workers |-> AnswerOf(v)][w] = AnswerIn(log, w)
  BY Views
<1>6. \A w \in Agents : w \in Workers
  BY DEF Workers
<1>7. Gate \in Workers
  BY DEF Workers
<1>8. \/ ws = Agents
      \/ HasGate /\ ws = {Gate} /\ Promise!WaveDone
      \/ /\ HasSynthesis /\ ws = {Synthesizer} /\ Promise!WaveDone
         /\ HasGate => Promise!Answered(Gate)
  BY <1>5, <1>6, <1>7 DEF Promise!WaveDone, Promise!Answered
<1>9. Promise!Ask(ws)
  BY <1>1, <1>2, <1>3, <1>4, <1>8 DEF Promise!Ask
<1> QED
  BY <1>9 DEF Promise!Next

\* an end,
LEMMA PromiseFinishes ==
  ASSUME pc \notin Ended,
         \/ pc' = "error"
         \/ /\ pc' = "done"
            /\ log'[Len(log')].ok =>
                 /\ \A w \in Agents : AnswerIn(log, w) = "ok"
                 /\ HasGate => VerdictIn(log) = "passed",
         AskedIn(log') = AskedIn(log), VerdictIn(log') = VerdictIn(log),
         \A w \in Workers : AnswerIn(log', w) = AnswerIn(log, w)
  PROVE  Promise!Next
<1>1. [w \in Workers |-> AnswerOf(w)]' = [w \in Workers |-> AnswerOf(w)]
  BY SameAnswers
<1>2. {log[i].worker : i \in Requests(log)}' = {log[i].worker : i \in Requests(log)}
  BY DEF AskedIn
<1>3. StatusOf = "running" /\ StatusOf' \in {"completed", "failed", "raised"}
  BY StatusCases
<1>4. VerdictOf' = VerdictOf
  BY Views
<1>5. ASSUME StatusOf' = "completed"
      PROVE  Promise!Earned
  <2>1. pc' = "done" /\ log'[Len(log')].ok
    BY <1>5, StatusCases
  <2>2. /\ \A w \in Agents : AnswerIn(log, w) = "ok"
        /\ HasGate => VerdictIn(log) = "passed"
    BY <2>1
  <2>3. \A w \in Agents : [v \in Workers |-> AnswerOf(v)][w] = "ok"
    BY <2>2, Views DEF Workers
  <2>4. HasGate => VerdictOf = "passed"
    BY <2>2, Views
  <2> QED
    BY <2>3, <2>4 DEF Promise!Earned
<1>6. Promise!Finish(StatusOf')
  BY <1>1, <1>2, <1>3, <1>4, <1>5 DEF Promise!Finish
<1> QED
  BY <1>3, <1>6 DEF Promise!Next

\* a crash,
LEMMA PromiseCrashes ==
  ASSUME pc \notin Ended, pc' = "crashed", AskedIn(log') \subseteq AskedIn(log),
         \A w \in Workers : AnswerIn(log, w) # "none" => w \in AskedIn(log'),
         VerdictIn(log') = VerdictIn(log),
         \A w \in Workers : AnswerIn(log', w) = AnswerIn(log, w)
  PROVE  Promise!Next
<1>1. [w \in Workers |-> AnswerOf(w)]' = [w \in Workers |-> AnswerOf(w)]
  BY SameAnswers
<1>2. {log[i].worker : i \in Requests(log)}' \in SUBSET {log[i].worker : i \in Requests(log)}
  BY DEF AskedIn
<1>3. StatusOf = "running" /\ StatusOf' = "crashed"
  BY StatusCases
<1>4. VerdictOf' = VerdictOf
  BY Views
<1>5. \A w \in Workers : [v \in Workers |-> AnswerOf(v)][w] # "none" =>
        w \in {log[i].worker : i \in Requests(log)}'
  BY Views DEF AskedIn
<1>6. Promise!Workers = Workers
  BY DEF Promise!Workers, Workers
<1>7. Promise!Crash
  BY <1>1, <1>2, <1>3, <1>4, <1>5, <1>6 DEF Promise!Crash, Promise!Answered
<1> QED
  BY <1>7 DEF Promise!Next

\* A new log shows nothing yet.
LEMMA SeedViews ==
  AskedIn(Seed) = {} /\ (\A w : AnswerIn(Seed, w) = "none") /\ VerdictIn(Seed) = "none"
<1>1. Requests(Seed) = {} /\ Responses(Seed) = {}
  BY SeedShape
<1>2. GateFindings(Seed) = {}
  <2>1. \A i \in Findings(Seed) : Seed[i].cause = 1
    BY DEF Seed, Findings, Started, Fact, Event
  <2> QED
    BY <2>1 DEF GateFindings
<1> QED
  BY <1>1, <1>2 DEF AskedIn, AnswerIn, Of, VerdictIn

\* a new attempt,
LEMMA PromiseRetries ==
  ASSUME pc \in Ended, pc' \notin Ended, log' = Seed
  PROVE  Promise!Next
<1>1. [w \in Workers |-> AnswerOf(w)]' = [w \in Workers |-> "none"]
  BY Views, SeedViews
<1>2. {log[i].worker : i \in Requests(log)}' = {}
  BY SeedViews DEF AskedIn
<1>3. StatusOf # "running" /\ StatusOf' = "running"
  BY StatusCases
<1>4. VerdictOf' = "none"
  BY Views, SeedViews
<1>5. Promise!Workers = Workers
  BY DEF Promise!Workers, Workers
<1>6. Promise!Retry
  BY <1>1, <1>2, <1>3, <1>4, <1>5 DEF Promise!Retry
<1> QED
  BY <1>6 DEF Promise!Next

\* and the first.
LEMMA PromiseBegins ==
  ASSUME Init
  PROVE  Promise!Init
<1>1. log = Seed /\ pc \notin Ended
  BY DEF Init, Ended
<1>2. [w \in Workers |-> AnswerOf(w)] = [w \in Workers |-> "none"]
  BY <1>1, Views, SeedViews
<1>3. {log[i].worker : i \in Requests(log)} = {}
  BY <1>1, SeedViews DEF AskedIn
<1>4. VerdictOf = "none" /\ StatusOf = "running"
  BY <1>1, Views, SeedViews, StatusCases
<1>5. Promise!Workers = Workers
  BY DEF Promise!Workers, Workers
<1> QED
  BY <1>2, <1>3, <1>4, <1>5 DEF Promise!Init


\* What one log shows of a longer one.
LEMMA SameViews ==
  ASSUME NEW l \in Seq(Events), NEW m \in Seq(Events), Prefix(l, m)
  PROVE  /\ Requests(m) = Requests(l) => AskedIn(m) = AskedIn(l)
         /\ AskedIn(l) \subseteq AskedIn(m)
         /\ Responses(m) = Responses(l) => \A w : AnswerIn(m, w) = AnswerIn(l, w)
         /\ GateFindings(m) = GateFindings(l) => VerdictIn(m) = VerdictIn(l)
         /\ Findings(m) = Findings(l) => GateFindings(m) = GateFindings(l)
<1>1. /\ \A i \in 1..Len(l) : m[i] = l[i]
      /\ Requests(l) \subseteq 1..Len(l) /\ Responses(l) \subseteq 1..Len(l)
      /\ Findings(l) \subseteq 1..Len(l) /\ Requests(l) \subseteq Requests(m)
  BY PrefixEvents
<1>2. Requests(m) = Requests(l) => AskedIn(m) = AskedIn(l)
  BY <1>1 DEF AskedIn
<1>3. AskedIn(l) \subseteq AskedIn(m)
  BY <1>1 DEF AskedIn
<1>4. ASSUME Responses(m) = Responses(l), NEW w
      PROVE  AnswerIn(m, w) = AnswerIn(l, w)
  <2>1. Of(m, w) = Of(l, w) /\ \A i \in Of(l, w) : m[i] = l[i]
    BY <1>1, <1>4 DEF Of
  <2>2. \A i \in Last(Of(l, w)) : i \in Of(l, w)
    BY DEF Last
  <2>3. (\E i \in Last(Of(m, w)) : m[i].ok) <=> (\E i \in Last(Of(l, w)) : l[i].ok)
    BY <2>1, <2>2
  <2> QED
    BY <2>1, <2>3 DEF AnswerIn
<1>5. ASSUME GateFindings(m) = GateFindings(l)
      PROVE  VerdictIn(m) = VerdictIn(l)
  <2>1. \A g \in Last(GateFindings(l)) : m[g] = l[g]
    BY <1>1 DEF Last, GateFindings
  <2>2. FailedIn(m) <=> FailedIn(l)
    BY <1>5, <2>1 DEF FailedIn
  <2> QED
    BY <1>5, <2>2 DEF VerdictIn
<1>6. Findings(m) = Findings(l) => GateFindings(m) = GateFindings(l)
  BY <1>1 DEF GateFindings
<1> QED
  BY <1>2, <1>3, <1>4, <1>5, <1>6

\* A worker answers once, so the answer on the log is its answer.
LEMMA AnswerReads ==
  ASSUME NEW l \in Seq(Events), Shape(l), OneAnswerIn(l)
  PROVE  /\ \A r \in Responses(l) :
              /\ AnswerIn(l, l[r].worker) = IF l[r].ok THEN "ok" ELSE "error"
              /\ l[r].worker \in AskedIn(l)
         /\ \A q \in Requests(l) \ Answered(l) : /\ AnswerIn(l, l[q].worker) = "none"
                                                 /\ l[q].worker \in AskedIn(l)
         /\ \A w : AnswerIn(l, w) # "none" <=> \E r \in Responses(l) : l[r].worker = w
<1>1. ASSUME NEW r \in Responses(l)
      PROVE  /\ AnswerIn(l, l[r].worker) = IF l[r].ok THEN "ok" ELSE "error"
             /\ l[r].worker \in AskedIn(l)
  <2>1. l[r].cause \in Requests(l) /\ l[l[r].cause].worker = l[r].worker /\ r \in Nat
    BY InLog DEF OneAnswerIn
  <2>2. ASSUME NEW s \in Responses(l), l[s].worker = l[r].worker PROVE s = r
    <3>1. l[s].cause \in Requests(l) /\ l[l[s].cause].worker = l[s].worker
      BY DEF OneAnswerIn
    <3>2. l[s].cause = l[r].cause
      BY <2>1, <2>2, <3>1, AskedOnce
    <3> QED
      BY <3>2 DEF OneAnswerIn
  <2>3. Of(l, l[r].worker) = {r}
    BY <2>2 DEF Of
  <2>4. Last({r}) = {r}
    BY <2>1 DEF Last
  <2>5. l[r].worker \in AskedIn(l)
    BY <2>1 DEF AskedIn
  <2> QED
    BY <2>3, <2>4, <2>5 DEF AnswerIn
<1>2. ASSUME NEW w, ~ \E r \in Responses(l) : l[r].worker = w
      PROVE  AnswerIn(l, w) = "none"
  <2>1. Of(l, w) = {}
    BY <1>2 DEF Of
  <2> QED
    BY <2>1 DEF AnswerIn
<1>3. ASSUME NEW q \in Requests(l) \ Answered(l)
      PROVE  AnswerIn(l, l[q].worker) = "none" /\ l[q].worker \in AskedIn(l)
  <2>1. l[q].worker \in AskedIn(l)
    BY DEF AskedIn
  <2>2. ASSUME NEW r \in Responses(l), l[r].worker = l[q].worker PROVE FALSE
    <3>1. l[r].cause \in Requests(l) /\ l[l[r].cause].worker = l[r].worker
      BY DEF OneAnswerIn
    <3>2. l[r].cause = q
      BY <2>2, <3>1, AskedOnce
    <3> QED
      BY <3>2 DEF Answered
  <2> QED
    BY <1>2, <2>1, <2>2
<1> QED
  BY <1>1, <1>2, <1>3

\* An appended answer is the only change of the views.
LEMMA AnswerAdds ==
  ASSUME NEW l \in Seq(Events), NEW e \in Events, e.type = "agent.responded",
         AnswerIn(l, e.worker) = "none"
  PROVE  /\ AnswerIn(Append(l, e), e.worker) = IF e.ok THEN "ok" ELSE "error"
         /\ \A v : v # e.worker => AnswerIn(Append(l, e), v) = AnswerIn(l, v)
         /\ AskedIn(Append(l, e)) = AskedIn(l)
         /\ VerdictIn(Append(l, e)) = VerdictIn(l)
<1> DEFINE m == Append(l, e)
           n == Len(l) + 1
<1>1. /\ Requests(m) = Requests(l) /\ Responses(m) = Responses(l) \cup {n}
      /\ Findings(m) = Findings(l) /\ m \in Seq(Events) /\ Prefix(l, m)
      /\ \A i \in 1..Len(l) : m[i] = l[i]
      /\ m[n] = e /\ n \in Nat
  BY OneMore
<1>2. \A i \in Responses(l) : m[i] = l[i]
  BY <1>1, InLog
<1> HIDE DEF m, n
<1>3. AskedIn(m) = AskedIn(l) /\ VerdictIn(m) = VerdictIn(l)
  BY <1>1, SameViews
<1>4. Of(l, e.worker) = {}
  BY DEF AnswerIn
<1>5. Of(m, e.worker) = {n}
  BY <1>1, <1>2, <1>4 DEF Of
<1>6. Last({n}) = {n}
  BY <1>1 DEF Last
<1>7. AnswerIn(m, e.worker) = IF e.ok THEN "ok" ELSE "error"
  BY <1>1, <1>5, <1>6 DEF AnswerIn
<1>8. ASSUME NEW v, v # e.worker PROVE AnswerIn(m, v) = AnswerIn(l, v)
  <2>1. Of(m, v) = Of(l, v)
    BY <1>1, <1>2, <1>8 DEF Of
  <2>2. \A i \in Last(Of(l, v)) : m[i] = l[i]
    BY <1>2 DEF Last, Of
  <2>3. (\E i \in Last(Of(m, v)) : m[i].ok) <=> (\E i \in Last(Of(l, v)) : l[i].ok)
    BY <2>1, <2>2
  <2> QED
    BY <2>1, <2>3 DEF AnswerIn
<1> QED
  BY <1>3, <1>7, <1>8 DEF m

\* A finding is a verdict, or the reader of the mission does not see it.
LEMMA FindingAdds ==
  ASSUME NEW l \in Seq(Events), NEW e \in Events, e.type = "finding.recorded"
  PROVE  /\ \A w : AnswerIn(Append(l, e), w) = AnswerIn(l, w)
         /\ AskedIn(Append(l, e)) = AskedIn(l)
         /\ e.worker # Gate => VerdictIn(Append(l, e)) = VerdictIn(l)
         /\ e.worker = Gate /\ e.cause # 1 /\ GateFindings(l) = {} =>
              VerdictIn(Append(l, e)) = IF e.ok THEN "passed" ELSE "failed"
<1> DEFINE m == Append(l, e)
           n == Len(l) + 1
<1>1. /\ Requests(m) = Requests(l) /\ Responses(m) = Responses(l)
      /\ Findings(m) = Findings(l) \cup {n} /\ m \in Seq(Events) /\ Prefix(l, m)
      /\ \A i \in 1..Len(l) : m[i] = l[i]
      /\ m[n] = e /\ n \in Nat
  BY OneMore
<1>2. \A i \in Findings(l) : m[i] = l[i]
  BY <1>1, InLog
<1> HIDE DEF m, n
<1>3. AskedIn(m) = AskedIn(l) /\ \A w : AnswerIn(m, w) = AnswerIn(l, w)
  BY <1>1, SameViews
<1>4. ASSUME e.worker # Gate PROVE VerdictIn(m) = VerdictIn(l)
  <2>1. GateFindings(m) = GateFindings(l)
    BY <1>1, <1>2, <1>4 DEF GateFindings
  <2> QED
    BY <1>1, <2>1, SameViews
<1>5. ASSUME e.worker = Gate, e.cause # 1, GateFindings(l) = {}
      PROVE  VerdictIn(m) = IF e.ok THEN "passed" ELSE "failed"
  <2>1. GateFindings(m) = {n}
    BY <1>1, <1>2, <1>5 DEF GateFindings
  <2>2. Last({n}) = {n}
    BY <1>1 DEF Last
  <2>3. FailedIn(m) <=> ~e.ok
    BY <1>1, <2>1, <2>2 DEF FailedIn
  <2> QED
    BY <2>1, <2>3 DEF VerdictIn
<1> QED
  BY <1>3, <1>4, <1>5 DEF m


\* What the gate answers is never an error: _GateRunner turns everything into
\* a verdict, and a recording or a resume hands on what was answered.
GateAnswers(l) == \A i \in Responses(l) : l[i].worker = Gate => l[i].ok
GateInv ==
  /\ GateAnswers(log) /\ GateAnswers(recorded)
  /\ \A k \in 1..Len(arrived) : log[arrived[k].req].worker = Gate => arrived[k].ok

\* The gate's answers stay free of errors when what is new is,
LEMMA GateKept ==
  ASSUME HostInv, GateInv, log' \in Seq(Events), Prefix(log, log'), UNCHANGED recorded,
         \A i \in Responses(log') :
           i \in Responses(log) \/ (log'[i].worker = Gate => log'[i].ok),
         \A k \in 1..Len(arrived') :
           \/ \E h \in 1..Len(arrived) : arrived'[k] = arrived[h]
           \/ /\ arrived'[k].req \in Requests(log)
              /\ log[arrived'[k].req].worker = Gate => arrived'[k].ok
  PROVE  GateInv'
<1>1. /\ log \in Seq(Events) /\ \A i \in 1..Len(log) : log'[i] = log[i]
      /\ Requests(log) \subseteq 1..Len(log) /\ Responses(log) \subseteq 1..Len(log)
  BY LogTypes, PrefixEvents
<1>2. GateAnswers(log')
  BY <1>1 DEF GateAnswers, GateInv
<1>3. ASSUME NEW k \in 1..Len(arrived'), log'[arrived'[k].req].worker = Gate
      PROVE  arrived'[k].ok
  <2>1. CASE \E h \in 1..Len(arrived) : arrived'[k] = arrived[h]
    <3>1. PICK h \in 1..Len(arrived) : arrived'[k] = arrived[h]
      BY <2>1
    <3>2. arrived[h].req \in ArrivedIds
      BY DEF ArrivedIds
    <3>3. arrived[h].req \in Requests(log)
      BY <3>2 DEF HostInv, EachCallInOnePlace
    <3> QED
      BY <1>1, <1>3, <3>1, <3>3 DEF GateInv
  <2>2. CASE /\ arrived'[k].req \in Requests(log)
             /\ log[arrived'[k].req].worker = Gate => arrived'[k].ok
    BY <1>1, <1>3, <2>2
  <2> QED
    BY <2>1, <2>2
<1>4. GateAnswers(recorded') /\ GateAnswers(log')
  BY <1>2 DEF GateInv
<1> QED
  BY <1>3, <1>4 DEF GateInv

\* when a completion lands,
LEMMA GateLands ==
  ASSUME HostInv, GateInv, UNCHANGED <<log, recorded>>, NEW c \in Completions,
         arrived' = Append(arrived, c), c.req \in Requests(log),
         log[c.req].worker = Gate => c.ok
  PROVE  GateInv'
<1>1. arrived \in Seq(Completions) /\ log \in Seq(Events) /\ Prefix(log, log')
  BY LogTypes, LenProperties DEF HostInv, TypeOK, Prefix
<1>2. \A k \in 1..Len(arrived') : (k \in 1..Len(arrived) /\ arrived'[k] = arrived[k])
                                  \/ arrived'[k] = c
  BY <1>1, AppendProperties, LenProperties
<1>3. log' \in Seq(Events) /\ Responses(log') = Responses(log)
  BY <1>1
<1> QED
  BY <1>1, <1>2, <1>3, GateKept

\* when one is injected,
LEMMA GateInjects ==
  ASSUME HostInv, PlaceInv, GateInv, NEW k \in 1..Len(arrived), Injects(k),
         UNCHANGED recorded
  PROVE  GateInv'
<1>1. /\ log' \in Seq(Events) /\ Prefix(log, log')
      /\ Responses(log') = Responses(log) \cup {Len(log) + 1}
      /\ log'[Len(log) + 1] = Response(arrived[k])
      /\ AreOthers(arrived', arrived, k)
  BY InjectMoves
<1>2. Response(arrived[k]).worker = Gate => Response(arrived[k]).ok
  <2>1. /\ Response(arrived[k]).worker = log[arrived[k].req].worker
        /\ Response(arrived[k]).ok = arrived[k].ok
    BY DEF Response, Event
  <2> QED
    BY <2>1 DEF GateInv
<1>3. \A j \in 1..Len(arrived') : \E h \in 1..Len(arrived) : arrived'[j] = arrived[h]
  BY <1>1 DEF AreOthers
<1> QED
  BY <1>1, <1>2, <1>3, GateKept

\* The steps that land nothing and inject nothing.
LEMMA GateStays ==
  ASSUME HostInv, GateInv, log' \in Seq(Events), Prefix(log, log'),
         UNCHANGED <<recorded, arrived>>, Responses(log') = Responses(log)
  PROVE  GateInv'
BY GateKept

\* when a recorded one is served,
LEMMA GateStart ==
  ASSUME HostInv, PlaceInv, SyncInv, GateInv, StartTask
  PROVE  GateInv'
<1>1. UNCHANGED <<log, recorded>> /\ log \in Seq(Events) /\ Prefix(log, log')
  BY StartMoves, LogTypes, LenProperties DEF Prefix
<1>2. PICK id \in OpenCalls :
        \/ \E i \in Recordings(id) :
             arrived' = Append(arrived, [req |-> id, ok |-> recorded[i].ok,
                                         by |-> recorded[i].by])
        \/ arrived' = arrived
  BY StartMoves
<1>3. id \in Requests(log) /\ id \in Nat
  BY <1>1, InLog DEF OpenCalls
<1>4. ASSUME NEW i \in Recordings(id),
             arrived' = Append(arrived, [req |-> id, ok |-> recorded[i].ok,
                                         by |-> recorded[i].by])
      PROVE  GateInv'
  <2> DEFINE c == [req |-> id, ok |-> recorded[i].ok, by |-> recorded[i].by]
  <2>1. /\ i \in Responses(recorded) /\ recorded[recorded[i].cause].worker = log[id].worker
    BY DEF Recordings, SameCall
  <2>2. recorded[i].worker = log[id].worker
    BY <2>1 DEF SyncInv, LogInv, Good, OneAnswerIn
  <2>3. recorded[i] \in Events
    BY <2>1, LogTypes, InLog, ElementOfSeq
  <2>4. c \in Completions /\ c.req = id /\ (log[id].worker = Gate => c.ok)
    BY <1>3, <2>1, <2>2, <2>3 DEF Completions, Events, GateInv, GateAnswers
  <2>5. arrived' = Append(arrived, c)
    BY <1>4
  <2> HIDE DEF c
  <2> QED
    BY <1>1, <1>3, <2>4, <2>5, GateLands
<1>5. CASE arrived' = arrived
  BY <1>1, <1>5, GateStays
<1> QED
  BY <1>2, <1>4, <1>5

\* when calls end,
LEMMA GateCalls ==
  ASSUME HostInv, PlaceInv, GateInv, NEW id \in running, NEW ok \in BOOLEAN,
         WorkerAnswer(id, ok) \/ RunGate(id, ok) \/ WorkerEmit(id) \/ WorkerRaise(id)
  PROVE  GateInv'
<1>1. /\ log' \in Seq(Events) /\ Prefix(log, log') /\ Responses(log') = Responses(log)
      /\ UNCHANGED recorded /\ id \in OpenCalls
  BY CallMoves
<1>2. /\ id \in Requests(log) /\ arrived \in Seq(Completions) /\ attempt \in Nat
      /\ id \in Nat
  BY <1>1, LogTypes, InLog DEF OpenCalls, HostInv, TypeOK
<1>3. ASSUME NEW v \in BOOLEAN, log[id].worker = Gate => v,
             arrived' = Append(arrived, [req |-> id, ok |-> v, by |-> attempt])
      PROVE  GateInv'
  <2> DEFINE c == [req |-> id, ok |-> v, by |-> attempt]
  <2>1. c \in Completions /\ c.req = id /\ c.ok = v
    BY <1>2 DEF Completions
  <2>2. arrived' = Append(arrived, c)
    BY <1>3
  <2> HIDE DEF c
  <2>3. \A k \in 1..Len(arrived') : (k \in 1..Len(arrived) /\ arrived'[k] = arrived[k])
                                    \/ arrived'[k] = c
    BY <1>2, <2>1, <2>2, AppendProperties, LenProperties
  <2> QED
    BY <1>1, <1>2, <1>3, <2>1, <2>3, GateKept
<1>4. CASE WorkerAnswer(id, ok)
  BY <1>3, <1>4 DEF WorkerAnswer, Arrive
<1>5. CASE RunGate(id, ok)
  BY <1>3, <1>5 DEF RunGate, Arrive
<1>6. CASE WorkerEmit(id) \/ WorkerRaise(id)
  <2>1. arrived' = arrived
    BY <1>6 DEF WorkerEmit, WorkerRaise
  <2> QED
    BY <1>1, <2>1, GateStays
<1> QED
  BY <1>4, <1>5, <1>6


\* and by every step.
LEMMA GateInvStep ==
  HostInv /\ PlaceInv /\ SyncInv /\ GateInv /\ [Next]_vars => GateInv'
<1> SUFFICES ASSUME HostInv, PlaceInv, SyncInv, GateInv, [Next]_vars PROVE GateInv'
  OBVIOUS
<1>1. log \in Seq(Events) /\ Prefix(log, log)
  BY LogTypes, LenProperties DEF Prefix
<1>2. CASE UNCHANGED <<log, recorded, arrived>>
  <2>1. log' \in Seq(Events) /\ Prefix(log, log') /\ Responses(log') = Responses(log)
    BY <1>1, <1>2
  <2> QED
    BY <1>2, <2>1, GateStays
<1>3. CASE ProcessEvent
  BY <1>3, ProcessMoves, GateStays
<1>4. CASE Quiesce
  <2>1. log' \in Seq(Events) /\ Responses(log') = Responses(log) /\ Idle \in Events
    BY <1>4, QuiesceCases
  <2>2. Prefix(log, log')
    BY <1>1, <1>4, <2>1, QuiesceCases, OneMore
  <2>3. UNCHANGED <<recorded, arrived>>
    BY <1>4 DEF Quiesce, identity
  <2> QED
    BY <2>1, <2>2, <2>3, GateStays
<1>5. CASE InjectArrival
  BY <1>5, ArrivalMoves, GateInjects DEF InjectArrival, identity
<1>6. CASE ReEmit
  <2>1. UNCHANGED recorded
    BY <1>6 DEF ReEmit, identity
  <2>2. PICK i \in First(window) :
          /\ i \in 1..Len(recorded)
          /\ \/ \E k \in 1..Len(arrived) : Injects(k)
             \/ /\ recorded[i].type = "finding.recorded"
                /\ log' = Append(log, recorded[i]) /\ arrived' = arrived
    BY <1>6, ReEmitCases DEF Injects
  <2>3. CASE \E k \in 1..Len(arrived) : Injects(k)
    BY <2>1, <2>3, GateInjects
  <2>4. CASE recorded[i].type = "finding.recorded" /\ log' = Append(log, recorded[i])
             /\ arrived' = arrived
    <3>1. recorded[i] \in Events
      BY <2>2, LogTypes, ElementOfSeq
    <3>2. log' \in Seq(Events) /\ Prefix(log, log') /\ Responses(log') = Responses(log)
      BY <2>4, <3>1, FindingMoves
    <3> QED
      BY <2>1, <2>4, <3>2, GateStays
  <2> QED
    BY <2>2, <2>3, <2>4
<1>7. CASE Complete
  <2>1. log' = Append(log, CompletedEvent) /\ UNCHANGED <<recorded, arrived>>
    BY <1>7 DEF Complete, CompletedEvent, identity
  <2>2. log' \in Seq(Events) /\ Prefix(log, log') /\ Responses(log') = Responses(log)
    BY <1>1, <2>1, CompletedType, OneMore
  <2> QED
    BY <2>1, <2>2, GateStays
<1>8. CASE ObserveStop \/ OpenWindow \/ CloseWindow \/ Await \/ GoIdle \/ Spin \/ Wake
           \/ Fail \/ Interrupt
  <2>1. UNCHANGED <<log, recorded, arrived>>
    BY <1>8 DEF ObserveStop, OpenWindow, CloseWindow, Await, GoIdle, Spin, Wake, Fail,
       Interrupt, Leave, identity
  <2> QED
    BY <1>2, <2>1
<1>9. CASE StartTask
  BY <1>9, GateStart
<1>10. CASE Answers \/ \E id \in running : WorkerEmit(id) \/ WorkerRaise(id)
  <2>1. TRUE \in BOOLEAN
    OBVIOUS
  <2> QED
    BY <1>10, <2>1, GateCalls DEF Answers
<1>11. CASE Crash
  <2>1. /\ log' \in Seq(Events) /\ Prefix(log', log) /\ arrived' = <<>>
        /\ UNCHANGED recorded
    BY <1>11, CrashCut DEF Crash, Forget, identity
  <2>2. \A i \in Responses(log') : i \in Responses(log) /\ log'[i] = log[i]
    BY <1>1, <2>1, PrefixEvents
  <2>3. GateAnswers(log') /\ GateAnswers(recorded')
    BY <2>1, <2>2 DEF GateInv, GateAnswers
  <2>4. \A k \in 1..Len(arrived') : FALSE
    BY <2>1, OneOrNone
  <2> QED
    BY <2>3, <2>4 DEF GateInv
<1>12. CASE \E m \in LaterModes, edits \in EditSets : Restart(m, edits)
  <2>1. log' = Seed /\ recorded' = log /\ arrived' = <<>>
    BY <1>12 DEF Restart, Forget
  <2>2. GateAnswers(log') /\ GateAnswers(recorded')
    BY <2>1, SeedShape DEF GateInv, GateAnswers
  <2>3. \A k \in 1..Len(arrived') : FALSE
    BY <2>1, OneOrNone
  <2> QED
    BY <2>2, <2>3 DEF GateInv
<1>13. CASE UNCHANGED vars
  <2>1. UNCHANGED <<log, recorded, arrived>>
    BY <1>13 DEF vars
  <2> QED
    BY <1>2, <2>1
<1> QED
  BY <1>3, <1>4, <1>5, <1>6, <1>7, <1>8, <1>9, <1>10, <1>11, <1>12, <1>13 DEF Next, Loop


\* How each kind of step reads.
PromiseStep == Promise!Next \/ UNCHANGED Promise!vars

\* A step that neither asks nor answers is a stutter of the promise.
LEMMA UnseenStep ==
  ASSUME HostInv, log' \in Seq(Events), Prefix(log, log'),
         Requests(log') = Requests(log), Responses(log') = Responses(log),
         Findings(log') = Findings(log), pc \notin Ended, pc' \notin Ended
  PROVE  PromiseStep
<1>1. /\ AskedIn(log') = AskedIn(log) /\ VerdictIn(log') = VerdictIn(log)
      /\ \A w : AnswerIn(log', w) = AnswerIn(log, w)
  BY SameViews, LogTypes
<1>2. StatusOf' = StatusOf
  BY StatusCases
<1> QED
  BY <1>1, <1>2, Stutters DEF PromiseStep

\* An injected completion is an answer of the promise.
LEMMA InjectKeepsPromise ==
  ASSUME HostInv, PlaceInv, GateInv, Good(log'), NEW k \in 1..Len(arrived), Injects(k),
         pc \notin Ended, pc' \notin Ended
  PROVE  PromiseStep
<1> DEFINE q == arrived[k].req
           e == Response(arrived[k])
           w == log[q].worker
           a == IF arrived[k].ok THEN "ok" ELSE "error"
<1>1. /\ log' \in Seq(Events) /\ Prefix(log, log')
      /\ Findings(log') = Findings(log)
      /\ Responses(log') = Responses(log) \cup {Len(log) + 1}
      /\ log'[Len(log) + 1] = e
      /\ \A i \in 1..Len(log) : log'[i] = log[i]
      /\ q \in OpenCalls /\ Len(log) \in Nat
  BY InjectMoves
<1>2. /\ e \in Events /\ e.type = "agent.responded" /\ e.cause = q /\ e.cause # 1
      /\ log' = Append(log, e) /\ log \in Seq(Events)
      /\ Shape(log) /\ OneAnswerIn(log)
  BY ResponseTakes, LogTypes DEF Injects, PlaceInv, HostInv, OneAnswerPerCall
<1>3. e.worker = w /\ e.ok = arrived[k].ok /\ w \in Workers
  <2>1. e.worker = w /\ e.ok = arrived[k].ok
    BY DEF Response, Event
  <2> QED
    BY <1>2, <2>1 DEF Events
<1>4. AnswerIn(log, w) = "none" /\ w \in AskedIn(log)
  BY <1>1, <1>2, AnswerReads DEF OpenCalls
<1>5. ASSUME w = Gate
      PROVE  VerdictIn(log) # "none" /\ a = "ok"
  <2>1. a = "ok"
    BY <1>5 DEF GateInv
  <2>2. Len(log) + 1 \in Responses(log') /\ log'[Len(log) + 1].worker = Gate
        /\ log'[Len(log) + 1].cause = q
    BY <1>1, <1>2, <1>3, <1>5
  <2>3. PICK g \in Findings(log') : log'[g].cause = q
    BY <2>2 DEF Good, Judged
  <2>4. g \in Findings(log) /\ log'[g] = log[g]
    BY <1>1, <1>2, <2>3, InLog
  <2>5. log'[g].worker = log'[q].worker /\ q \in 1..Len(log)
    <3>1. log'[g].worker = log'[log'[g].cause].worker
      BY <1>2, <2>3 DEF Good, Effects
    <3>2. q \in 1..Len(log)
      BY <1>1, <1>2, InLog DEF OpenCalls
    <3> QED
      BY <2>3, <3>1, <3>2
  <2>6. log[g].worker = Gate /\ log[g].cause # 1
    BY <1>1, <1>2, <1>5, <2>3, <2>4, <2>5
  <2>7. GateFindings(log) # {}
    BY <2>4, <2>6 DEF GateFindings
  <2>8. VerdictIn(log) # "none"
    BY <2>7 DEF VerdictIn
  <2> QED
    BY <2>1, <2>8
<1>6. /\ AnswerIn(log', w) = a
      /\ \A v : v # w => AnswerIn(log', v) = AnswerIn(log, v)
      /\ AskedIn(log') = AskedIn(log) /\ VerdictIn(log') = VerdictIn(log)
  BY <1>2, <1>3, <1>4, AnswerAdds
<1>7. a \in {"ok", "error"}
  OBVIOUS
<1> HIDE DEF a, w, e, q
<1> QED
  BY <1>3, <1>4, <1>5, <1>6, <1>7, PromiseAnswers DEF PromiseStep

\* A log holds one verdict, of a gate it asked.
LEMMA OneGateFinding ==
  ASSUME NEW l \in Seq(Events), Good(l), NEW g \in GateFindings(l), NEW h \in GateFindings(l)
  PROVE  g = h /\ Gate \in AskedIn(l)
<1>1. ASSUME NEW f \in GateFindings(l)
      PROVE  f \in Findings(l) /\ l[f].cause \in Requests(l) /\ l[l[f].cause].worker = Gate
  BY DEF Good, Effects, GateFindings
<1>2. Shape(l) /\ OneAnswerIn(l)
  BY DEF Good
<1>3. PICK p \in Requests(l) : p = l[g].cause /\ l[p].worker = Gate
  BY <1>1
<1>4. PICK q \in Requests(l) : q = l[h].cause /\ l[q].worker = Gate
  BY <1>1
<1>5. p = q
  BY <1>2, <1>3, <1>4, AskedOnce
<1>6. g = h
  BY <1>1, <1>3, <1>4, <1>5 DEF Good, OneFinding
<1> QED
  BY <1>3, <1>6 DEF AskedIn

\* A side effect is unseen, or the gate's verdict.
LEMMA FindingKeepsPromise ==
  ASSUME HostInv, Good(log'), NEW e \in Events, e.type = "finding.recorded", e.cause # 1,
         log' = Append(log, e), pc \notin Ended, pc' \notin Ended
  PROVE  PromiseStep
<1>1. /\ log' \in Seq(Events) /\ Prefix(log, log') /\ log \in Seq(Events)
      /\ Requests(log') = Requests(log)
      /\ Findings(log') = Findings(log) \cup {Len(log) + 1}
      /\ log'[Len(log) + 1] = e /\ Len(log) \in Nat
      /\ \A i \in 1..Len(log) : log'[i] = log[i]
  BY FindingMoves, LogTypes
<1>2. /\ AskedIn(log') = AskedIn(log)
      /\ \A w : AnswerIn(log', w) = AnswerIn(log, w)
      /\ e.worker # Gate => VerdictIn(log') = VerdictIn(log)
      /\ e.worker = Gate /\ GateFindings(log) = {} =>
           VerdictIn(log') = IF e.ok THEN "passed" ELSE "failed"
  BY <1>1, FindingAdds
<1>3. CASE e.worker # Gate
  <2>1. StatusOf' = StatusOf
    BY StatusCases
  <2> QED
    BY <1>2, <1>3, <2>1, Stutters DEF PromiseStep
<1>4. CASE e.worker = Gate
  <2>1. Len(log) + 1 \in GateFindings(log')
    BY <1>1, <1>4 DEF GateFindings
  <2>2. Gate \in AskedIn(log')
    BY <1>1, <2>1, OneGateFinding
  <2>3. ASSUME NEW h \in GateFindings(log) PROVE FALSE
    <3>1. h \in Findings(log) /\ log[h].worker = Gate /\ log[h].cause # 1
      BY DEF GateFindings
    <3>2. h \in 1..Len(log) /\ h # Len(log) + 1
      BY <1>1, <3>1, InLog
    <3>3. h \in GateFindings(log')
      BY <1>1, <3>1, <3>2 DEF GateFindings
    <3> QED
      BY <1>1, <2>1, <3>2, <3>3, OneGateFinding
  <2>4. GateFindings(log) = {}
    BY <2>3
  <2>5. VerdictIn(log) = "none"
    BY <2>4 DEF VerdictIn
  <2>6. VerdictIn(log') \in {"passed", "failed"}
    BY <1>2, <1>4, <2>4
  <2> QED
    BY <1>2, <2>2, <2>5, <2>6, PromiseJudges DEF PromiseStep
<1> QED
  BY <1>3, <1>4


\* The first processed event asks for the first wave,
LEMMA FirstAsk ==
  ASSUME log = Seed, log' = Seed \o [k \in 1..N |-> Requested(AgentList[k], 1)],
         HostInv, PlaceInv, PlaceInv', LogInv, ProcessEvent
  PROVE  AskedIn(log) = {} /\ AskedIn(log') = Agents
<1>1. AskedIn(log) = {}
  BY SeedViews
<1>2. log' \in Seq(Events) /\ Shape(log') /\ N \in Nat /\ N >= 1
  BY ProcessMoves, MissionFacts DEF PlaceInv
<1>3. Len(log') = 2 + N
  BY FirstWaveAsked
<1>4. ASSUME NEW k \in 1..N PROVE AgentList[k] \in AskedIn(log')
  <2>1. PICK i \in 1..Len(log') : i \in 3..(2 + N) /\ i - 2 = k
    <3>1. 2 + k \in 3..(2 + N) /\ 2 + k \in 1..Len(log') /\ (2 + k) - 2 = k
      BY <1>2, <1>3
    <3> QED
      BY <3>1
  <2>2. i \in Requests(log') /\ log'[i].worker = AgentList[i - 2]
    BY <1>2, <2>1, ShapeRead
  <2> QED
    BY <2>1, <2>2 DEF AskedIn
<1>5. ASSUME NEW p \in Requests(log') PROVE log'[p].worker \in Agents
  <2>1. p \in 1..Len(log') /\ p \in Nat
    BY <1>2, InLog
  <2>2. ~(p > 3 + N)
    BY <1>2, <1>3, <2>1
  <2> QED
    BY <1>2, <2>2, RequestCases
<1>6. Agents \subseteq AskedIn(log')
  BY <1>4, MissionFacts
<1>7. AskedIn(log') \subseteq Agents
  BY <1>5 DEF AskedIn
<1> QED
  BY <1>1, <1>6, <1>7

\* and a later one for the gate or the synthesizer, or nothing.
LEMMA ProcessKeepsPromise ==
  ASSUME HostInv, HostInv', PlaceInv, PlaceInv', LogInv, ProcessEvent
  PROVE  PromiseStep
<1>1. /\ log' \in Seq(Events) /\ Prefix(log, log') /\ log \in Seq(Events)
      /\ Responses(log') = Responses(log) /\ Findings(log') = Findings(log)
      /\ pc \notin Ended /\ pc' \notin Ended
  BY ProcessMoves, LogTypes DEF Ended
<1>2. /\ Shape(log) /\ OneAnswerIn(log) /\ Shape(log') /\ OneAnswerIn(log')
  BY DEF PlaceInv, HostInv, OneAnswerPerCall
<1>3. VerdictIn(log') = VerdictIn(log) /\ \A w : AnswerIn(log', w) = AnswerIn(log, w)
  BY <1>1, SameViews
<1>4. CASE log = Seed /\ log' = Seed \o [k \in 1..N |-> Requested(AgentList[k], 1)]
  <2>1. AskedIn(log) = {} /\ AskedIn(log') = Agents
    BY <1>4, FirstAsk
  <2> QED
    BY <1>1, <1>3, <2>1, PromiseAsks DEF PromiseStep
<1>5. CASE log' = log
  BY <1>1, <1>5, UnseenStep
<1>6. CASE /\ Len(log) \in Responses(log)
           /\ \E w \in Workers : /\ Wave(log, Len(log)) = <<w>>
                                 /\ log' = Append(log, Requested(w, Len(log)))
  <2>1. PICK w \in Workers : /\ Wave(log, Len(log)) = <<w>>
                             /\ log' = Append(log, Requested(w, Len(log)))
    BY <1>6
  <2> DEFINE n == Len(log)
             m == n + 1
  <2>2. n \in Nat /\ n \in 1..n /\ m \in Nat
    BY <1>1, <1>6, InLog
  <2>3. /\ Len(log') = m /\ log'[m] = Requested(w, n)
        /\ \A i \in 1..n : log'[i] = log[i]
    BY <1>1, <2>1, <2>2, AppendProperties
  <2>4. log'[m].type = "agent.requested" /\ log'[m].worker = w
    BY <2>3 DEF Requested, Event
  <2>5. m \in Requests(log') /\ Requests(log') = Requests(log) \cup {m} /\ m \notin Requests(log)
    <3>1. m \in Requests(log')
      BY <2>2, <2>3, <2>4 DEF Requests
    <3>2. ASSUME NEW i \in Requests(log') PROVE i \in Requests(log) \cup {m}
      <4>1. i \in 1..m /\ log'[i].type = "agent.requested"
        BY <2>3 DEF Requests
      <4>2. i = m \/ i \in 1..n
        BY <2>2, <4>1
      <4> QED
        BY <2>3, <4>1, <4>2 DEF Requests
    <3>3. Requests(log) \subseteq Requests(log') /\ m \notin Requests(log)
      <4>1. Requests(log) \subseteq Requests(log') /\ Requests(log) \subseteq 1..n
        BY <1>1, PrefixEvents
      <4> QED
        BY <2>2, <4>1
    <3> QED
      BY <3>1, <3>2, <3>3
  <2> HIDE DEF m
  <2>6. AskedIn(log') = AskedIn(log) \cup {w}
    <3>1. \A i \in Requests(log) : log'[i] = log[i]
      BY <1>1, <2>3, InLog
    <3> QED
      BY <2>4, <2>5, <3>1 DEF AskedIn
  <2>7. w \notin AskedIn(log)
    <3> SUFFICES ASSUME NEW i \in Requests(log), log[i].worker = w PROVE FALSE
      BY DEF AskedIn
    <3>1. i \in Requests(log') /\ log'[i].worker = log'[m].worker
      BY <1>1, <2>3, <2>4, <2>5, InLog
    <3>2. i = m
      BY <1>1, <1>2, <2>5, <3>1, AskedOnce
    <3> QED
      BY <2>5, <3>2
  <2>8. \/ HasGate /\ w = Gate
        \/ HasSynthesis /\ w = Synthesizer /\ (~HasGate \/ log[n].worker = Gate)
    <3>1. <<w>> # <<>> /\ \A v : <<w>> = <<v>> => w = v
      BY OneOrNone
    <3> QED
      BY <2>1, <3>1, WaveCases
  <2>9. \A v \in Agents : AnswerIn(log, v) # "none"
    <3>1. w \notin Agents
      BY <2>8, MissionFacts
    <3>2. \A v \in Agents : \E j \in Responses(log') : log'[j].worker = v
      BY <1>1, <1>2, <2>4, <2>5, <3>1, AfterReports
    <3> QED
      BY <1>1, <1>2, <1>3, <3>2, AnswerReads
  <2>10. log[n].worker = Gate => AnswerIn(log, Gate) # "none"
    BY <1>1, <1>2, <1>6, AnswerReads
  <2> HIDE DEF n
  <2>11. CASE HasGate /\ w = Gate
    BY <1>1, <1>3, <2>6, <2>7, <2>9, <2>11, PromiseAsks DEF PromiseStep
  <2>12. CASE HasSynthesis /\ w = Synthesizer /\ (~HasGate \/ log[n].worker = Gate)
    BY <1>1, <1>3, <2>6, <2>7, <2>9, <2>10, <2>12, PromiseAsks DEF PromiseStep
  <2> QED
    BY <2>8, <2>11, <2>12
<1> QED
  BY <1>4, <1>5, <1>6, ProcessCases


\* A mission that ends says completed only when that is earned.
LEMMA CompleteKeepsPromise ==
  ASSUME HostInv, PlaceInv, HandInv, NeverSpins, CalmInv, Begun, Good(log'), Complete
  PROVE  PromiseStep
<1>1. /\ log' = Append(log, CompletedEvent) /\ pc \notin Ended /\ pc' = "done"
      /\ reason = "idle"
  BY DEF Complete, CompletedEvent, Ended, Flushing, HostInv, TypeOK, NeverSpins, CalmInv
<1>2. /\ log' \in Seq(Events) /\ log \in Seq(Events) /\ Prefix(log, log')
      /\ Len(log') = Len(log) + 1 /\ log'[Len(log) + 1] = CompletedEvent
      /\ Requests(log') = Requests(log) /\ Responses(log') = Responses(log)
      /\ Answered(log') = Answered(log) /\ Findings(log') = Findings(log)
      /\ Len(log) \in Nat
  BY <1>1, LogTypes, CompletedType, OneMore
<1>3. /\ Shape(log) /\ OneAnswerIn(log)
      /\ Requests(log') \subseteq Answered(log') /\ Len(log') >= 2
      /\ log'[Len(log')].type = "mission.completed"
  <2>1. OpenCalls = {}
    BY <1>1 DEF HandInv, IdlePlace
  <2> QED
    BY <1>2, <2>1, CompletedType DEF OpenCalls, Begun, PlaceInv, HostInv, OneAnswerPerCall
<1>4. /\ AskedIn(log') = AskedIn(log) /\ VerdictIn(log') = VerdictIn(log)
      /\ GateFindings(log') = GateFindings(log)
      /\ \A w : AnswerIn(log', w) = AnswerIn(log, w)
  BY <1>2, SameViews
<1>5. log'[Len(log')].ok <=> MissionOk
  <2>1. ASSUME NEW b PROVE Event("mission.completed", Gate, 0, 0, b, 0).ok = b
    BY DEF Event
  <2>2. log'[Len(log')].ok = MissionOk
    BY <1>2, <2>1, Zenon DEF CompletedEvent
  <2> QED
    BY <2>2, Zenon
<1>6. ASSUME MissionOk
      PROVE  /\ \A w \in Agents : AnswerIn(log, w) = "ok"
             /\ HasGate => VerdictIn(log) = "passed"
  <2>1. ASSUME NEW w \in Agents PROVE AnswerIn(log, w) = "ok"
    <3>1. PICK i \in Responses(log) : log[i].worker = w /\ log[i].ok
      BY <1>6 DEF MissionOk, ReportedOk
    <3> QED
      BY <1>2, <1>3, <3>1, AnswerReads
  <2>2. ASSUME HasGate PROVE VerdictIn(log) = "passed"
    <3>1. GateFindings(log) # {}
      BY <1>2, <1>3, <1>4, <2>2, OneVerdict
    <3>2. ~FailedIn(log)
      BY <1>6 DEF MissionOk, GateFailed, FailedIn
    <3> QED
      BY <3>1, <3>2 DEF VerdictIn
  <2> QED
    BY <2>1, <2>2
<1> QED
  BY <1>1, <1>4, <1>5, <1>6, PromiseFinishes DEF PromiseStep

\* A mission that an exception leaves is raised, with the log as it is.
LEMMA FailKeepsPromise ==
  ASSUME HostInv, Fail
  PROVE  PromiseStep
<1>1. pc \notin Ended /\ pc' = "error" /\ log' = log
  BY DEF Fail, Ended
<1>2. Prefix(log, log') /\ log \in Seq(Events) /\ log' \in Seq(Events)
  BY <1>1, LogTypes, LenProperties DEF Prefix
<1>3. /\ AskedIn(log') = AskedIn(log) /\ VerdictIn(log') = VerdictIn(log)
      /\ \A w : AnswerIn(log', w) = AnswerIn(log, w)
  BY <1>1
<1> QED
  BY <1>1, <1>3, PromiseFinishes DEF PromiseStep

\* A crash takes back requests, never an answer.
LEMMA CrashKeepsPromise ==
  ASSUME HostInv, PlaceInv, HostInv', PlaceInv', Crash
  PROVE  PromiseStep
<1>1. /\ log' \in Seq(Events) /\ log \in Seq(Events) /\ Prefix(log', log)
      /\ \A i \in 1..Len(log) : i > Len(log') => i \in In(pending)
      /\ pc \notin Ended /\ pc' = "crashed"
  BY CrashCut, LogTypes DEF Crash
<1>2. Len(log') \in Nat /\ Len(log) \in Nat
      /\ \A i \in 1..Len(log) : i > Len(log') => i \in Requests(log)
  BY <1>1, LenProperties DEF HostInv, EachCallInOnePlace
<1>3. /\ \A i \in 1..Len(log') : /\ i \in Responses(log') <=> i \in Responses(log)
                                 /\ i \in Findings(log') <=> i \in Findings(log)
      /\ Responses(log') \subseteq Responses(log) /\ Findings(log') \subseteq Findings(log)
  BY <1>1, PrefixEvents
<1>4. ASSUME NEW i \in Responses(log) \cup Findings(log) PROVE i \in 1..Len(log')
  <2>1. i \in 1..Len(log) /\ i \in Nat /\ i \notin Requests(log)
    BY <1>1, InLog DEF Requests, Responses, Findings
  <2> QED
    BY <1>2, <2>1
<1>5. Responses(log') = Responses(log) /\ Findings(log') = Findings(log)
  BY <1>3, <1>4
<1>6. GateFindings(log) = GateFindings(log')
  BY <1>1, <1>5, SameViews
<1>7. /\ AskedIn(log') \subseteq AskedIn(log) /\ VerdictIn(log') = VerdictIn(log)
      /\ \A w : AnswerIn(log', w) = AnswerIn(log, w)
  BY <1>1, <1>5, <1>6, SameViews
<1>8. Shape(log') /\ OneAnswerIn(log')
  BY DEF PlaceInv, HostInv, OneAnswerPerCall
<1>9. \A w \in Workers : AnswerIn(log, w) # "none" => w \in AskedIn(log')
  BY <1>1, <1>7, <1>8, AnswerReads
<1> QED
  BY <1>1, <1>7, <1>9, PromiseCrashes DEF PromiseStep

\* What is emitted again is an answer, a verdict or unseen.
LEMMA ReEmitKeepsPromise ==
  ASSUME HostInv, PlaceInv, GateInv, LogInv, Good(log'), ReEmit
  PROVE  PromiseStep
<1>1. pc \notin Ended /\ pc' \notin Ended
  BY DEF ReEmit, Ended
<1>2. PICK i \in First(window) :
        /\ i \in PlanLeft /\ i \in 1..Len(recorded)
        /\ \/ \E k \in 1..Len(arrived) : Injects(k)
           \/ recorded[i].type = "finding.recorded" /\ log' = Append(log, recorded[i])
  BY ReEmitCases DEF Injects
<1>3. CASE \E k \in 1..Len(arrived) : Injects(k)
  BY <1>1, <1>3, InjectKeepsPromise
<1>4. CASE recorded[i].type = "finding.recorded" /\ log' = Append(log, recorded[i])
  <2>1. recorded[i] \in Events /\ recorded[i].cause # 1
    BY <1>2, PlanLeftMeans, PlanFacts
  <2> QED
    BY <1>1, <1>4, <2>1, FindingKeepsPromise
<1> QED
  BY <1>2, <1>3, <1>4

\* What calls do before they end is unseen, but for a verdict.
LEMMA CallKeepsPromise ==
  ASSUME HostInv, PlaceInv, Good(log'), NEW id \in running, NEW ok \in BOOLEAN,
         WorkerAnswer(id, ok) \/ RunGate(id, ok) \/ WorkerEmit(id) \/ WorkerRaise(id)
  PROVE  PromiseStep
<1>1. /\ pc \notin Ended /\ pc' \notin Ended
      /\ log' \in Seq(Events) /\ Prefix(log, log')
  BY CallMoves DEF Ended
<1>2. \/ log' = log
      \/ \E v \in BOOLEAN : log' = Append(log, Finding(id, v))
  BY DEF WorkerAnswer, RunGate, WorkerEmit, WorkerRaise
<1>3. CASE log' = log
  BY <1>1, <1>3, UnseenStep
<1>4. ASSUME NEW v \in BOOLEAN, log' = Append(log, Finding(id, v))
      PROVE  PromiseStep
  BY <1>1, <1>4, FindingTakes, FindingKeepsPromise
<1> QED
  BY <1>2, <1>3, <1>4

\* Every step of the host loop is a step of the promise, or one that the
\* promise does not see.
LEMMA EveryStepKeepsPromise ==
  ASSUME MissionInv, MissionInv', GateInv, CalmInv, [Next]_vars
  PROVE  PromiseStep
<1>1. /\ HostInv /\ PlaceInv /\ HandInv /\ SyncInv /\ Begun /\ NeverSpins /\ LogInv
      /\ HostInv' /\ PlaceInv' /\ Good(log') /\ log \in Seq(Events)
  BY LogTypes DEF MissionInv, SyncInv, EndInv, LogInv
<1>2. ASSUME log' = log, pc \notin Ended, pc' \notin Ended PROVE PromiseStep
  <2>1. log' \in Seq(Events) /\ Prefix(log, log')
    BY <1>1, <1>2, LenProperties DEF Prefix
  <2> QED
    BY <1>1, <1>2, <2>1, UnseenStep
<1>3. CASE ProcessEvent
  BY <1>1, <1>3, ProcessKeepsPromise
<1>4. CASE Quiesce
  <2>1. /\ log' \in Seq(Events) /\ Idle \in Events /\ Requests(log') = Requests(log)
        /\ Responses(log') = Responses(log) /\ Findings(log') = Findings(log)
    BY <1>1, <1>4, QuiesceCases
  <2>2. Prefix(log, log')
    <3>1. Prefix(log, log)
      BY <1>1, LenProperties DEF Prefix
    <3> QED
      BY <1>1, <1>4, <2>1, <3>1, QuiesceCases, OneMore
  <2>3. pc \notin Ended /\ pc' \notin Ended
    BY <1>4 DEF Quiesce, Ended
  <2> QED
    BY <1>1, <2>1, <2>2, <2>3, UnseenStep
<1>5. CASE InjectArrival
  <2>1. pc \notin Ended /\ pc' \notin Ended
    BY <1>5 DEF InjectArrival, Ended
  <2> QED
    BY <1>1, <1>5, <2>1, ArrivalMoves, InjectKeepsPromise
<1>6. CASE ReEmit
  BY <1>1, <1>6, ReEmitKeepsPromise
<1>7. CASE ObserveStop \/ OpenWindow \/ CloseWindow \/ Await \/ GoIdle \/ Spin \/ Wake
  <2>1. log' = log /\ pc \notin Ended /\ pc' \notin Ended
    BY <1>7 DEF ObserveStop, OpenWindow, CloseWindow, Await, GoIdle, Spin, Wake, Leave, Ended
  <2> QED
    BY <1>2, <2>1
<1>8. CASE Fail \/ Complete
  BY <1>1, <1>8, FailKeepsPromise, CompleteKeepsPromise
<1>9. CASE StartTask
  BY <1>1, <1>2, <1>9, StartMoves DEF Ended
<1>10. CASE Answers \/ \E id \in running : WorkerEmit(id) \/ WorkerRaise(id)
  <2>1. TRUE \in BOOLEAN
    OBVIOUS
  <2> QED
    BY <1>1, <1>10, <2>1, CallKeepsPromise DEF Answers
<1>11. CASE Interrupt
  BY <1>2, <1>11 DEF Interrupt
<1>12. CASE Crash
  BY <1>1, <1>12, CrashKeepsPromise
<1>13. CASE \E m \in LaterModes, edits \in EditSets : Restart(m, edits)
  <2>1. pc \in Ended /\ pc' \notin Ended /\ log' = Seed
    BY <1>13 DEF Restart, Ended
  <2> QED
    BY <2>1, PromiseRetries DEF PromiseStep
<1>14. CASE UNCHANGED vars
  <2>1. log' = log /\ pc' = pc
    BY <1>14 DEF vars
  <2>2. /\ AskedIn(log') = AskedIn(log) /\ VerdictIn(log') = VerdictIn(log)
        /\ \A w : AnswerIn(log', w) = AnswerIn(log, w)
    BY <2>1
  <2>3. StatusOf' = StatusOf
    BY <2>1 DEF StatusOf
  <2> QED
    BY <2>2, <2>3, Stutters DEF PromiseStep
<1> QED
  BY <1>3, <1>4, <1>5, <1>6, <1>7, <1>8, <1>9, <1>10, <1>11, <1>12, <1>13, <1>14
     DEF Next, Loop

\* mission.py and host.py implement the promise of the mission: read off the
\* log, every behaviour of the host loop, over any chain of live, resumed and
\* replayed attempts, is a behaviour of MissionPromise.
THEOREM HostKeepsPromise ==
  ASSUME Unamended, ~MayInterrupt
  PROVE  Spec => KeepsPromise
<1>1. Init => Promise!Init /\ CalmInv /\ GateInv
  <2> SUFFICES ASSUME Init PROVE Promise!Init /\ CalmInv /\ GateInv
    OBVIOUS
  <2>1. GateInv
    <3>1. GateAnswers(log) /\ GateAnswers(recorded)
      BY SeedShape, OneOrNone DEF Init, GateAnswers, Responses
    <3>2. \A k \in 1..Len(arrived) : FALSE
      BY OneOrNone DEF Init
    <3> QED
      BY <3>1, <3>2 DEF GateInv
  <2> QED
    BY <2>1, PromiseBegins, CalmStep
<1>2. CalmInv /\ [Next]_vars => CalmInv'
  BY CalmStep
<1>3. MissionInv /\ GateInv /\ [Next]_vars => GateInv'
  BY GateInvStep DEF MissionInv
<1>4. MissionInv /\ MissionInv' /\ GateInv /\ CalmInv /\ [Next]_vars =>
        [Promise!Next]_(Promise!vars)
  BY EveryStepKeepsPromise DEF PromiseStep
<1> QED
  BY <1>1, <1>2, <1>3, <1>4, MissionInvHolds, PTL DEF Spec, KeepsPromise, Promise!Spec

=============================================================================
