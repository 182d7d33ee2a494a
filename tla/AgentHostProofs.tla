--------------------------- MODULE AgentHostProofs ---------------------------
(***************************************************************************)
(* Proofs about the host loop, for every mission (any agents, with or      *)
(* without gate and synthesis), every width of the dispatcher and every    *)
(* chain of live, resumed and replayed attempts, whatever is amended,      *)
(* interrupted, raised or crashed: its types, that a call is in one place  *)
(* at a time, that no call is answered twice, and the use of the slots.    *)
(***************************************************************************)
EXTENDS AgentHost, SequenceTheorems, FiniteSetTheorems, TLAPS

-----------------------------------------------------------------------------
(***************************************************************************)
(* Sequences of identifiers, and of records that carry one.                *)
(***************************************************************************)
LEMMA FunctionIsSeq ==
  ASSUME NEW S, NEW n \in Nat, NEW f \in [1..n -> S]
  PROVE  f \in Seq(S) /\ Len(f) = n
BY SeqDef

LEMMA AppendIn ==
  ASSUME NEW S, NEW s \in Seq(S), NEW e \in S
  PROVE  /\ Append(s, e) \in Seq(S)
         /\ In(Append(s, e)) = In(s) \cup {e}
         /\ Distinct(s) /\ e \notin In(s) => Distinct(Append(s, e))
<1>1. /\ Append(s, e) \in Seq(S) /\ Len(s) \in Nat
      /\ Len(Append(s, e)) = Len(s) + 1
      /\ \A i \in 1..Len(s) : Append(s, e)[i] = s[i]
      /\ Append(s, e)[Len(s) + 1] = e
  BY AppendProperties, LenProperties
<1>2. 1..(Len(s) + 1) = (1..Len(s)) \cup {Len(s) + 1}
  BY <1>1
<1>3. In(Append(s, e)) = In(s) \cup {e}
  BY <1>1, <1>2 DEF In
<1>4. ASSUME Distinct(s), e \notin In(s)
      PROVE  Distinct(Append(s, e))
  BY <1>1, <1>2, <1>4 DEF Distinct, In
<1> QED
  BY <1>1, <1>3, <1>4

LEMMA TailIn ==
  ASSUME NEW S, NEW s \in Seq(S), s # <<>>
  PROVE  /\ Tail(s) \in Seq(S) /\ Head(s) \in S /\ Head(s) \in In(s)
         /\ In(Tail(s)) \subseteq In(s)
         /\ Distinct(s) => Distinct(Tail(s)) /\ Head(s) \notin In(Tail(s))
<1>1. /\ Tail(s) \in Seq(S) /\ Head(s) \in S /\ Len(s) \in Nat \ {0}
      /\ Len(Tail(s)) = Len(s) - 1
      /\ Head(s) = s[1]
      /\ \A i \in 1..Len(Tail(s)) : Tail(s)[i] = s[i + 1]
  BY HeadTailProperties, EmptySeq, LenProperties
<1>2. \A i \in 1..Len(Tail(s)) : i + 1 \in 1..Len(s) /\ i + 1 # 1
  BY <1>1
<1>3. Head(s) \in In(s) /\ In(Tail(s)) \subseteq In(s)
  BY <1>1, <1>2 DEF In
<1>4. ASSUME Distinct(s)
      PROVE  Distinct(Tail(s)) /\ Head(s) \notin In(Tail(s))
  BY <1>1, <1>2, <1>4 DEF Distinct, In
<1> QED
  BY <1>1, <1>3, <1>4

LEMMA ConcatIn ==
  ASSUME NEW S, NEW s \in Seq(S), NEW t \in Seq(S)
  PROVE  /\ s \o t \in Seq(S)
         /\ In(s \o t) = In(s) \cup In(t)
         /\ Distinct(s) /\ Distinct(t) /\ In(s) \cap In(t) = {} => Distinct(s \o t)
<1>1. /\ s \o t \in Seq(S) /\ Len(s) \in Nat /\ Len(t) \in Nat
      /\ Len(s \o t) = Len(s) + Len(t)
      /\ \A i \in 1..(Len(s) + Len(t)) :
           (s \o t)[i] = IF i <= Len(s) THEN s[i] ELSE t[i - Len(s)]
  BY ConcatProperties, LenProperties
<1>2. \A i \in 1..Len(s \o t) : i \in 1..Len(s) \/ i - Len(s) \in 1..Len(t)
  BY <1>1
<1>3. \A i \in 1..Len(s) : i \in 1..Len(s \o t) /\ (s \o t)[i] = s[i]
  BY <1>1
<1>4. \A i \in 1..Len(t) : /\ i + Len(s) \in 1..Len(s \o t)
                           /\ (s \o t)[i + Len(s)] = t[i]
  BY <1>1
<1>5. In(s \o t) = In(s) \cup In(t)
  <2>1. In(s \o t) \subseteq In(s) \cup In(t)
    BY <1>1, <1>2 DEF In
  <2>2. In(s) \subseteq In(s \o t) /\ In(t) \subseteq In(s \o t)
    BY <1>3, <1>4 DEF In
  <2> QED
    BY <2>1, <2>2
<1>6. ASSUME Distinct(s), Distinct(t), In(s) \cap In(t) = {}
      PROVE  Distinct(s \o t)
  <2> SUFFICES ASSUME NEW i \in 1..Len(s \o t), NEW j \in 1..Len(s \o t),
                      (s \o t)[i] = (s \o t)[j]
               PROVE  i = j
    BY DEF Distinct
  <2>1. \A a \in 1..Len(s), b \in 1..Len(t) : s[a] # t[b]
    BY <1>6 DEF In
  <2>2. i \in Int /\ j \in Int
    BY <1>1
  <2> QED
    BY <1>1, <1>6, <2>1, <2>2 DEF Distinct
<1> QED
  BY <1>1, <1>5, <1>6

Reqs(s) == {s[k].req : k \in 1..Len(s)}
DistinctReqs(s) == \A j, k \in 1..Len(s) : s[j].req = s[k].req => j = k

LEMMA AppendReqs ==
  ASSUME NEW S, NEW s \in Seq(S), NEW e \in S
  PROVE  /\ Append(s, e) \in Seq(S)
         /\ Reqs(Append(s, e)) = Reqs(s) \cup {e.req}
         /\ DistinctReqs(s) /\ e.req \notin Reqs(s) => DistinctReqs(Append(s, e))
<1>1. /\ Append(s, e) \in Seq(S) /\ Len(s) \in Nat
      /\ Len(Append(s, e)) = Len(s) + 1
      /\ \A i \in 1..Len(s) : Append(s, e)[i] = s[i]
      /\ Append(s, e)[Len(s) + 1] = e
  BY AppendProperties, LenProperties
<1>2. 1..(Len(s) + 1) = (1..Len(s)) \cup {Len(s) + 1}
  BY <1>1
<1>3. Reqs(Append(s, e)) = Reqs(s) \cup {e.req}
  BY <1>1, <1>2 DEF Reqs
<1>4. ASSUME DistinctReqs(s), e.req \notin Reqs(s)
      PROVE  DistinctReqs(Append(s, e))
  BY <1>1, <1>2, <1>4 DEF DistinctReqs, Reqs
<1> QED
  BY <1>1, <1>3, <1>4

\* Taking the kth element out.
LEMMA WithoutReqs ==
  ASSUME NEW S, NEW s \in Seq(S), NEW k \in 1..Len(s)
  PROVE  /\ Without(s, k) \in Seq(S) /\ s[k] \in S
         /\ s[k].req \in Reqs(s)
         /\ Reqs(Without(s, k)) \subseteq Reqs(s)
         /\ DistinctReqs(s) => /\ DistinctReqs(Without(s, k))
                               /\ s[k].req \notin Reqs(Without(s, k))
<1>1. Len(s) \in Nat /\ Len(s) - 1 \in Nat /\ \A j \in 1..Len(s) : s[j] \in S
  BY LenProperties, ElementOfSeq
<1> DEFINE from(j) == IF j < k THEN j ELSE j + 1
<1>2. \A j \in 1..(Len(s) - 1) : from(j) \in 1..Len(s) /\ from(j) # k
  BY <1>1
<1>3. \A j \in 1..(Len(s) - 1) : Without(s, k)[j] = s[from(j)]
  BY DEF Without
<1>4. Without(s, k) \in [1..(Len(s) - 1) -> S]
  BY <1>1, <1>2 DEF Without
<1>5. Without(s, k) \in Seq(S) /\ Len(Without(s, k)) = Len(s) - 1
  BY <1>1, <1>4, SeqDef
<1>6. \A i, j \in 1..(Len(s) - 1) : from(i) = from(j) => i = j
  BY <1>1
<1> HIDE DEF from
<1>7. /\ s[k].req \in Reqs(s)
      /\ Reqs(Without(s, k)) \subseteq Reqs(s)
  BY <1>2, <1>3, <1>5 DEF Reqs
<1>8. ASSUME DistinctReqs(s)
      PROVE  DistinctReqs(Without(s, k)) /\ s[k].req \notin Reqs(Without(s, k))
  BY <1>2, <1>3, <1>5, <1>6, <1>8 DEF DistinctReqs, Reqs
<1> QED
  BY <1>1, <1>5, <1>7, <1>8

\* Taking the first element off.
LEMMA TailReqs ==
  ASSUME NEW S, NEW s \in Seq(S), s # <<>>
  PROVE  /\ Tail(s) \in Seq(S) /\ Head(s) \in S
         /\ Head(s).req \in Reqs(s)
         /\ Reqs(Tail(s)) \subseteq Reqs(s)
         /\ DistinctReqs(s) => /\ DistinctReqs(Tail(s))
                               /\ Head(s).req \notin Reqs(Tail(s))
<1>1. /\ Tail(s) \in Seq(S) /\ Head(s) \in S /\ Len(s) \in Nat \ {0}
      /\ Len(Tail(s)) = Len(s) - 1
      /\ Head(s) = s[1]
      /\ \A i \in 1..Len(Tail(s)) : Tail(s)[i] = s[i + 1]
  BY HeadTailProperties, EmptySeq, LenProperties
<1>2. \A i \in 1..Len(Tail(s)) : i + 1 \in 1..Len(s) /\ i + 1 # 1
  BY <1>1
<1>3. Head(s).req \in Reqs(s) /\ Reqs(Tail(s)) \subseteq Reqs(s)
  BY <1>1, <1>2 DEF Reqs
<1>4. ASSUME DistinctReqs(s)
      PROVE  DistinctReqs(Tail(s)) /\ Head(s).req \notin Reqs(Tail(s))
  BY <1>1, <1>2, <1>4 DEF DistinctReqs, Reqs
<1> QED
  BY <1>1, <1>3, <1>4

\* Nothing is in an empty sequence.
LEMMA EmptyIn ==
  /\ In(<<>>) = {} /\ Distinct(<<>>)
  /\ Reqs(<<>>) = {} /\ DistinctReqs(<<>>)
  /\ \A S : <<>> \in Seq(S)
<1>1. Len(<<>>) = 0 /\ 1..0 = {} /\ \A S : <<>> \in Seq(S)
  BY EmptySeq
<1> QED
  BY <1>1 DEF In, Distinct, Reqs, DistinctReqs

-----------------------------------------------------------------------------
(***************************************************************************)
(* The log grows by events appended at its end, and shrinks only to a      *)
(* prefix.                                                                 *)
(***************************************************************************)
LEMMA AppendLog ==
  ASSUME NEW l \in Seq(Events), NEW e \in Events
  PROVE  /\ Append(l, e) \in Seq(Events)
         /\ Len(l) \in Nat /\ Len(Append(l, e)) = Len(l) + 1
         /\ \A i \in 1..Len(l) : Append(l, e)[i] = l[i]
         /\ Append(l, e)[Len(l) + 1] = e
         /\ e.type # "agent.requested" => Requests(Append(l, e)) = Requests(l)
         /\ e.type # "agent.responded" =>
              /\ Responses(Append(l, e)) = Responses(l)
              /\ Answered(Append(l, e)) = Answered(l)
         /\ e.type = "agent.responded" =>
              /\ Responses(Append(l, e)) = Responses(l) \cup {Len(l) + 1}
              /\ Answered(Append(l, e)) = Answered(l) \cup {e.cause}
<1> DEFINE m == Append(l, e)
<1>1. /\ m \in Seq(Events) /\ Len(l) \in Nat /\ Len(m) = Len(l) + 1
      /\ \A i \in 1..Len(l) : m[i] = l[i]
      /\ m[Len(l) + 1] = e
  BY AppendProperties, LenProperties
<1>2. 1..Len(m) = (1..Len(l)) \cup {Len(l) + 1} /\ Len(l) + 1 \notin 1..Len(l)
  BY <1>1
<1> HIDE DEF m
<1>3. e.type # "agent.requested" => Requests(m) = Requests(l)
  BY <1>1, <1>2 DEF Requests
<1>4. e.type # "agent.responded" => Responses(m) = Responses(l)
  BY <1>1, <1>2 DEF Responses
<1>5. e.type = "agent.responded" => Responses(m) = Responses(l) \cup {Len(l) + 1}
  BY <1>1, <1>2 DEF Responses
<1>6. \A i \in Responses(l) : m[i] = l[i]
  BY <1>1 DEF Responses
<1>7. e.type # "agent.responded" => Answered(m) = Answered(l)
  BY <1>4, <1>6 DEF Answered
<1>8. e.type = "agent.responded" => Answered(m) = Answered(l) \cup {e.cause}
  BY <1>1, <1>5, <1>6 DEF Answered
<1> QED
  BY <1>1, <1>3, <1>4, <1>5, <1>7, <1>8 DEF m

\* A wave of requests at the end of the log.
LEMMA AppendWave ==
  ASSUME NEW l \in Seq(Events), NEW t \in Seq(Events),
         \A k \in 1..Len(t) : t[k].type = "agent.requested"
  PROVE  /\ l \o t \in Seq(Events)
         /\ Len(l) \in Nat /\ Len(t) \in Nat /\ Len(l \o t) = Len(l) + Len(t)
         /\ \A i \in 1..Len(l) : (l \o t)[i] = l[i]
         /\ Requests(l \o t) = Requests(l) \cup {Len(l) + k : k \in 1..Len(t)}
         /\ Responses(l \o t) = Responses(l)
         /\ Answered(l \o t) = Answered(l)
<1> DEFINE m == l \o t
<1>1. /\ m \in Seq(Events) /\ Len(l) \in Nat /\ Len(t) \in Nat
      /\ Len(m) = Len(l) + Len(t)
      /\ \A i \in 1..(Len(l) + Len(t)) :
           m[i] = IF i <= Len(l) THEN l[i] ELSE t[i - Len(l)]
  BY ConcatProperties, LenProperties
<1>2. /\ \A i \in 1..Len(m) : i \in 1..Len(l) \/ i - Len(l) \in 1..Len(t)
      /\ \A i \in 1..Len(l) : i \in 1..Len(m) /\ m[i] = l[i]
      /\ \A k \in 1..Len(t) : Len(l) + k \in 1..Len(m) /\ m[Len(l) + k] = t[k]
      /\ \A i \in Int : Len(l) + (i - Len(l)) = i
  BY <1>1
<1>3. "agent.requested" # "agent.responded"
  OBVIOUS
<1> HIDE DEF m
<1>4. Requests(m) = Requests(l) \cup {Len(l) + k : k \in 1..Len(t)}
  <2>1. \A i \in Requests(m) : i \in 1..Len(m) /\ i \in Int
    BY DEF Requests
  <2>2. Requests(m) \subseteq Requests(l) \cup {Len(l) + k : k \in 1..Len(t)}
    BY <1>2, <2>1 DEF Requests
  <2>3. Requests(l) \subseteq Requests(m)
    BY <1>2 DEF Requests
  <2>4. \A k \in 1..Len(t) : Len(l) + k \in Requests(m)
    BY <1>2 DEF Requests
  <2> QED
    BY <2>2, <2>3, <2>4
<1>5. Responses(m) = Responses(l)
  <2>1. \A i \in 1..Len(m) : i \notin 1..Len(l) => m[i].type # "agent.responded"
    <3> SUFFICES ASSUME NEW i \in 1..Len(m), i \notin 1..Len(l)
                 PROVE  m[i].type # "agent.responded"
      OBVIOUS
    <3>1. i - Len(l) \in 1..Len(t) /\ m[Len(l) + (i - Len(l))] = t[i - Len(l)]
      BY <1>2
    <3>2. Len(l) + (i - Len(l)) = i
      BY <1>1
    <3> QED
      BY <1>3, <3>1, <3>2
  <2> QED
    BY <1>2, <2>1 DEF Responses
<1>6. Answered(m) = Answered(l)
  BY <1>2, <1>5 DEF Answered, Responses
<1> QED
  BY <1>1, <1>2, <1>4, <1>5, <1>6 DEF m

\* A prefix of the log.
LEMMA PrefixLog ==
  ASSUME NEW l \in Seq(Events), NEW n \in 0..Len(l)
  PROVE  /\ SubSeq(l, 1, n) \in Seq(Events)
         /\ Len(SubSeq(l, 1, n)) = n
         /\ \A i \in 1..n : SubSeq(l, 1, n)[i] = l[i]
<1>1. Len(l) \in Nat /\ n \in Nat
  BY LenProperties
<1>2. \A i \in 1..n : i \in 1..Len(l)
  BY <1>1
<1>3. \A i \in 1..n : l[i] \in Events
  BY <1>2, ElementOfSeq
<1> QED
  BY <1>1, <1>3, SubSeqProperties

-----------------------------------------------------------------------------
(***************************************************************************)
(* What the loop makes is well typed.                                      *)
(***************************************************************************)
LEMMA WorkersFacts ==
  /\ Gate \in Workers /\ Synthesizer \in Workers /\ Agents \subseteq Workers
  /\ AgentList \in Seq(Workers)
<1>1. Gate \in Workers /\ Synthesizer \in Workers /\ Agents \subseteq Workers
  BY DEF Workers
<1>2. AgentList \in Seq(STRING)
  BY AgentsAssumption
<1>3. /\ Len(AgentList) \in Nat
      /\ AgentList \in [1..Len(AgentList) -> STRING]
  BY <1>2, LenProperties
<1>4. \A k \in 1..Len(AgentList) : AgentList[k] \in Workers
  BY <1>1 DEF Agents
<1>5. AgentList \in [1..Len(AgentList) -> Workers]
  BY <1>3, <1>4
<1> QED
  BY <1>1, <1>3, <1>5, SeqDef

LEMMA ReactionType ==
  ASSUME NEW i \in 1..Len(log)
  PROVE  Reaction(i) \in Seq(Workers)
<1>1. <<>> \in Seq(Workers) /\ <<Gate>> \in Seq(Workers)
      /\ <<Synthesizer>> \in Seq(Workers) /\ AgentList \in Seq(Workers)
  BY WorkersFacts, EmptySeq
<1>2. SynthesisWave \in Seq(Workers) /\ AfterLastReport \in Seq(Workers)
  BY <1>1 DEF SynthesisWave, AfterLastReport
<1> HIDE DEF SynthesisWave, AfterLastReport
<1> QED
  BY <1>1, <1>2 DEF Reaction

LEMMA EventType ==
  ASSUME NEW type \in EventTypes, NEW w \in Workers, NEW cause \in Nat,
         NEW ver \in Nat, NEW ok \in BOOLEAN, NEW by \in Nat
  PROVE  /\ Event(type, w, cause, ver, ok, by) \in Events
         /\ Event(type, w, cause, ver, ok, by).type = type
         /\ Event(type, w, cause, ver, ok, by).worker = w
         /\ Event(type, w, cause, ver, ok, by).cause = cause
BY DEF Event, Events

LEMMA TypesOfEvents ==
  /\ "agent.responded" \in EventTypes /\ "finding.recorded" \in EventTypes
  /\ "mission.started" \in EventTypes /\ "agent.requested" \in EventTypes
  /\ "runtime.idle" \in EventTypes /\ "mission.completed" \in EventTypes
BY DEF EventTypes, InjectedTypes

LEMMA SeedType ==
  /\ Seed \in Seq(Events)
  /\ Requests(Seed) = {} /\ Responses(Seed) = {} /\ Answered(Seed) = {}
<1>1. Started \in Events /\ Fact \in Events
      /\ Started.type = "mission.started" /\ Fact.type = "finding.recorded"
  BY TypesOfEvents, WorkersFacts DEF Started, Fact, Event, Events
<1>2. Seed \in Seq(Events) /\ Len(Seed) = 2 /\ Seed[1] = Started /\ Seed[2] = Fact
  BY <1>1 DEF Seed
<1>3. 1..2 = {1, 2}
  OBVIOUS
<1>4. Requests(Seed) = {} /\ Responses(Seed) = {}
  BY <1>1, <1>2, <1>3 DEF Requests, Responses
<1> QED
  BY <1>2, <1>4 DEF Answered

LEMMA RequestIds ==
  ASSUME log \in Seq(Events)
  PROVE  /\ \A id \in Requests(log) : /\ id \in Nat /\ id \in 1..Len(log)
                                      /\ log[id] \in Events
                                      /\ log[id].worker \in Workers
         /\ Len(log) \in Nat
<1>1. Len(log) \in Nat /\ \A i \in 1..Len(log) : log[i] \in Events
  BY LenProperties, ElementOfSeq
<1> QED
  BY <1>1 DEF Requests, Events

\* The event that injects a completion in hand.
LEMMA ResponseType ==
  ASSUME TypeOK, NEW c \in Completions, c.req \in Requests(log)
  PROVE  /\ Response(c) \in Events
         /\ Response(c).type = "agent.responded"
         /\ Response(c).worker = log[c.req].worker
         /\ Response(c).cause = c.req
<1>1. /\ log[c.req].worker \in Workers /\ c.req \in Nat
      /\ c.ok \in BOOLEAN /\ c.by \in Nat
  BY RequestIds DEF TypeOK, Completions
<1> QED
  BY <1>1, TypesOfEvents DEF Response, Event, Events

-----------------------------------------------------------------------------
(***************************************************************************)
(* The inductive invariant.  A call is in one place and unanswered, so its *)
(* answer is the first; and because every identifier in hand names a       *)
(* request, what is injected is well typed.                                *)
(***************************************************************************)
WindowIsPlanned ==
  window \subseteq {i \in 1..Len(recorded) : recorded[i].type \in InjectedTypes}

HostInv == TypeOK /\ WindowIsPlanned /\ EachCallInOnePlace /\ OneAnswerPerCall

LEMMA HostInvInit == Init => HostInv
<1> SUFFICES ASSUME Init PROVE HostInv
  OBVIOUS
<1>1. TypeOK
  <2>1. \A w \in Workers : version[w] \in Nat
    BY DEF Init
  <2>2. version \in [Workers -> Nat]
    BY DEF Init
  <2> QED
    BY <2>2, EmptyIn, SeedType DEF Init, TypeOK, Ended
<1>2. WindowIsPlanned
  BY DEF Init, WindowIsPlanned
<1>3. EachCallInOnePlace
  <2>1. ArrivedIds = {}
    BY EmptyIn DEF Init, ArrivedIds, Reqs
  <2>2. \A j, k \in 1..Len(arrived) : arrived[j].req = arrived[k].req => j = k
    BY EmptyIn DEF Init, DistinctReqs
  <2> QED
    BY <2>1, <2>2, EmptyIn DEF Init, EachCallInOnePlace
<1>4. OneAnswerPerCall
  BY SeedType DEF Init, OneAnswerPerCall, OneAnswerIn
<1> QED
  BY <1>1, <1>2, <1>3, <1>4 DEF HostInv

LEMMA InHand == ArrivedIds = Reqs(arrived)
BY DEF ArrivedIds, Reqs

-----------------------------------------------------------------------------
(***************************************************************************)
(* Types: one lemma per group of actions.                                  *)
(***************************************************************************)
TypeInv == TypeOK /\ WindowIsPlanned

LEMMA InHandIsRequested ==
  ASSUME HostInv
  PROVE  /\ \A k \in 1..Len(arrived) : arrived[k].req \in Requests(log)
         /\ running \subseteq Requests(log)
         /\ log \in Seq(Events) /\ Len(log) \in Nat
BY RequestIds, InHand DEF HostInv, TypeOK, EachCallInOnePlace, Reqs

LEMMA RequestedType ==
  ASSUME TypeOK, NEW w \in Workers, NEW cause \in Nat
  PROVE  /\ Requested(w, cause) \in Events
         /\ Requested(w, cause).type = "agent.requested"
<1>1. version[w] \in Nat
  BY DEF TypeOK
<1> QED
  BY <1>1, TypesOfEvents DEF Requested, Event, Events

LEMMA RuntimeType ==
  ASSUME HostInv, ProcessEvent \/ Quiesce
  PROVE  TypeInv'
<1> USE DEF HostInv, TypeInv, TypeOK, WindowIsPlanned, identity, tasks
<1>0. Len(log) \in Nat
  BY LenProperties
<1>1. CASE ProcessEvent
  <2> DEFINE wave == Reaction(cursor + 1)
             new == [k \in 1..Len(wave) |-> Requested(wave[k], cursor + 1)]
             ids == [k \in 1..Len(wave) |-> Len(log) + k]
  <2>1. cursor + 1 \in 1..Len(log)
    BY <1>0, <1>1 DEF ProcessEvent
  <2>2. wave \in Seq(Workers) /\ Len(wave) \in Nat
    BY <2>1, ReactionType, LenProperties
  <2>3. \A k \in 1..Len(wave) : wave[k] \in Workers
    BY <2>2, ElementOfSeq
  <2>4. new \in Seq(Events) /\ ids \in Seq(Nat)
    <3> HIDE DEF wave
    <3>1. cursor + 1 \in Nat
      OBVIOUS
    <3>2. \A k \in 1..Len(wave) : Requested(wave[k], cursor + 1) \in Events
      BY <2>3, <3>1, RequestedType
    <3>3. \A k \in 1..Len(wave) : Len(log) + k \in Nat
      BY <1>0, <2>2
    <3>4. new \in [1..Len(wave) -> Events]
      BY <3>2
    <3>5. ids \in [1..Len(wave) -> Nat]
      BY <3>3
    <3> HIDE DEF new, ids
    <3> QED
      BY <2>2, <3>4, <3>5, FunctionIsSeq
  <2>5. log' = log \o new /\ pending' = pending \o ids /\ cursor' \in Nat
    BY <1>1 DEF ProcessEvent
  <2> HIDE DEF new, ids, wave
  <2>6. log' \in Seq(Events) /\ pending' \in Seq(Nat)
    BY <2>4, <2>5, ConcatProperties
  <2> QED
    BY <1>1, <2>5, <2>6 DEF ProcessEvent, Ended
<1>2. CASE Quiesce
  <2>1. Idle \in Events
    BY TypesOfEvents, WorkersFacts DEF Idle, Event, Events
  <2>2. log' \in Seq(Events)
    BY <1>2, <2>1, AppendLog DEF Quiesce
  <2>3. cursor' \in Nat
    BY <1>2, <2>2, LenProperties DEF Quiesce
  <2>4. fresh' \in Seq(Nat) /\ pending' \in Seq(Nat)
    BY <1>2, ConcatProperties, EmptyIn DEF Quiesce
  <2> QED
    BY <1>2, <2>2, <2>3, <2>4 DEF Quiesce, Ended
<1> QED
  BY <1>1, <1>2

LEMMA InjectionType ==
  ASSUME HostInv, InjectArrival \/ OpenWindow \/ ReEmit \/ CloseWindow
  PROVE  TypeInv'
<1> USE DEF HostInv, TypeInv, TypeOK, WindowIsPlanned, identity, tasks
<1>1. CASE InjectArrival
  <2>1. arrived # <<>>
    BY <1>1 DEF InjectArrival, CanInjectArrival
  <2>2. Head(arrived) \in Completions /\ Tail(arrived) \in Seq(Completions)
        /\ Head(arrived).req \in Requests(log)
    BY <2>1, TailReqs, InHand DEF EachCallInOnePlace
  <2>3. Response(Head(arrived)) \in Events
    BY <2>2, ResponseType
  <2> QED
    BY <1>1, <2>2, <2>3, AppendLog DEF InjectArrival, Ended
<1>2. CASE OpenWindow
  <2>1. PICK k \in First(PlanLeft) : window' = Window(k)
    BY <1>2 DEF OpenWindow
  <2>2. Len(recorded) \in Nat
    BY LenProperties
  <2>3. \A i \in PlanLeft : i \in Nat /\ i \in 1..Len(recorded) /\ Planned(i)
    BY <2>2 DEF PlanLeft
  <2>4. window' \subseteq {i \in 1..Len(recorded) : recorded[i].type \in InjectedTypes}
    BY <2>1, <2>3 DEF Window, Planned
  <2> QED
    BY <1>2, <2>4 DEF OpenWindow, Ended
<1>3. CASE ReEmit
  <2>1. PICK i \in First(window) :
          /\ planAt' = i /\ window' = window \ {i}
          /\ \/ /\ recorded[i].type = "agent.responded"
                /\ \E k \in First({j \in 1..Len(arrived) :
                                     arrived[j].req = recorded[i].cause}) :
                     /\ log' = Append(log, Response(arrived[k]))
                     /\ arrived' = Without(arrived, k)
             \/ /\ log' = Append(log, recorded[i])
                /\ UNCHANGED arrived
    BY <1>3 DEF ReEmit
  <2>2. i \in 1..Len(recorded) /\ recorded[i] \in Events /\ i \in Nat
    BY <2>1, ElementOfSeq DEF First
  <2>3. ASSUME NEW k \in 1..Len(arrived),
               log' = Append(log, Response(arrived[k])),
               arrived' = Without(arrived, k)
        PROVE  log' \in Seq(Events) /\ arrived' \in Seq(Completions)
    <3>1. arrived[k] \in Completions /\ Without(arrived, k) \in Seq(Completions)
      BY WithoutReqs
    <3>2. Response(arrived[k]) \in Events
      BY <3>1, ResponseType, InHandIsRequested
    <3> QED
      BY <2>3, <3>1, <3>2, AppendLog
  <2>4. log' \in Seq(Events) /\ arrived' \in Seq(Completions)
    <3>1. Append(log, recorded[i]) \in Seq(Events)
      BY <2>2, AppendLog
    <3>2. \A S : First(S) \subseteq S
      BY DEF First
    <3> QED
      BY <2>1, <2>3, <3>1, <3>2
  <2> QED
    BY <1>3, <2>1, <2>2, <2>4 DEF ReEmit
<1>4. CASE CloseWindow
  BY <1>4 DEF CloseWindow, Ended
<1> QED
  BY <1>1, <1>2, <1>3, <1>4

LEMMA ControlType ==
  ASSUME HostInv, \/ ObserveStop \/ Await \/ GoIdle \/ Spin \/ Wake
                  \/ Fail \/ Complete
  PROVE  TypeInv'
<1> USE DEF HostInv, TypeInv, TypeOK, WindowIsPlanned, identity, tasks
<1>1. ASSUME NEW why \in {"until", "idle", "max_quanta", "raised"}, Leave(why)
      PROVE  /\ reason' \in {"none", "until", "idle", "max_quanta", "raised"}
             /\ pc' = "check" /\ fresh' \in Seq(Nat) /\ queued' \in Seq(Nat)
             /\ running' \in SUBSET Nat
  BY <1>1, EmptyIn DEF Leave
<1>2. CASE ObserveStop
  BY <1>1, <1>2 DEF ObserveStop
<1>3. CASE Await
  BY <1>3 DEF Await
<1>4. CASE GoIdle
  BY <1>1, <1>4 DEF GoIdle
<1>5. CASE Spin
  BY <1>1, <1>5 DEF Spin
<1>6. CASE Wake
  BY <1>1, <1>6 DEF Wake
<1>7. CASE Fail
  BY <1>7 DEF Fail, Ended
<1>8. CASE Complete
  <2>1. MissionOk \in BOOLEAN
    BY DEF MissionOk, GateFailed
  <2>2. Event("mission.completed", Gate, 0, 0, MissionOk, 0) \in Events
    BY <2>1, EventType, TypesOfEvents, WorkersFacts
  <2>3. log' \in Seq(Events)
    BY <1>8, <2>2, AppendLog DEF Complete
  <2> QED
    BY <1>8, <2>3 DEF Complete, Ended
<1> QED
  BY <1>2, <1>3, <1>4, <1>5, <1>6, <1>7, <1>8

LEMMA ReleaseType ==
  ASSUME NEW id, queued \in Seq(Nat), running \in SUBSET Nat, ReleaseSlot(id)
  PROVE  queued' \in Seq(Nat) /\ running' \in SUBSET Nat
<1>1. CASE queued = <<>>
  BY <1>1 DEF ReleaseSlot
<1>2. CASE queued # <<>>
  <2>1. Tail(queued) \in Seq(Nat) /\ Head(queued) \in Nat
    BY <1>2, TailIn
  <2> QED
    BY <1>2, <2>1 DEF ReleaseSlot
<1> QED
  BY <1>1, <1>2

LEMMA ArriveType ==
  ASSUME arrived \in Seq(Completions), NEW id \in Nat, NEW ok \in BOOLEAN,
         NEW by \in Nat, Arrive(id, ok, by)
  PROVE  arrived' \in Seq(Completions) /\ woken' \in BOOLEAN
<1>1. [req |-> id, ok |-> ok, by |-> by] \in Completions
  BY DEF Completions
<1>2. arrived' = Append(arrived, [req |-> id, ok |-> ok, by |-> by]) /\ woken' = TRUE
  BY DEF Arrive
<1> QED
  BY <1>1, <1>2, AppendReqs

LEMMA FindingType ==
  ASSUME HostInv, NEW id \in Requests(log), NEW verdict \in BOOLEAN
  PROVE  /\ Finding(id, verdict) \in Events
         /\ Finding(id, verdict).type = "finding.recorded"
<1>1. id \in Nat /\ log[id].worker \in Workers /\ attempt \in Nat
  BY RequestIds DEF HostInv, TypeOK
<1> QED
  BY <1>1, TypesOfEvents DEF Finding, Event, Events

LEMMA StartType ==
  ASSUME HostInv, StartTask
  PROVE  TypeInv'
<1> USE DEF HostInv, TypeInv, TypeOK, WindowIsPlanned, identity
<1> DEFINE id == Head(fresh)
           hits == Recordings(id)
<1>1. id \in Nat /\ fresh' \in Seq(Nat)
  BY TailIn DEF StartTask
<1>2. ASSUME NEW i \in Last(hits), Arrive(id, recorded[i].ok, recorded[i].by)
      PROVE  arrived' \in Seq(Completions) /\ woken' \in BOOLEAN
  <2>1. i \in 1..Len(recorded)
    BY DEF Last, Recordings, Responses
  <2>2. recorded[i].ok \in BOOLEAN /\ recorded[i].by \in Nat
    <3>1. recorded[i] \in Events
      BY <2>1, ElementOfSeq
    <3> QED
      BY <3>1 DEF Events
  <2> DEFINE c == [req |-> id, ok |-> recorded[i].ok, by |-> recorded[i].by]
  <2>3. c \in Completions
    BY <1>1, <2>2 DEF Completions
  <2>4. arrived' = Append(arrived, c) /\ woken' = TRUE
    BY <1>2 DEF Arrive
  <2> HIDE DEF c
  <2> QED
    BY <2>3, <2>4, AppendReqs
<1>3. CASE /\ \E i \in Last(hits) : Arrive(id, recorded[i].ok, recorded[i].by)
           /\ UNCHANGED <<queued, running, raised>>
  BY <1>1, <1>2, <1>3 DEF StartTask, Ended
<1>4. CASE /\ raised' = TRUE /\ woken' = TRUE
           /\ UNCHANGED <<queued, running, arrived>>
  BY <1>1, <1>4 DEF StartTask, Ended
<1>5. CASE /\ running' = running \cup {id}
           /\ UNCHANGED <<queued, arrived, woken, raised>>
  BY <1>1, <1>5 DEF StartTask, Ended
<1>6. CASE /\ queued' = Append(queued, id)
           /\ UNCHANGED <<running, arrived, woken, raised>>
  BY <1>1, <1>6, AppendIn DEF StartTask, Ended
<1> QED
  BY <1>3, <1>4, <1>5, <1>6 DEF StartTask

LEMMA AnswerType ==
  ASSUME HostInv, NEW id \in running, NEW ok \in BOOLEAN,
         \/ WorkerAnswer(id, ok) \/ RunGate(id, ok)
         \/ WorkerEmit(id) \/ WorkerRaise(id)
  PROVE  TypeInv'
<1> USE DEF HostInv, TypeInv, TypeOK, WindowIsPlanned, identity, tasks
<1>1. id \in Requests(log) /\ id \in Nat
  BY InHandIsRequested
<1>2. CASE WorkerAnswer(id, ok)
  <2>1. arrived' \in Seq(Completions) /\ woken' \in BOOLEAN
    <3>1. Arrive(id, ok, attempt)
      BY <1>2 DEF WorkerAnswer
    <3> QED
      BY <1>1, <3>1, ArriveType
  <2>2. queued' \in Seq(Nat) /\ running' \in SUBSET Nat
    BY <1>2, ReleaseType DEF WorkerAnswer
  <2> QED
    BY <1>2, <2>1, <2>2 DEF WorkerAnswer, Ended
<1>3. CASE RunGate(id, ok)
  <2>1. arrived' \in Seq(Completions) /\ woken' \in BOOLEAN
    BY <1>1, <1>3, ArriveType DEF RunGate
  <2>2. queued' \in Seq(Nat) /\ running' \in SUBSET Nat
    BY <1>3, ReleaseType DEF RunGate
  <2>3. log' \in Seq(Events)
    BY <1>1, <1>3, FindingType, AppendLog DEF RunGate
  <2> QED
    BY <1>3, <2>1, <2>2, <2>3 DEF RunGate, Ended
<1>4. CASE WorkerEmit(id)
  <2>1. log' \in Seq(Events)
    BY <1>1, <1>4, FindingType, AppendLog DEF WorkerEmit
  <2> QED
    BY <1>4, <2>1 DEF WorkerEmit, Ended
<1>5. CASE WorkerRaise(id)
  <2>1. queued' \in Seq(Nat) /\ running' \in SUBSET Nat
    BY <1>5, ReleaseType DEF WorkerRaise
  <2> QED
    BY <1>5, <2>1 DEF WorkerRaise, Ended
<1> QED
  BY <1>2, <1>3, <1>4, <1>5

LEMMA WorldType ==
  ASSUME HostInv, \/ Interrupt \/ Crash
                  \/ \E m \in LaterModes, edits \in EditSets : Restart(m, edits)
  PROVE  TypeInv'
<1> USE DEF HostInv, TypeInv, TypeOK, WindowIsPlanned, identity, tasks
<1>1. ASSUME Forget
      PROVE  /\ reason' = "none" /\ cursor' \in Nat /\ pending' \in Seq(Nat)
             /\ fresh' \in Seq(Nat) /\ queued' \in Seq(Nat)
             /\ running' \in SUBSET Nat /\ arrived' \in Seq(Completions)
             /\ woken' \in BOOLEAN /\ raised' \in BOOLEAN /\ planAt' \in Nat
             /\ window' = {} /\ stop' \in BOOLEAN
  BY <1>1, EmptyIn DEF Forget
<1>2. CASE Interrupt
  BY <1>2 DEF Interrupt, Ended
<1>3. CASE Crash
  <2>1. PICK lost \in 0..Len(pending) : log' = SubSeq(log, 1, Len(log) - lost)
    BY <1>3 DEF Crash
  <2>2. Len(log) \in Nat /\ lost \in Nat
    BY LenProperties
  <2>3. log' \in Seq(Events)
    <3>1. \A i \in 1..(Len(log) - lost) : i \in 1..Len(log)
      BY <2>2
    <3>2. \A i \in 1..(Len(log) - lost) : log[i] \in Events
      BY <3>1, ElementOfSeq
    <3> QED
      BY <2>1, <2>2, <3>2, SubSeqProperties
  <2> QED
    BY <1>1, <1>3, <2>3 DEF Crash, Ended
<1>4. ASSUME NEW m \in LaterModes, NEW edits \in EditSets, Restart(m, edits)
      PROVE  TypeInv'
  <2>1. m \in {"live", "resume", "replay"}
    BY BoundsAssumption
  <2>2. version' \in [Workers -> Nat] /\ attempt' \in Nat
    BY <1>4 DEF Restart
  <2> QED
    BY <1>1, <1>4, <2>1, <2>2, SeedType DEF Restart
<1> QED
  BY <1>2, <1>3, <1>4

\* Every step keeps the types, given that what is in hand is requested.
LEMMA TypeStep ==
  ASSUME HostInv, [Next]_vars
  PROVE  TypeInv'
<1>1. CASE Loop
  BY <1>1, RuntimeType, InjectionType, ControlType DEF Loop
<1>2. CASE StartTask
  BY <1>2, StartType
<1>3. CASE Answers
  BY <1>3, AnswerType DEF Answers
<1>4. CASE \E id \in running : WorkerEmit(id) \/ WorkerRaise(id)
  BY <1>4, AnswerType
<1>5. CASE \/ Interrupt \/ Crash
           \/ \E m \in LaterModes, edits \in EditSets : Restart(m, edits)
  BY <1>5, WorldType
<1>6. CASE UNCHANGED vars
  BY <1>6 DEF vars, HostInv, TypeInv, TypeOK, WindowIsPlanned
<1> QED
  BY <1>1, <1>2, <1>3, <1>4, <1>5, <1>6 DEF Next

-----------------------------------------------------------------------------
(***************************************************************************)
(* A call is answered once: what appending an event does to that.          *)
(***************************************************************************)
LEMMA OtherKeepsOneAnswer ==
  ASSUME NEW l \in Seq(Events), NEW e \in Events, OneAnswerIn(l),
         e.type \notin {"agent.requested", "agent.responded"}
  PROVE  OneAnswerIn(Append(l, e))
<1> DEFINE m == Append(l, e)
<1>1. /\ Requests(m) = Requests(l) /\ Responses(m) = Responses(l)
      /\ \A i \in 1..Len(l) : m[i] = l[i]
  BY AppendLog
<1>2. \A i \in Responses(l) \cup Requests(l) : m[i] = l[i]
  BY <1>1 DEF Responses, Requests
<1> HIDE DEF m
<1>3. \A i \in Responses(l) : m[m[i].cause] = l[l[i].cause]
  BY <1>2 DEF OneAnswerIn
<1> QED
  BY <1>1, <1>2, <1>3 DEF OneAnswerIn, m

LEMMA WaveKeepsOneAnswer ==
  ASSUME NEW l \in Seq(Events), NEW t \in Seq(Events), OneAnswerIn(l),
         \A k \in 1..Len(t) : t[k].type = "agent.requested"
  PROVE  OneAnswerIn(l \o t)
<1> DEFINE m == l \o t
<1>1. /\ Requests(l) \subseteq Requests(m) /\ Responses(m) = Responses(l)
      /\ \A i \in 1..Len(l) : m[i] = l[i]
  BY AppendWave
<1>2. \A i \in Responses(l) \cup Requests(l) : m[i] = l[i]
  BY <1>1 DEF Responses, Requests
<1> HIDE DEF m
<1>3. \A i \in Responses(l) : m[m[i].cause] = l[l[i].cause]
  BY <1>2 DEF OneAnswerIn
<1> QED
  BY <1>1, <1>2, <1>3 DEF OneAnswerIn, m

LEMMA FirstAnswerKeepsOneAnswer ==
  ASSUME NEW l \in Seq(Events), NEW e \in Events, OneAnswerIn(l),
         e.type = "agent.responded",
         e.cause \in Requests(l) \ Answered(l),
         e.worker = l[e.cause].worker
  PROVE  OneAnswerIn(Append(l, e))
<1> DEFINE m == Append(l, e)
           n == Len(l) + 1
<1>1. /\ Len(l) \in Nat /\ Requests(m) = Requests(l)
      /\ Responses(m) = Responses(l) \cup {n}
      /\ \A i \in 1..Len(l) : m[i] = l[i]
      /\ m[n] = e
  BY AppendLog
<1>2. /\ \A i \in Responses(l) \cup Requests(l) : m[i] = l[i] /\ i < n
      /\ n \notin Responses(l)
  BY <1>1 DEF Responses, Requests
<1> HIDE DEF m, n
<1>3. \A i \in Responses(l) : m[m[i].cause] = l[l[i].cause]
  BY <1>2 DEF OneAnswerIn
<1>4. \A i \in Responses(l) : l[i].cause # e.cause
  BY DEF Answered
<1>5. ASSUME NEW i \in Responses(l)
      PROVE  /\ m[i].cause \in Requests(m) /\ m[i].cause < i
             /\ m[m[i].cause].worker = m[i].worker
             /\ \A j \in Responses(m) : m[j].cause = m[i].cause => j = i
  BY <1>1, <1>2, <1>3, <1>4 DEF OneAnswerIn
<1>6. /\ m[n].cause \in Requests(m) /\ m[n].cause < n
      /\ m[m[n].cause].worker = m[n].worker
      /\ \A j \in Responses(m) : m[j].cause = m[n].cause => j = n
  BY <1>1, <1>2, <1>4
<1>7. OneAnswerIn(m)
  BY <1>1, <1>5, <1>6 DEF OneAnswerIn
<1> QED
  BY <1>7 DEF m

LEMMA PrefixKeepsOneAnswer ==
  ASSUME NEW l \in Seq(Events), NEW n \in 0..Len(l), OneAnswerIn(l)
  PROVE  OneAnswerIn(SubSeq(l, 1, n))
<1> DEFINE m == SubSeq(l, 1, n)
<1>1. Len(l) \in Nat /\ Len(m) = n /\ \A i \in 1..n : m[i] = l[i] /\ i \in 1..Len(l)
  BY PrefixLog, LenProperties
<1> HIDE DEF m
<1>2. \A i \in Responses(m) : i \in Responses(l) /\ m[i] = l[i] /\ i \in 1..n
  BY <1>1 DEF Responses
<1>3. \A i \in Responses(m) : /\ l[i].cause \in Requests(l)
                              /\ l[i].cause < i
                              /\ l[i].cause \in 1..n
  BY <1>1, <1>2 DEF OneAnswerIn, Requests
<1>4. \A i \in Responses(m) : m[i].cause \in Requests(m) /\ m[m[i].cause] = l[l[i].cause]
  BY <1>1, <1>2, <1>3 DEF Requests
<1> QED
  BY <1>2, <1>3, <1>4 DEF OneAnswerIn, m

-----------------------------------------------------------------------------
(***************************************************************************)
(* A call is in one place: one lemma per group of actions.                 *)
(***************************************************************************)
CallInv == EachCallInOnePlace /\ OneAnswerPerCall

\* Every answered call was requested.
LEMMA AnsweredIsRequested ==
  ASSUME OneAnswerIn(log)
  PROVE  Answered(log) \subseteq Requests(log)
BY DEF OneAnswerIn, Answered

\* The identifiers of a wave are new and different.
LEMMA NewIds ==
  ASSUME NEW n \in Nat, NEW m \in Nat, NEW ids, Len(ids) = m,
         \A k \in 1..m : ids[k] = n + k
  PROVE  Distinct(ids) /\ \A x \in In(ids) : x > n
BY DEF Distinct, In

LEMMA RuntimeCalls ==
  ASSUME HostInv, ProcessEvent \/ Quiesce
  PROVE  CallInv'
<1> USE DEF HostInv, CallInv, TypeOK, OneAnswerPerCall
<1>0. Len(log) \in Nat
  BY LenProperties
<1>1. CASE ProcessEvent
  <2> DEFINE wave == Reaction(cursor + 1)
             new == [k \in 1..Len(wave) |-> Requested(wave[k], cursor + 1)]
             ids == [k \in 1..Len(wave) |-> Len(log) + k]
  <2>1. cursor + 1 \in 1..Len(log) /\ cursor + 1 \in Nat
    BY <1>0, <1>1 DEF ProcessEvent
  <2>2. wave \in Seq(Workers) /\ Len(wave) \in Nat
    BY <2>1, ReactionType, LenProperties
  <2>3. \A k \in 1..Len(wave) : wave[k] \in Workers
    BY <2>2, ElementOfSeq
  <2>4. log' = log \o new /\ pending' = pending \o ids
        /\ UNCHANGED <<fresh, queued, running, arrived>>
    BY <1>1 DEF ProcessEvent, tasks
  <2> HIDE DEF wave
  <2>5. \A k \in 1..Len(wave) : /\ new[k] \in Events
                                /\ new[k].type = "agent.requested"
                                /\ ids[k] = Len(log) + k /\ ids[k] \in Nat
    BY <1>0, <2>1, <2>2, <2>3, RequestedType
  <2>6. new \in [1..Len(wave) -> Events] /\ ids \in [1..Len(wave) -> Nat]
    BY <2>5
  <2> HIDE DEF new, ids
  <2>7. /\ new \in Seq(Events) /\ Len(new) = Len(wave)
        /\ ids \in Seq(Nat) /\ Len(ids) = Len(wave)
    BY <2>2, <2>6, FunctionIsSeq
  <2>8. /\ Requests(log') = Requests(log) \cup In(ids)
        /\ Answered(log') = Answered(log)
    <3>1. In(ids) = {Len(log) + k : k \in 1..Len(new)}
      BY <2>5, <2>7 DEF In
    <3> QED
      BY <2>4, <2>5, <2>7, <3>1, AppendWave
  <2>9. Distinct(ids) /\ In(ids) \cap Requests(log) = {}
    <3>1. Distinct(ids) /\ \A x \in In(ids) : x > Len(log)
      BY <1>0, <2>2, <2>5, <2>7, NewIds
    <3>2. \A i \in Requests(log) : i \in Nat /\ i <= Len(log)
      BY <1>0 DEF Requests
    <3> QED
      BY <1>0, <3>1, <3>2
  <2>10. In(pending) \subseteq Requests(log) /\ Answered(log) \subseteq Requests(log)
    BY AnsweredIsRequested DEF EachCallInOnePlace
  <2>11. In(pending') = In(pending) \cup In(ids) /\ Distinct(pending')
    BY <2>4, <2>7, <2>9, <2>10, ConcatIn DEF EachCallInOnePlace
  <2>12. EachCallInOnePlace'
    BY <2>4, <2>8, <2>9, <2>10, <2>11 DEF EachCallInOnePlace, ArrivedIds
  <2>13. OneAnswerIn(log')
    BY <2>4, <2>5, <2>7, WaveKeepsOneAnswer
  <2> QED
    BY <2>12, <2>13
<1>2. CASE Quiesce
  <2>1. Idle \in Events /\ Idle.type = "runtime.idle"
    BY TypesOfEvents, WorkersFacts DEF Idle, Event, Events
  <2>2. /\ Requests(log') = Requests(log) /\ Answered(log') = Answered(log)
        /\ OneAnswerIn(log')
    <3>1. CASE log' = log
      BY <3>1
    <3>2. CASE log' = Append(log, Idle)
      BY <2>1, <3>2, AppendLog, OtherKeepsOneAnswer
    <3> QED
      BY <1>2, <3>1, <3>2 DEF Quiesce
  <2>3. In(pending') = {} /\ Distinct(pending')
    BY <1>2, EmptyIn DEF Quiesce
  <2>4. In(fresh') \subseteq In(fresh) \cup In(pending) /\ Distinct(fresh')
    <3>1. In(fresh) \cap In(pending) = {} /\ Distinct(fresh) /\ Distinct(pending)
      BY DEF EachCallInOnePlace
    <3>2. CASE fresh' = fresh
      BY <3>1, <3>2
    <3>3. CASE fresh' = fresh \o pending
      BY <3>1, <3>3, ConcatIn
    <3> QED
      BY <1>2, <3>2, <3>3 DEF Quiesce
  <2>5. UNCHANGED <<queued, running, arrived>>
    BY <1>2 DEF Quiesce
  <2> QED
    BY <2>2, <2>3, <2>4, <2>5 DEF EachCallInOnePlace, ArrivedIds
<1> QED
  BY <1>1, <1>2

LEMMA InjectionCalls ==
  ASSUME HostInv, InjectArrival \/ OpenWindow \/ ReEmit \/ CloseWindow
  PROVE  CallInv'
<1> USE DEF HostInv, CallInv, TypeOK, OneAnswerPerCall
\* Injecting a completion in hand, wherever it stood.
<1>1. ASSUME NEW c \in Completions, c.req \in Reqs(arrived),
             log' = Append(log, Response(c)),
             Reqs(arrived') \subseteq Reqs(arrived) \ {c.req},
             DistinctReqs(arrived'),
             UNCHANGED <<pending, fresh, queued, running>>
      PROVE  CallInv'
  <2>1. c.req \in Requests(log) \ Answered(log)
    BY <1>1, InHand DEF EachCallInOnePlace
  <2>2. /\ Response(c) \in Events /\ Response(c).type = "agent.responded"
        /\ Response(c).worker = log[c.req].worker /\ Response(c).cause = c.req
    BY <2>1, ResponseType
  <2>3. OneAnswerIn(log')
    BY <1>1, <2>1, <2>2, FirstAnswerKeepsOneAnswer
  <2>4. /\ Requests(log') = Requests(log)
        /\ Answered(log') = Answered(log) \cup {c.req}
    BY <1>1, <2>2, AppendLog
  <2>5. ArrivedIds' = Reqs(arrived')
    BY DEF ArrivedIds, Reqs
  <2>6. \A j, k \in 1..Len(arrived') : arrived'[j].req = arrived'[k].req => j = k
    BY <1>1 DEF DistinctReqs
  <2>7. EachCallInOnePlace'
    BY <1>1, <2>4, <2>5, <2>6, InHand DEF EachCallInOnePlace
  <2> QED
    BY <2>3, <2>7
<1>2. DistinctReqs(arrived)
  BY DEF EachCallInOnePlace, DistinctReqs
<1>3. CASE InjectArrival
  <2>1. arrived # <<>> /\ arrived' = Tail(arrived)
        /\ log' = Append(log, Response(Head(arrived)))
        /\ UNCHANGED <<pending, fresh, queued, running>>
    BY <1>3 DEF InjectArrival, CanInjectArrival, tasks
  <2> DEFINE c == Head(arrived)
  <2>2. /\ c \in Completions /\ c.req \in Reqs(arrived)
        /\ Reqs(arrived') \subseteq Reqs(arrived) \ {c.req}
        /\ DistinctReqs(arrived')
    BY <1>2, <2>1, TailReqs
  <2> QED
    BY <1>1, <2>1, <2>2
<1>4. CASE ReEmit
  <2>1. PICK i \in window :
          \/ \E k \in 1..Len(arrived) :
               /\ log' = Append(log, Response(arrived[k]))
               /\ arrived' = Without(arrived, k)
          \/ /\ recorded[i].type # "agent.responded"
             /\ log' = Append(log, recorded[i])
             /\ UNCHANGED arrived
    BY <1>4 DEF ReEmit, First
  <2>2. UNCHANGED <<pending, fresh, queued, running>>
    BY <1>4 DEF ReEmit, tasks
  <2>3. ASSUME NEW k \in 1..Len(arrived),
               log' = Append(log, Response(arrived[k])),
               arrived' = Without(arrived, k)
        PROVE  CallInv'
    <3>1. /\ arrived[k] \in Completions /\ arrived[k].req \in Reqs(arrived)
          /\ Reqs(arrived') \subseteq Reqs(arrived) \ {arrived[k].req}
          /\ DistinctReqs(arrived')
      BY <1>2, <2>3, WithoutReqs
    <3> QED
      BY <1>1, <2>2, <2>3, <3>1
  <2>4. ASSUME recorded[i].type # "agent.responded",
               log' = Append(log, recorded[i]), UNCHANGED arrived
        PROVE  CallInv'
    <3>1. /\ i \in 1..Len(recorded) /\ recorded[i] \in Events
          /\ recorded[i].type \notin {"agent.requested", "agent.responded"}
      BY <2>4, ElementOfSeq DEF WindowIsPlanned, InjectedTypes
    <3>2. /\ OneAnswerIn(log') /\ Requests(log') = Requests(log)
          /\ Answered(log') = Answered(log)
      BY <2>4, <3>1, OtherKeepsOneAnswer, AppendLog
    <3>3. ArrivedIds' = ArrivedIds
      BY <2>4 DEF ArrivedIds
    <3>4. EachCallInOnePlace'
      BY <2>2, <2>4, <3>2, <3>3 DEF EachCallInOnePlace
    <3> QED
      BY <3>2, <3>4
  <2> QED
    BY <2>1, <2>3, <2>4
<1>5. CASE OpenWindow \/ CloseWindow
  BY <1>5 DEF OpenWindow, CloseWindow, EachCallInOnePlace, ArrivedIds, tasks
<1> QED
  BY <1>3, <1>4, <1>5

LEMMA ControlCalls ==
  ASSUME HostInv, \/ ObserveStop \/ Await \/ GoIdle \/ Spin \/ Wake
                  \/ Fail \/ Complete
  PROVE  CallInv'
<1> USE DEF HostInv, CallInv, TypeOK, OneAnswerPerCall
\* Cancelling what has not landed.
<1>1. ASSUME NEW why, Leave(why), UNCHANGED <<log, pending, arrived>>
      PROVE  CallInv'
  <2>1. /\ In(fresh') = {} /\ In(queued') = {} /\ running' = {}
        /\ Distinct(fresh') /\ Distinct(queued')
    BY <1>1, EmptyIn DEF Leave
  <2> QED
    BY <1>1, <2>1 DEF EachCallInOnePlace, ArrivedIds
<1>2. ASSUME UNCHANGED <<log, pending, fresh, queued, running, arrived>>
      PROVE  CallInv'
  BY <1>2 DEF EachCallInOnePlace, ArrivedIds
<1>3. CASE ObserveStop \/ GoIdle \/ Spin
  BY <1>1, <1>3 DEF ObserveStop, GoIdle, Spin
<1>4. CASE Wake
  BY <1>1, <1>2, <1>4 DEF Wake, tasks
<1>5. CASE Await \/ Fail
  BY <1>2, <1>5 DEF Await, Fail, tasks
<1>6. CASE Complete
  <2> DEFINE e == Event("mission.completed", Gate, 0, 0, MissionOk, 0)
  <2>1. MissionOk \in BOOLEAN
    BY DEF MissionOk, GateFailed
  <2>2. e \in Events /\ e.type = "mission.completed"
    BY <2>1, EventType, TypesOfEvents, WorkersFacts
  <2>3. log' = Append(log, e) /\ UNCHANGED <<pending, fresh, queued, running, arrived>>
    BY <1>6 DEF Complete, tasks
  <2> HIDE DEF e
  <2>4. /\ OneAnswerIn(log') /\ Requests(log') = Requests(log)
        /\ Answered(log') = Answered(log)
    BY <2>2, <2>3, OtherKeepsOneAnswer, AppendLog
  <2> QED
    BY <2>3, <2>4 DEF EachCallInOnePlace, ArrivedIds
<1> QED
  BY <1>3, <1>4, <1>5, <1>6

\* A call leaves the running set; the head of the queue may enter it.
LEMMA ReleaseMoves ==
  ASSUME NEW id, queued \in Seq(Nat), ReleaseSlot(id), Distinct(queued)
  PROVE  \/ /\ running' = running \ {id} /\ UNCHANGED queued
         \/ \E h \in In(queued) :
              /\ running' = (running \ {id}) \cup {h}
              /\ In(queued') \subseteq In(queued) \ {h}
              /\ Distinct(queued')
<1>1. CASE queued = <<>>
  BY <1>1 DEF ReleaseSlot
<1>2. CASE queued # <<>>
  <2>1. /\ Head(queued) \in In(queued) /\ Distinct(Tail(queued))
        /\ In(Tail(queued)) \subseteq In(queued) \ {Head(queued)}
    BY <1>2, TailIn
  <2>2. running' = (running \ {id}) \cup {Head(queued)} /\ queued' = Tail(queued)
    BY <1>2 DEF ReleaseSlot
  <2> QED
    BY <2>1, <2>2
<1> QED
  BY <1>1, <1>2

\* A completion lands.
LEMMA ArriveAdds ==
  ASSUME arrived \in Seq(Completions), arrived' \in Seq(Completions),
         NEW id \in Nat, NEW ok, NEW by, Arrive(id, ok, by),
         DistinctReqs(arrived), id \notin Reqs(arrived)
  PROVE  Reqs(arrived') = Reqs(arrived) \cup {id} /\ DistinctReqs(arrived')
<1> DEFINE c == [req |-> id, ok |-> ok, by |-> by]
           S == Completions \cup {c}
<1>1. arrived' = Append(arrived, c) /\ c.req = id
  BY DEF Arrive
<1>2. arrived \in Seq(S) /\ c \in S
  BY SeqMonotonic
<1> HIDE DEF c, S
<1> QED
  BY <1>1, <1>2, AppendReqs

LEMMA StartCalls ==
  ASSUME HostInv, StartTask
  PROVE  CallInv'
<1> USE DEF HostInv, CallInv, TypeOK, OneAnswerPerCall
<1> DEFINE id == Head(fresh)
           hits == Recordings(id)
<1>1. /\ id \in Nat /\ id \in In(fresh)
      /\ In(fresh') \subseteq In(fresh) \ {id} /\ Distinct(fresh')
      /\ UNCHANGED <<log, pending>>
  <2>1. /\ fresh # <<>> /\ fresh' = Tail(fresh)
        /\ UNCHANGED <<log, pending>>
    BY DEF StartTask
  <2>2. fresh \in Seq(Nat) /\ Distinct(fresh)
    BY DEF EachCallInOnePlace
  <2> QED
    BY <2>1, <2>2, TailIn
<1>2. /\ TypeInv' /\ DistinctReqs(arrived)
  BY StartType DEF EachCallInOnePlace, DistinctReqs
<1>3. /\ ArrivedIds = Reqs(arrived) /\ ArrivedIds' = Reqs(arrived')
      /\ DistinctReqs(arrived') <=>
           \A j, k \in 1..Len(arrived') : arrived'[j].req = arrived'[k].req => j = k
  BY DEF ArrivedIds, Reqs, DistinctReqs
<1> HIDE DEF id
<1>4. ASSUME NEW ok, NEW by, Arrive(id, ok, by), UNCHANGED <<queued, running>>
      PROVE  EachCallInOnePlace'
  <2>1. id \notin Reqs(arrived)
    BY <1>1, <1>3 DEF EachCallInOnePlace
  <2>2. Reqs(arrived') = Reqs(arrived) \cup {id} /\ DistinctReqs(arrived')
    BY <1>1, <1>2, <1>4, <2>1, ArriveAdds DEF TypeInv
  <2> QED
    BY <1>1, <1>3, <1>4, <2>2 DEF EachCallInOnePlace
<1>5. ASSUME UNCHANGED <<queued, running, arrived>>
      PROVE  EachCallInOnePlace'
  BY <1>1, <1>3, <1>5 DEF EachCallInOnePlace
<1>6. ASSUME running' = running \cup {id}, UNCHANGED <<queued, arrived>>
      PROVE  EachCallInOnePlace'
  BY <1>1, <1>3, <1>6 DEF EachCallInOnePlace
<1>7. ASSUME queued' = Append(queued, id), UNCHANGED <<running, arrived>>
      PROVE  EachCallInOnePlace'
  <2>1. In(queued') = In(queued) \cup {id} /\ Distinct(queued')
    BY <1>1, <1>7, AppendIn DEF EachCallInOnePlace
  <2> QED
    BY <1>1, <1>3, <1>7, <2>1 DEF EachCallInOnePlace
<1>8. EachCallInOnePlace'
  BY <1>4, <1>5, <1>6, <1>7 DEF StartTask, id
<1>9. OneAnswerIn(log')
  BY <1>1
<1> QED
  BY <1>8, <1>9

LEMMA AnswerCalls ==
  ASSUME HostInv, NEW id \in running, NEW ok \in BOOLEAN,
         \/ WorkerAnswer(id, ok) \/ RunGate(id, ok)
         \/ WorkerEmit(id) \/ WorkerRaise(id)
  PROVE  CallInv'
<1> USE DEF HostInv, CallInv, TypeOK, OneAnswerPerCall
<1>1. /\ id \in Requests(log) /\ id \in Nat
      /\ TypeInv' /\ DistinctReqs(arrived)
  BY InHandIsRequested, AnswerType DEF EachCallInOnePlace, DistinctReqs
<1>2. /\ ArrivedIds = Reqs(arrived) /\ ArrivedIds' = Reqs(arrived')
      /\ DistinctReqs(arrived') <=>
           \A j, k \in 1..Len(arrived') : arrived'[j].req = arrived'[k].req => j = k
  BY DEF ArrivedIds, Reqs, DistinctReqs
\* What a side effect adds to the log is neither a request nor an answer.
<1>3. ASSUME log' = Append(log, Finding(id, ok))
      PROVE  /\ OneAnswerIn(log') /\ Requests(log') = Requests(log)
             /\ Answered(log') = Answered(log)
  BY <1>1, <1>3, FindingType, OtherKeepsOneAnswer, AppendLog
\* A running call that lands leaves the running set.
<1>4. ASSUME Arrive(id, TRUE, attempt) \/ Arrive(id, ok, attempt), ReleaseSlot(id),
             UNCHANGED <<pending, fresh>>,
             Requests(log') = Requests(log), Answered(log') = Answered(log)
      PROVE  EachCallInOnePlace'
  <2>1. id \notin Reqs(arrived)
    BY <1>2 DEF EachCallInOnePlace
  <2>2. Reqs(arrived') = Reqs(arrived) \cup {id} /\ DistinctReqs(arrived')
    BY <1>1, <1>4, <2>1, ArriveAdds DEF TypeInv
  <2>3. CASE running' = running \ {id} /\ UNCHANGED queued
    BY <1>2, <1>4, <2>2, <2>3 DEF EachCallInOnePlace
  <2>4. ASSUME NEW h \in In(queued), running' = (running \ {id}) \cup {h},
               In(queued') \subseteq In(queued) \ {h}, Distinct(queued')
        PROVE  EachCallInOnePlace'
    BY <1>2, <1>4, <2>2, <2>4 DEF EachCallInOnePlace
  <2> QED
    BY <1>4, <2>3, <2>4, ReleaseMoves DEF EachCallInOnePlace
<1>5. CASE WorkerAnswer(id, ok)
  BY <1>4, <1>5 DEF WorkerAnswer
<1>6. CASE RunGate(id, ok)
  BY <1>3, <1>4, <1>6 DEF RunGate
<1>7. CASE WorkerEmit(id)
  <2>1. log' = Append(log, Finding(id, TRUE))
        /\ UNCHANGED <<pending, fresh, queued, running, arrived>>
    BY <1>7 DEF WorkerEmit, tasks
  <2>2. /\ OneAnswerIn(log') /\ Requests(log') = Requests(log)
        /\ Answered(log') = Answered(log)
    BY <1>1, <2>1, FindingType, OtherKeepsOneAnswer, AppendLog
  <2> QED
    BY <1>2, <2>1, <2>2 DEF EachCallInOnePlace
<1>8. CASE WorkerRaise(id)
  <2>1. ReleaseSlot(id) /\ UNCHANGED <<log, pending, fresh, arrived>>
    BY <1>8 DEF WorkerRaise
  <2>2. CASE running' = running \ {id} /\ UNCHANGED queued
    BY <1>2, <2>1, <2>2 DEF EachCallInOnePlace
  <2>3. ASSUME NEW h \in In(queued), running' = (running \ {id}) \cup {h},
               In(queued') \subseteq In(queued) \ {h}, Distinct(queued')
        PROVE  EachCallInOnePlace'
    BY <1>2, <2>1, <2>3 DEF EachCallInOnePlace
  <2> QED
    BY <2>1, <2>2, <2>3, ReleaseMoves DEF EachCallInOnePlace
<1> QED
  BY <1>5, <1>6, <1>7, <1>8

LEMMA WorldCalls ==
  ASSUME HostInv, \/ Interrupt \/ Crash
                  \/ \E m \in LaterModes, edits \in EditSets : Restart(m, edits)
  PROVE  CallInv'
<1> USE DEF HostInv, CallInv, TypeOK, OneAnswerPerCall
<1>1. ASSUME Forget
      PROVE  EachCallInOnePlace'
  <2>1. /\ pending' = <<>> /\ fresh' = <<>> /\ queued' = <<>>
        /\ running' = {} /\ arrived' = <<>>
    BY <1>1 DEF Forget
  <2>2. ArrivedIds' = {}
    BY <2>1, EmptyIn DEF ArrivedIds, Reqs
  <2>3. \A j, k \in 1..Len(arrived') : arrived'[j].req = arrived'[k].req => j = k
    BY <2>1, EmptyIn DEF DistinctReqs
  <2> QED
    BY <2>1, <2>2, <2>3, EmptyIn DEF EachCallInOnePlace
<1>2. CASE Interrupt
  BY <1>2 DEF Interrupt, EachCallInOnePlace, ArrivedIds, tasks
<1>3. CASE Crash
  <2>1. PICK lost \in 0..Len(pending) : log' = SubSeq(log, 1, Len(log) - lost)
    BY <1>3 DEF Crash
  <2>2. Len(log) \in Nat /\ lost \in Nat
    BY LenProperties
  <2>3. OneAnswerIn(log')
    <3>1. CASE lost <= Len(log)
      <4>1. Len(log) - lost \in 0..Len(log)
        BY <2>2, <3>1
      <4> QED
        BY <2>1, <4>1, PrefixKeepsOneAnswer
    <3>2. CASE lost > Len(log)
      <4>1. Len(log') = 0
        BY <2>1, <2>2, <3>2, SubSeqProperties
      <4> QED
        BY <4>1 DEF OneAnswerIn, Responses
    <3> QED
      BY <2>2, <3>1, <3>2
  <2> QED
    BY <1>1, <1>3, <2>3 DEF Crash
<1>4. ASSUME NEW m \in LaterModes, NEW edits \in EditSets, Restart(m, edits)
      PROVE  CallInv'
  <2>1. OneAnswerIn(log')
    BY <1>4, SeedType DEF Restart, OneAnswerIn
  <2> QED
    BY <1>1, <1>4, <2>1 DEF Restart
<1> QED
  BY <1>2, <1>3, <1>4

LEMMA CallStep ==
  ASSUME HostInv, [Next]_vars
  PROVE  CallInv'
<1>1. CASE Loop
  BY <1>1, RuntimeCalls, InjectionCalls, ControlCalls DEF Loop
<1>2. CASE StartTask
  BY <1>2, StartCalls
<1>3. CASE Answers
  BY <1>3, AnswerCalls DEF Answers
<1>4. CASE \E id \in running : WorkerEmit(id) \/ WorkerRaise(id)
  BY <1>4, AnswerCalls
<1>5. CASE \/ Interrupt \/ Crash
           \/ \E m \in LaterModes, edits \in EditSets : Restart(m, edits)
  BY <1>5, WorldCalls
<1>6. CASE UNCHANGED vars
  BY <1>6 DEF vars, tasks, HostInv, CallInv, EachCallInOnePlace, ArrivedIds,
              OneAnswerPerCall
<1> QED
  BY <1>1, <1>2, <1>3, <1>4, <1>5, <1>6 DEF Next

-----------------------------------------------------------------------------
(***************************************************************************)
(* The slots of the semaphore.                                             *)
(***************************************************************************)
SlotInv == IsFiniteSet(running) /\ SlotsAreUsed

LEMMA NoSlots ==
  ASSUME running' = {}, queued' = <<>>
  PROVE  SlotInv'
BY FS_EmptySet, BoundsAssumption DEF SlotInv, SlotsAreUsed

\* The head of the queue takes the slot a call gives up.
LEMMA ReleaseSlots ==
  ASSUME HostInv, SlotInv, NEW id \in running, ReleaseSlot(id)
  PROVE  SlotInv'
<1> DEFINE rest == running \ {id}
<1>1. /\ IsFiniteSet(running) /\ Cardinality(running) \in Nat
      /\ Cardinality(running) <= MaxConcurrency
      /\ queued # <<>> => Cardinality(running) = MaxConcurrency
      /\ MaxConcurrency \in Nat
  BY FS_CardinalityType, BoundsAssumption DEF SlotInv, SlotsAreUsed
<1>2. IsFiniteSet(rest) /\ Cardinality(rest) = Cardinality(running) - 1
  BY <1>1, FS_RemoveElement
<1>3. CASE queued = <<>>
  <2>1. running' = rest /\ queued' = <<>>
    BY <1>3 DEF ReleaseSlot
  <2> HIDE DEF rest
  <2> QED
    BY <1>1, <1>2, <2>1 DEF SlotInv, SlotsAreUsed
<1>4. CASE queued # <<>>
  <2>1. running' = rest \cup {Head(queued)}
    BY <1>4 DEF ReleaseSlot
  <2>2. Head(queued) \notin rest
    BY <1>4, TailIn DEF HostInv, TypeOK, EachCallInOnePlace
  <2> HIDE DEF rest
  <2>3. IsFiniteSet(running') /\ Cardinality(running') = Cardinality(rest) + 1
    BY <1>2, <2>1, <2>2, FS_AddElement
  <2> QED
    BY <1>1, <1>2, <1>4, <2>3 DEF SlotInv, SlotsAreUsed
<1> QED
  BY <1>3, <1>4

\* A task takes a free slot only when no call is waiting for one.
LEMMA StartSlots ==
  ASSUME HostInv, SlotInv, StartTask
  PROVE  SlotInv'
<1> DEFINE id == Head(fresh)
<1>1. /\ IsFiniteSet(running) /\ Cardinality(running) \in Nat
      /\ Cardinality(running) <= MaxConcurrency
      /\ queued # <<>> => Cardinality(running) = MaxConcurrency
      /\ MaxConcurrency \in Nat
  BY FS_CardinalityType, BoundsAssumption DEF SlotInv, SlotsAreUsed
<1>2. \/ UNCHANGED <<queued, running>>
      \/ /\ Cardinality(running) < MaxConcurrency /\ queued = <<>>
         /\ running' = running \cup {id} /\ UNCHANGED queued
      \/ /\ ~(Cardinality(running) < MaxConcurrency /\ queued = <<>>)
         /\ UNCHANGED running
  BY DEF StartTask
<1>3. /\ IsFiniteSet(running \cup {id})
      /\ Cardinality(running \cup {id})
           = IF id \in running THEN Cardinality(running) ELSE Cardinality(running) + 1
  BY <1>1, FS_AddElement
<1> HIDE DEF id
<1>4. CASE UNCHANGED <<queued, running>>
  BY <1>4 DEF SlotInv, SlotsAreUsed
<1>5. CASE /\ Cardinality(running) < MaxConcurrency /\ queued = <<>>
           /\ running' = running \cup {id} /\ UNCHANGED queued
  <2>1. Cardinality(running') <= Cardinality(running) + 1 /\ IsFiniteSet(running')
        /\ Cardinality(running') \in Nat
    BY <1>1, <1>3, <1>5
  <2> QED
    BY <1>1, <1>5, <2>1 DEF SlotInv, SlotsAreUsed
<1>6. CASE /\ ~(Cardinality(running) < MaxConcurrency /\ queued = <<>>)
           /\ UNCHANGED running
  <2>1. Cardinality(running) = MaxConcurrency
    BY <1>1, <1>6
  <2> QED
    BY <1>1, <1>6, <2>1 DEF SlotInv, SlotsAreUsed
<1> QED
  BY <1>2, <1>4, <1>5, <1>6

LEMMA SlotStep ==
  ASSUME HostInv, SlotInv, [Next]_vars
  PROVE  SlotInv'
<1>1. CASE UNCHANGED <<queued, running>>
  BY <1>1 DEF SlotInv, SlotsAreUsed
<1>2. CASE running' = {} /\ queued' = <<>>
  BY <1>2, NoSlots
<1>3. CASE Loop
  BY <1>1, <1>2, <1>3 DEF Loop, ProcessEvent, Quiesce, ObserveStop, InjectArrival,
     OpenWindow, ReEmit, CloseWindow, Await, GoIdle, Spin, Wake, Fail, Complete,
     Leave, tasks
<1>4. CASE StartTask
  BY <1>4, StartSlots
<1>5. ASSUME NEW id \in running, NEW ok \in BOOLEAN,
             \/ WorkerAnswer(id, ok) \/ RunGate(id, ok)
             \/ WorkerEmit(id) \/ WorkerRaise(id)
      PROVE  SlotInv'
  BY <1>1, <1>5, ReleaseSlots
     DEF WorkerAnswer, RunGate, WorkerEmit, WorkerRaise, tasks
<1>6. CASE \/ Interrupt \/ Crash
           \/ \E m \in LaterModes, edits \in EditSets : Restart(m, edits)
  BY <1>1, <1>2, <1>6 DEF Interrupt, Crash, Restart, Forget, tasks
<1>7. CASE UNCHANGED vars
  BY <1>1, <1>7 DEF vars
<1> QED
  BY <1>3, <1>4, <1>5, <1>6, <1>7 DEF Next, Answers

-----------------------------------------------------------------------------
(***************************************************************************)
(* The theorems.                                                           *)
(***************************************************************************)
LEMMA HostInvStep == HostInv /\ [Next]_vars => HostInv'
BY TypeStep, CallStep DEF HostInv, TypeInv, CallInv

\* Every variable of the host loop keeps its type.
THEOREM TypeCorrect == Spec => []TypeOK
<1>1. HostInv => TypeOK
  BY DEF HostInv
<1> QED
  BY <1>1, HostInvInit, HostInvStep, PTL DEF Spec

\* Host._pending, the tasks, the semaphore's queue and Host._arrived never
\* hold one call twice, nor a call that is answered.
THEOREM CallsInOnePlace == Spec => []EachCallInOnePlace
<1>1. HostInv => EachCallInOnePlace
  BY DEF HostInv
<1> QED
  BY <1>1, HostInvInit, HostInvStep, PTL DEF Spec

\* No call is answered twice and no answer names another worker's call: in a
\* live run, a resume (amended or not) or a replay, with any number of agents.
THEOREM AnsweredOnce == Spec => []OneAnswerPerCall
<1>1. HostInv => OneAnswerPerCall
  BY DEF HostInv
<1> QED
  BY <1>1, HostInvInit, HostInvStep, PTL DEF Spec

\* dispatcher.py's promise about max_concurrency: never more workers than
\* slots, and no slot left free while a call waits for one.
THEOREM SlotsUsed == Spec => []SlotsAreUsed
<1>1. Init => HostInv /\ SlotInv
  BY HostInvInit, NoSlots, FS_EmptySet, BoundsAssumption
     DEF Init, SlotInv, SlotsAreUsed
<1>2. HostInv /\ SlotInv /\ [Next]_vars => (HostInv /\ SlotInv)'
  BY HostInvStep, SlotStep
<1>3. SlotInv => SlotsAreUsed
  BY DEF SlotInv
<1> QED
  BY <1>1, <1>2, <1>3, PTL DEF Spec

=============================================================================
