------------------------------ MODULE AgentHost ------------------------------
(***************************************************************************)
(* The host loop (agentgraph/host.py) driving one mission                  *)
(* (agentgraph/mission.py): a runtime that drains its event queue, a       *)
(* bounded pool of agent calls (dispatcher.py), the append-only event log  *)
(* (log.py), and the machinery that reads a recorded log back: the answer  *)
(* cache (agentcache.py) and the replay plan (replay.py).                  *)
(*                                                                         *)
(* A behaviour is a chain of attempts at one mission.  The first attempt   *)
(* is live; each later one resumes or replays the log the previous attempt *)
(* left, whether that attempt finished, raised, was interrupted or         *)
(* crashed.  An event is identified by its position in the log, which is   *)
(* what the id generator of the graph amounts to.                          *)
(*                                                                         *)
(* The loop is one asyncio task.  Calls take steps only while it awaits    *)
(* (pc = "wait"); an interrupt request comes from another thread at any    *)
(* time.  Objects the behaviours put on the graph are projections of       *)
(* responses and are not repeated in the log of the model.                 *)
(***************************************************************************)
EXTENDS Naturals, Sequences, FiniteSets

CONSTANTS
  AgentList,       \* the agents of the mission, in dispatch order
  HasGate,         \* does the mission carry a gate
  HasSynthesis,    \* does it carry a synthesis brief
  MaxConcurrency,  \* slots of the dispatcher's semaphore
  MaxAttempts,     \* bound: attempts in a chain
  LaterModes,      \* bound: how attempts after the first may run
  EditSets,        \* bound: sets of agents whose brief a resume may amend
  MayInterrupt,    \* bound: is an interrupt request considered
  MayCrash,        \* bound: is a crash of the process considered
  MayRaise         \* bound: is an exception out of a worker considered

\* The gate is dispatched to a pseudo-agent; the synthesizer is wave 2.
Gate == "host"
Synthesizer == "synthesizer"
Agents == {AgentList[k] : k \in 1..Len(AgentList)}
Workers == Agents \cup {Gate, Synthesizer}

\* The names of a mission's agents differ.  The code takes that for granted and
\* never checks it: reports, claims and answers are told apart by these names.
ASSUME AgentsAssumption ==
  /\ AgentList \in Seq(STRING) /\ AgentList # <<>>
  /\ \A j, k \in 1..Len(AgentList) : AgentList[j] = AgentList[k] => j = k
  /\ Gate \notin Agents /\ Synthesizer \notin Agents
ASSUME BoundsAssumption ==
  /\ HasGate \in BOOLEAN /\ HasSynthesis \in BOOLEAN
  /\ MaxConcurrency \in Nat \ {0} /\ MaxAttempts \in Nat \ {0}
  /\ LaterModes \subseteq {"resume", "replay"}
  /\ EditSets \subseteq SUBSET Agents
  /\ MayInterrupt \in BOOLEAN /\ MayCrash \in BOOLEAN /\ MayRaise \in BOOLEAN

VARIABLES
  attempt,   \* number of the current attempt
  mode,      \* "live", "resume" or "replay"
  version,   \* version of each worker's brief: part of the identity of a call
  recorded,  \* the log this attempt reads its answers and its plan from
  log,       \* the event log of this attempt
  pc,        \* where the host loop is
  reason,    \* why the loop was left; "none" while it runs
  cursor,    \* events the runtime has processed: its queue is the rest
  pending,   \* requests collected by the listener, not yet spawned
  fresh,     \* tasks created and not yet given a first step
  queued,    \* tasks waiting for a slot of the semaphore
  running,   \* tasks whose worker is executing
  arrived,   \* completions waiting to be injected, in arrival order
  woken,     \* has a task finished since the loop began to wait
  raised,    \* has a task finished with an exception
  planAt,    \* last recorded event re-emitted by the plan
  window,    \* what is left of the recorded window being re-emitted
  stop       \* the interrupt flag

vars == <<attempt, mode, version, recorded, log, pc, reason, cursor, pending,
          fresh, queued, running, arrived, woken, raised, planAt, window, stop>>
identity == <<attempt, mode, version, recorded>>
tasks == <<fresh, queued, running>>

-----------------------------------------------------------------------------
(***************************************************************************)
(* Events.                                                                 *)
(***************************************************************************)
InjectedTypes == {"agent.responded", "finding.recorded"}
EventTypes ==
  InjectedTypes \cup
  {"mission.started", "agent.requested", "runtime.idle", "mission.completed"}

\* `ok` is the success of a response, the verdict of a gate finding or the
\* status of a completed mission; `by` the attempt whose execution produced it.
Event(type, worker, cause, ver, ok, by) ==
  [type |-> type, worker |-> worker, cause |-> cause, ver |-> ver,
   ok |-> ok, by |-> by]
Events == [type : EventTypes, worker : Workers, cause : Nat, ver : Nat,
           ok : BOOLEAN, by : Nat]

Started == Event("mission.started", Gate, 0, 0, TRUE, 0)
Fact == Event("finding.recorded", Gate, 1, 0, TRUE, 0)
Idle == Event("runtime.idle", Gate, 0, 0, TRUE, 0)
Requested(w, cause) == Event("agent.requested", w, cause, version[w], TRUE, 0)
\* Mutant: a side effect stamped with the tool's name, not its worker's.
UnnamedFinding(id, verdict) ==
  Event("finding.recorded", "graph_emit", id, 0, verdict, attempt)

Finding(id, verdict) ==
  Event("finding.recorded", log[id].worker, id, 0, verdict, attempt)

Requests(l) == {i \in 1..Len(l) : l[i].type = "agent.requested"}
Responses(l) == {i \in 1..Len(l) : l[i].type = "agent.responded"}
Findings(l) == {i \in 1..Len(l) : l[i].type = "finding.recorded"}
Answered(l) == {l[i].cause : i \in Responses(l)}
\* The board facts are the host's too, under other topics than the gate's:
\* here they are told apart by their cause, the start event.
GateFindings(l) == {i \in Findings(l) : l[i].worker = Gate /\ l[i].cause # 1}

\* Mission._seed: the start event and the board facts.
Seed == <<Started, Fact>>

Init ==
  /\ attempt = 1 /\ mode = "live"
  /\ version = [w \in Workers |-> 1]
  /\ recorded = <<>>
  /\ log = Seed
  /\ pc = "settle" /\ reason = "none"
  /\ cursor = 0 /\ pending = <<>>
  /\ fresh = <<>> /\ queued = <<>> /\ running = {}
  /\ arrived = <<>> /\ woken = FALSE /\ raised = FALSE
  /\ planAt = 0 /\ window = {}
  /\ stop = FALSE

Ended == {"done", "error", "crashed"}
Flushing == reason # "none"

-----------------------------------------------------------------------------
(***************************************************************************)
(* The runtime: Mission._behaviors under Runtime.run_quantum.              *)
(***************************************************************************)
\* Agent reports on the board once the first n events are processed.
Reports(n) == {i \in Responses(log) : i <= n /\ log[i].worker \in Agents}

SynthesisWave == IF HasSynthesis THEN <<Synthesizer>> ELSE <<>>
\* Mutant: the synthesizer is not held back for the gate.
UngatedSynthesis == (IF HasGate THEN <<Gate>> ELSE <<>>) \o SynthesisWave
AfterLastReport == IF HasGate THEN <<Gate>> ELSE SynthesisWave

\* Mutant: any report completes the wave.
FirstReport(i) == Cardinality(Reports(i)) = 1
LastReport(i) == Cardinality(Reports(i)) = Len(AgentList)

\* The workers the behaviors (dispatch, join, gated) request for event i.
Reaction(i) ==
  CASE log[i].type = "mission.started" -> AgentList
    [] /\ log[i].type = "agent.responded"
       /\ log[i].worker \in Agents
       /\ LastReport(i) -> AfterLastReport
    [] log[i].type = "agent.responded" /\ log[i].worker = Gate -> SynthesisWave
    [] OTHER -> <<>>

ProcessEvent ==
  /\ pc = "settle" /\ cursor < Len(log)
  /\ LET wave == Reaction(cursor + 1)
     IN /\ log' = log \o [k \in 1..Len(wave) |-> Requested(wave[k], cursor + 1)]
        /\ pending' = pending \o [k \in 1..Len(wave) |-> Len(log) + k]
  /\ cursor' = cursor + 1
  /\ UNCHANGED <<identity, pc, reason, tasks, arrived, woken, raised, planAt,
                 window, stop>>

\* The queue is empty: the runtime marks the settled window, and the loop
\* spawns what the behaviors requested -- or, on its way out, drops it.
Quiesce ==
  /\ pc = "settle" /\ cursor = Len(log)
  /\ log' = IF log[Len(log)] = Idle THEN log ELSE Append(log, Idle)
  /\ cursor' = Len(log')
  /\ fresh' = IF Flushing THEN fresh ELSE fresh \o pending
  /\ pending' = <<>>
  /\ pc' = "check"
  /\ UNCHANGED <<identity, reason, queued, running, arrived, woken, raised,
                 planAt, window, stop>>

-----------------------------------------------------------------------------
(***************************************************************************)
(* Reading a recording: AgentCache.from_events, ReplayPlan.from_events.    *)
(***************************************************************************)
\* Two requests have one identity when worker and brief agree.
SameCall(r, q) == r.worker = q.worker /\ r.ver = q.ver

\* Mutant: an answer that is an error is bought again.
GoodRecordings(id) ==
  {i \in Responses(recorded) :
     recorded[i].ok /\ SameCall(recorded[recorded[i].cause], log[id])}
Recordings(id) ==
  {i \in Responses(recorded) : SameCall(recorded[recorded[i].cause], log[id])}

Orphaned == Requests(recorded) \ Answered(recorded)

\* Mutant: seeded facts are taken for injections of the run.
SeedsPlanned(i) ==
  /\ recorded[i].type \in InjectedTypes
  /\ recorded[i].cause \notin Orphaned
\* Mutant: only answers are re-emitted, the side effects of calls are lost.
AnswersPlanned(i) ==
  /\ recorded[i].type = "agent.responded"
  /\ recorded[i].cause \notin Orphaned
  /\ \E r \in Requests(recorded) : r < i
\* An injected event is planned unless it was seeded before the first request
\* or belongs to a call that was never answered.
Planned(i) ==
  /\ recorded[i].type \in InjectedTypes
  /\ recorded[i].cause \notin Orphaned
  /\ \E r \in Requests(recorded) : r < i

PlanLeft == {i \in (planAt + 1)..Len(recorded) : Planned(i)}

First(S) == {i \in S : \A j \in S : i <= j}
Last(S) == {i \in S : \A j \in S : j <= i}

\* The planned events of the maximal run of injected events that starts at k.
Window(k) ==
  {i \in PlanLeft : \A j \in k..i : recorded[j].type \in InjectedTypes}

\* Mutant: a window waits for every answer the recording still holds.
NeededToEnd(k) == {recorded[i].cause : i \in PlanLeft \cap Responses(recorded)}
\* The requests whose completions that window needs in hand.
Needed(k) == {recorded[i].cause : i \in Window(k) \cap Responses(recorded)}

ArrivedIds == {arrived[k].req : k \in 1..Len(arrived)}

-----------------------------------------------------------------------------
(***************************************************************************)
(* Injection: Host._inject_one, _inject_planned_group, _take_arrived.      *)
(***************************************************************************)
Response(c) ==
  Event("agent.responded", log[c.req].worker, c.req, 0, c.ok, c.by)

CanInjectGroup == \E k \in First(PlanLeft) : Needed(k) \subseteq ArrivedIds
CanInjectArrival == PlanLeft = {} /\ arrived # <<>>

\* No recording, or past its end: one completion, in arrival order.
InjectArrival ==
  /\ pc = "check" /\ (Flushing \/ ~stop)
  /\ CanInjectArrival /\ mode # "replay"
  /\ log' = Append(log, Response(Head(arrived)))
  /\ arrived' = Tail(arrived)
  /\ pc' = "settle"
  /\ UNCHANGED <<identity, reason, cursor, pending, tasks, woken, raised,
                 planAt, window, stop>>

\* The next recorded window has all its completions: begin to re-emit it.
OpenWindow ==
  /\ pc = "check" /\ (Flushing \/ ~stop)
  /\ \E k \in First(PlanLeft) :
       Needed(k) \subseteq ArrivedIds /\ window' = Window(k)
  /\ pc' = "group"
  /\ UNCHANGED <<identity, log, reason, cursor, pending, tasks, arrived, woken,
                 raised, planAt, stop>>

Without(s, k) == [j \in 1..(Len(s) - 1) |-> IF j < k THEN s[j] ELSE s[j + 1]]

\* One event of the window: a response takes its completion out of `arrived`,
\* any other injected event is re-emitted as it was recorded.
ReEmit ==
  /\ pc = "group"
  /\ \E i \in First(window) :
       /\ planAt' = i /\ window' = window \ {i}
       /\ \/ /\ recorded[i].type = "agent.responded"
             /\ \E k \in First({j \in 1..Len(arrived) :
                                  arrived[j].req = recorded[i].cause}) :
                  /\ log' = Append(log, Response(arrived[k]))
                  /\ arrived' = Without(arrived, k)
          \/ /\ recorded[i].type # "agent.responded"
             /\ log' = Append(log, recorded[i])
             /\ UNCHANGED arrived
  /\ UNCHANGED <<identity, pc, reason, cursor, pending, tasks, woken, raised, stop>>

CloseWindow ==
  /\ pc = "group" /\ window = {}
  /\ pc' = "settle"
  /\ UNCHANGED <<identity, log, reason, cursor, pending, tasks, arrived, woken,
                 raised, planAt, window, stop>>

-----------------------------------------------------------------------------
(***************************************************************************)
(* Control of the loop: Host.run, Host._flush_arrived, Mission._execute.   *)
(***************************************************************************)
\* Mutant: tasks that have not had their first step are not counted.
StartedTasks == queued # <<>> \/ running # {}
HasTasks == fresh # <<>> \/ queued # <<>> \/ running # {}

\* Mutant: an interrupted run is not flushed.
InjectUnlessStopped == reason # "until" /\ (CanInjectGroup \/ CanInjectArrival)
CanInject == CanInjectGroup \/ CanInjectArrival

\* Leaving the loop cancels every call and turns to flushing what arrived.
Leave(why) ==
  /\ reason' = why /\ pc' = "check"
  /\ fresh' = <<>> /\ queued' = <<>> /\ running' = {}

ObserveStop ==
  /\ pc = "check" /\ ~Flushing /\ stop
  /\ Leave("until")
  /\ UNCHANGED <<identity, log, cursor, pending, arrived, woken, raised, planAt,
                 window, stop>>

Await ==
  /\ pc = "check" /\ ~Flushing /\ ~stop /\ ~CanInject /\ HasTasks
  /\ pc' = "wait" /\ woken' = FALSE
  /\ UNCHANGED <<identity, log, reason, cursor, pending, tasks, arrived, raised,
                 planAt, window, stop>>

GoIdle ==
  /\ pc = "check" /\ ~Flushing /\ ~stop /\ ~CanInject /\ ~HasTasks
  /\ arrived = <<>>
  /\ Leave("idle")
  /\ UNCHANGED <<identity, log, cursor, pending, arrived, woken, raised, planAt,
                 window, stop>>

\* No call in flight, yet completions no window takes: the loop goes round
\* until it has used up its 10000 iterations.
Spin ==
  /\ pc = "check" /\ ~Flushing /\ ~stop /\ ~CanInject /\ ~HasTasks
  /\ arrived # <<>>
  /\ Leave("max_quanta")
  /\ UNCHANGED <<identity, log, cursor, pending, arrived, woken, raised, planAt,
                 window, stop>>

\* Mutant: the loop injects without settling what the workers emitted.
WakeAndInject ==
  /\ pc = "wait" /\ woken /\ fresh = <<>>
  /\ IF raised
     THEN Leave("raised")
     ELSE pc' = "check" /\ UNCHANGED <<reason, tasks>>
  /\ UNCHANGED <<identity, log, cursor, pending, arrived, woken, raised, planAt,
                 window, stop>>
\* A finished task woke the loop; every task spawned before the wait has had
\* its first step by then.
Wake ==
  /\ pc = "wait" /\ woken /\ fresh = <<>>
  /\ IF raised
     THEN Leave("raised")
     ELSE pc' = "settle" /\ UNCHANGED <<reason, tasks>>
  /\ UNCHANGED <<identity, log, cursor, pending, arrived, woken, raised, planAt,
                 window, stop>>

\* Replay only: a completion past the end of the recording, or a recording
\* (or an arrival) left over when the loop has gone idle.
Overrun == mode = "replay" /\ CanInjectArrival
Stalled == \/ reason = "idle" /\ arrived # <<>>
           \/ mode = "replay" /\ PlanLeft # {}

Fail ==
  /\ pc = "check"
  /\ \/ Overrun
     \/ Flushing /\ ~CanInject /\ (reason = "raised" \/ Stalled)
  /\ pc' = "error"
  /\ UNCHANGED <<identity, log, reason, cursor, pending, tasks, arrived, woken,
                 raised, planAt, window, stop>>

ReportedOk(w) == \E i \in Responses(log) : log[i].worker = w /\ log[i].ok
GateFailed == \E g \in Last(GateFindings(log)) : ~log[g].ok

\* Mutant: the status is read off the agents' responses alone.
AgentsOk == \A w \in Agents : ReportedOk(w)
MissionOk == (\A w \in Agents : ReportedOk(w)) /\ ~GateFailed

Complete ==
  /\ pc = "check" /\ Flushing /\ ~CanInject
  /\ reason # "raised" /\ ~Stalled
  /\ log' = Append(log, Event("mission.completed", Gate, 0, 0, MissionOk, 0))
  /\ pc' = "done"
  /\ UNCHANGED <<identity, reason, cursor, pending, tasks, arrived, woken,
                 raised, planAt, window, stop>>

-----------------------------------------------------------------------------
(***************************************************************************)
(* The calls: Host._run_one, Dispatcher.run, WorkerAPI, _GateRunner.       *)
(***************************************************************************)
\* Mutant: a completion is queued and the waiting loop is not told.
ArriveQuietly(id, ok, by) ==
  /\ arrived' = Append(arrived, [req |-> id, ok |-> ok, by |-> by])
  /\ UNCHANGED woken
Arrive(id, ok, by) ==
  /\ arrived' = Append(arrived, [req |-> id, ok |-> ok, by |-> by])
  /\ woken' = TRUE

\* The first step of a task: served from the recording, refused under replay,
\* started if the semaphore has a slot, or queued for one.
StartTask ==
  /\ pc = "wait" /\ fresh # <<>>
  /\ fresh' = Tail(fresh)
  /\ LET id == Head(fresh)
         hits == Recordings(id)
         free == Cardinality(running) < MaxConcurrency /\ queued = <<>>
     IN \/ /\ \E i \in Last(hits) : Arrive(id, recorded[i].ok, recorded[i].by)
           /\ UNCHANGED <<queued, running, raised>>
        \/ /\ hits = {} /\ mode = "replay"
           /\ raised' = TRUE /\ woken' = TRUE
           /\ UNCHANGED <<queued, running, arrived>>
        \/ /\ hits = {} /\ mode # "replay" /\ free
           /\ running' = running \cup {id}
           /\ UNCHANGED <<queued, arrived, woken, raised>>
        \/ /\ hits = {} /\ mode # "replay" /\ ~free
           /\ queued' = Append(queued, id)
           /\ UNCHANGED <<running, arrived, woken, raised>>
  /\ UNCHANGED <<identity, log, pc, reason, cursor, pending, planAt, window, stop>>

\* Mutant: the call stays in flight after its end.
LeakedCall(id) == UNCHANGED <<running, queued>>
\* Mutant: the slot is freed and the queue not woken.
LostSlot(id) == running' = running \ {id} /\ UNCHANGED queued
\* A call gives its slot to the head of the queue.
ReleaseSlot(id) ==
  IF queued = <<>>
  THEN running' = running \ {id} /\ UNCHANGED queued
  ELSE running' = (running \ {id}) \cup {Head(queued)} /\ queued' = Tail(queued)

HasEmitted(id) ==
  \E i \in Findings(log) : log[i].cause = id /\ log[i].by = attempt

\* A worker publishes a finding (bound: one per execution of a call).
WorkerEmit(id) ==
  /\ pc = "wait" /\ id \in running
  /\ log[id].worker \in Agents /\ ~HasEmitted(id)
  /\ log' = Append(log, Finding(id, TRUE))
  /\ UNCHANGED <<identity, pc, reason, cursor, pending, tasks, arrived, woken,
                 raised, planAt, window, stop>>

\* A worker answers, fails or times out: each becomes a completion.
WorkerAnswer(id, ok) ==
  /\ pc = "wait" /\ id \in running /\ log[id].worker # Gate
  /\ Arrive(id, ok, attempt)
  /\ ReleaseSlot(id)
  /\ UNCHANGED <<identity, log, pc, reason, cursor, pending, fresh, raised,
                 planAt, window, stop>>

\* The gate runs to its end in one step of the event loop: the finding that
\* carries the verdict and the completion, which is never an error.
RunGate(id, verdict) ==
  /\ pc = "wait" /\ id \in running /\ log[id].worker = Gate
  /\ log' = Append(log, Finding(id, verdict))
  /\ Arrive(id, TRUE, attempt)
  /\ ReleaseSlot(id)
  /\ UNCHANGED <<identity, pc, reason, cursor, pending, fresh, raised, planAt,
                 window, stop>>

\* An exception the worker did not turn into an error response.
WorkerRaise(id) ==
  /\ MayRaise /\ pc = "wait" /\ id \in running /\ log[id].worker # Gate
  /\ raised' = TRUE /\ woken' = TRUE
  /\ ReleaseSlot(id)
  /\ UNCHANGED <<identity, log, pc, reason, cursor, pending, fresh, arrived,
                 planAt, window, stop>>

-----------------------------------------------------------------------------
(***************************************************************************)
(* The world around the loop.                                              *)
(***************************************************************************)
\* The stop event of the console, which a replay is not given.
Interrupt ==
  /\ MayInterrupt /\ pc \notin Ended /\ mode # "replay" /\ ~stop
  /\ stop' = TRUE
  /\ UNCHANGED <<identity, log, pc, reason, cursor, pending, tasks, arrived,
                 woken, raised, planAt, window>>

\* A host that has done nothing yet: what a new process starts from, and all
\* a dead one holds.
Forget ==
  /\ reason' = "none" /\ cursor' = 0 /\ pending' = <<>>
  /\ fresh' = <<>> /\ queued' = <<>> /\ running' = {}
  /\ arrived' = <<>> /\ woken' = FALSE /\ raised' = FALSE
  /\ planAt' = 0 /\ window' = {} /\ stop' = FALSE

\* The process dies.  Every event is flushed as it is written, so the log is
\* kept, up to the requests of the step it may have died in.
Crash ==
  /\ MayCrash /\ pc \notin Ended
  /\ \E lost \in 0..Len(pending) : log' = SubSeq(log, 1, Len(log) - lost)
  /\ pc' = "crashed"
  /\ Forget
  /\ UNCHANGED identity

\* Mission.resume or Mission.replay on the log of an attempt that is over,
\* into a log of its own.
Restart(m, edits) ==
  /\ pc \in Ended /\ attempt < MaxAttempts
  /\ attempt' = attempt + 1 /\ mode' = m
  /\ version' = [w \in Workers |->
                   IF m = "resume" /\ w \in edits THEN attempt + 1 ELSE version[w]]
  /\ recorded' = log /\ log' = Seed
  /\ pc' = "settle"
  /\ Forget

Loop ==
  \/ ProcessEvent \/ Quiesce
  \/ ObserveStop \/ InjectArrival \/ OpenWindow \/ ReEmit \/ CloseWindow
  \/ Await \/ GoIdle \/ Spin \/ Wake
  \/ Fail \/ Complete

Answers ==
  \E id \in running : \E ok \in BOOLEAN : WorkerAnswer(id, ok) \/ RunGate(id, ok)

Next ==
  \/ Loop
  \/ StartTask
  \/ Answers
  \/ \E id \in running : WorkerEmit(id) \/ WorkerRaise(id)
  \/ Interrupt \/ Crash
  \/ \E m \in LaterModes, edits \in EditSets : Restart(m, edits)

\* The loop and the event loop under it run; a call ends, at the latest by its
\* timeout.  Nothing is assumed of users and crashes.
Fairness == WF_vars(Loop) /\ WF_vars(StartTask) /\ WF_vars(Answers)

Spec == Init /\ [][Next]_vars /\ Fairness
-----------------------------------------------------------------------------
(***************************************************************************)
(* Properties.                                                             *)
(***************************************************************************)
Completions == [req : Nat, ok : BOOLEAN, by : Nat]

\* Every variable of the host loop has its type.
TypeOK ==
  /\ attempt \in Nat /\ mode \in {"live", "resume", "replay"}
  /\ version \in [Workers -> Nat]
  /\ recorded \in Seq(Events) /\ log \in Seq(Events)
  /\ pc \in {"settle", "check", "group", "wait"} \cup Ended
  /\ reason \in {"none", "until", "idle", "max_quanta", "raised"}
  /\ cursor \in Nat
  /\ pending \in Seq(Nat) /\ fresh \in Seq(Nat) /\ queued \in Seq(Nat)
  /\ running \in SUBSET Nat
  /\ arrived \in Seq(Completions)
  /\ woken \in BOOLEAN /\ raised \in BOOLEAN
  /\ planAt \in Nat /\ window \in SUBSET Nat
  /\ stop \in BOOLEAN

\* An answer in the log follows the one request it names, comes from that
\* request's worker, and is the only answer to it: however tasks finish and
\* windows are re-emitted, no completion is injected twice or to another call.
OneAnswerIn(l) ==
  \A i \in Responses(l) :
    /\ l[i].cause \in Requests(l) /\ l[i].cause < i
    /\ l[l[i].cause].worker = l[i].worker
    /\ \A j \in Responses(l) : l[j].cause = l[i].cause => j = i
OneAnswerPerCall == OneAnswerIn(log)

In(s) == {s[k] : k \in 1..Len(s)}
Distinct(s) == \A j, k \in 1..Len(s) : s[j] = s[k] => j = k

\* Every call the host has in hand is requested and not answered, and is in
\* one place only: collected, created, waiting for a slot, running or landed.
\* Neither a wake-up nor a cancelled loop puts a call in two places.
EachCallInOnePlace ==
  /\ Distinct(pending) /\ Distinct(fresh) /\ Distinct(queued)
  /\ \A j, k \in 1..Len(arrived) : arrived[j].req = arrived[k].req => j = k
  /\ In(pending) \cup In(fresh) \cup In(queued) \cup running \cup ArrivedIds
       \subseteq Requests(log) \ Answered(log)
  /\ In(pending) \cap (In(fresh) \cup In(queued) \cup running \cup ArrivedIds) = {}
  /\ In(fresh) \cap (In(queued) \cup running \cup ArrivedIds) = {}
  /\ In(queued) \cap (running \cup ArrivedIds) = {}
  /\ running \cap ArrivedIds = {}

\* A worker's side effect is in the log only after the request that let the
\* worker run, and never after that request's answer.
EffectsInsideTheirCall ==
  \A i \in Findings(log) : log[i].cause # 1 =>
    /\ log[i].cause \in Requests(log) /\ log[i].cause < i
    /\ \A j \in Responses(log) : log[j].cause = log[i].cause => i < j

\* Mission's waves: the gate is requested once, after every agent answered;
\* the synthesizer once, after the gate's verdict (or, without a gate, after
\* every agent answered); whatever the order of answers, and again when the
\* behaviors re-run on a resume or a replay.
WavesInOrder ==
  /\ \A i \in Requests(log) : log[i].worker \notin Agents =>
       /\ \A w \in Agents : \E j \in Responses(log) : j < i /\ log[j].worker = w
       /\ \A j \in Requests(log) : log[j].worker = log[i].worker => j = i
  /\ HasGate => \A i \in Requests(log) : log[i].worker = Synthesizer =>
       \E j \in GateFindings(log) : j < i

\* Host.run ends "idle" only when no event can appear any more: every event
\* is processed and every call the log requests is answered.
IdleMeansAnswered ==
  pc = "done" /\ reason = "idle" =>
    /\ Requests(log) = Answered(log)
    /\ cursor = Len(log) - 1 /\ arrived = <<>> /\ PlanLeft = {}

\* Host._flush_arrived: no way out of the loop drops a completion that landed.
LandedIsRecorded ==
  pc \in {"done", "error"} /\ mode # "replay" => arrived = <<>>

\* Host.run's promise of termination: the loop never uses up its iterations
\* going round with completions it cannot place.
NeverSpins == reason # "max_quanta"

\* What a finished log must hold for its mission.completed to say completed:
\* an answer without error from every agent, and the gate's passing verdict,
\* reached after the last of those answers.
CompletedIsEarned ==
  pc = "done" /\ log[Len(log)].ok =>
    /\ \A w \in Agents : ReportedOk(w)
    /\ HasGate => \E g \in GateFindings(log) :
         /\ log[g].ok
         /\ \A i \in Responses(log) : log[i].worker \in Agents => i < g

\* The verdict a finished log carries was reached on the answers in that log:
\* no agent's answer was bought after the gate ran.
VerdictIsFresh ==
  pc = "done" => \A g \in GateFindings(log), i \in Responses(log) :
    log[i].worker \in Agents => log[i].by <= log[g].by

\* A recording that ends in mission.completed and has no orphaned request.
Whole(l) == /\ l[Len(l)].type = "mission.completed"
            /\ Requests(l) = Answered(l)

\* Replay of a whole recording: at every moment the new log is a prefix of
\* the recording, and it ends as the recording itself; no replay of a whole
\* recording fails.  Holds for logs left by live, resumed and replayed runs.
ReplayReproduces ==
  mode = "replay" /\ Whole(recorded) =>
    /\ Len(log) <= Len(recorded)
    /\ \A i \in 1..Len(log) : log[i] = recorded[i]
    /\ pc = "done" => log = recorded
    /\ pc # "error"

\* The answers, with the side effects of answered calls, that the log l holds
\* for calls whose brief has not been amended since.
Kept(l) == {i \in Responses(l) \cup Findings(l) :
              /\ l[i].cause \in Answered(l)
              /\ l[l[i].cause].ver = version[l[i].worker]}

\* A resume that ran to idle buys no recorded answer again: every answer and
\* every side effect of an answered call is in the new log exactly once, as
\* it was recorded.
ResumeKeepsAnswers ==
  mode = "resume" /\ pc = "done" /\ reason = "idle" =>
    \A i \in Kept(recorded) :
      \E j \in Kept(log) : /\ log[j] = recorded[i]
                           /\ \A k \in Kept(log) : log[k] = log[j] => k = j

\* host.py, "drained to quiescence before every injection": an answer is
\* appended only when every event before it has been processed, or as the
\* next event of the recorded window it belongs to.
InjectsWhenSettled ==
  [][\A i \in Responses(log') : i > Len(log) /\ attempt' = attempt
       => cursor = Len(log) \/ pc = "group"]_vars

\* No slot of the semaphore is overbooked, and none stays free while a call
\* waits for one.
SlotsAreUsed ==
  /\ Cardinality(running) <= MaxConcurrency
  /\ queued # <<>> => Cardinality(running) = MaxConcurrency

\* Every attempt that no crash ends comes to an end, finished or failed, and
\* so does every attempt that is interrupted.
Terminates == pc \notin Ended ~> pc \in Ended

(***************************************************************************)
(* What the log and the loop's place amount to for a reader of the         *)
(* mission, and the promise of the mission in those terms.                 *)
(***************************************************************************)
AnswerOf(w) ==
  LET mine == {i \in Responses(log) : log[i].worker = w}
  IN IF mine = {} THEN "none"
     ELSE IF \E i \in Last(mine) : log[i].ok THEN "ok" ELSE "error"
VerdictOf ==
  IF GateFindings(log) = {} THEN "none" ELSE IF GateFailed THEN "failed" ELSE "passed"
StatusOf ==
  CASE pc = "done" -> IF log[Len(log)].ok THEN "completed" ELSE "failed"
    [] pc = "error" -> "raised"
    [] pc = "crashed" -> "crashed"
    [] OTHER -> "running"

Promise == INSTANCE MissionPromise WITH
  asked <- {log[i].worker : i \in Requests(log)},
  answer <- [w \in Workers |-> AnswerOf(w)],
  verdict <- VerdictOf,
  status <- StatusOf

\* The host loop implements the mission's promise, over a chain of live,
\* resumed and replayed attempts.
KeepsPromise == Promise!Spec

=============================================================================
