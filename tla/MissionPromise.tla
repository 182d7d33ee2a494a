--------------------------- MODULE MissionPromise ---------------------------
(***************************************************************************)
(* What one mission run promises, without the log, the event loop, the     *)
(* cache and the replay plan (agentgraph/mission.py): every agent is asked *)
(* once and answers at most once; the gate judges only a complete wave;    *)
(* the synthesizer is asked last; "completed" means that every agent       *)
(* answered without error and the gate passed the wave.                    *)
(***************************************************************************)
EXTENDS Naturals

CONSTANTS Agents, Gate, Synthesizer, HasGate, HasSynthesis

VARIABLES
  asked,    \* workers an agent call was requested for
  answer,   \* what each worker answered: "none", "ok" or "error"
  verdict,  \* the gate's: "none", "passed" or "failed"
  status    \* "running", "completed", "failed", "raised" or "crashed"

vars == <<asked, answer, verdict, status>>
Workers == Agents \cup {Gate, Synthesizer}

Init ==
  /\ asked = {} /\ answer = [w \in Workers |-> "none"]
  /\ verdict = "none" /\ status = "running"

Answered(w) == answer[w] # "none"
WaveDone == \A w \in Agents : Answered(w)

Ask(ws) ==
  /\ status = "running" /\ ws \cap asked = {}
  /\ \/ ws = Agents
     \/ HasGate /\ ws = {Gate} /\ WaveDone
     \/ /\ HasSynthesis /\ ws = {Synthesizer} /\ WaveDone
        /\ HasGate => Answered(Gate)
  /\ asked' = asked \cup ws
  /\ UNCHANGED <<answer, verdict, status>>

Answer(w, a) ==
  /\ status = "running" /\ w \in asked /\ ~Answered(w)
  /\ w = Gate => verdict # "none" /\ a = "ok"
  /\ answer' = [answer EXCEPT ![w] = a]
  /\ UNCHANGED <<asked, verdict, status>>

Judge(v) ==
  /\ status = "running" /\ Gate \in asked /\ verdict = "none"
  /\ verdict' = v
  /\ UNCHANGED <<asked, answer, status>>

Earned == /\ \A w \in Agents : answer[w] = "ok"
          /\ HasGate => verdict = "passed"

Finish(s) ==
  /\ status = "running"
  /\ s = "completed" => Earned
  /\ status' = s
  /\ UNCHANGED <<asked, answer, verdict>>

\* A dead process may have lost requests it was in the middle of making.
Crash ==
  /\ status = "running" /\ status' = "crashed"
  /\ asked' \in SUBSET asked
  /\ \A w \in Workers : Answered(w) => w \in asked'
  /\ UNCHANGED <<answer, verdict>>

\* The next attempt at the mission keeps nothing but what it is served.
Retry ==
  /\ status # "running"
  /\ asked' = {} /\ answer' = [w \in Workers |-> "none"]
  /\ verdict' = "none" /\ status' = "running"

Next ==
  \/ \E ws \in {Agents, {Gate}, {Synthesizer}} : Ask(ws)
  \/ \E w \in Workers, a \in {"ok", "error"} : Answer(w, a)
  \/ \E v \in {"passed", "failed"} : Judge(v)
  \/ \E s \in {"completed", "failed", "raised"} : Finish(s)
  \/ Crash \/ Retry

Spec == Init /\ [][Next]_vars
=============================================================================
