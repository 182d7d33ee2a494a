----------------------------- MODULE ClaimLedger -----------------------------
(***************************************************************************)
(* The file-claim ledger (agentgraph/claims.py) as the host drives it      *)
(* (agentgraph/host.py): running workers claim files, release them and ask *)
(* the PreToolUse hook before each write; every decision is an event of    *)
(* the log and the ledger is a projection of that log.  A resume steps a   *)
(* new ledger through the recorded events of the calls that were answered, *)
(* while the calls that were not, or whose brief was amended, run again.   *)
(*                                                                         *)
(* A path is modelled by the file it normalises to, a batch by the set of  *)
(* its files.  The loop of AgentHost is cut down to what decides when a    *)
(* worker may act: workers act while the loop sleeps, and a loop that is   *)
(* awake injects all it can before it sleeps again.                        *)
(***************************************************************************)
EXTENDS Naturals, Sequences

CONSTANTS
  Workers,      \* the agents of the mission, one call each
  Files,        \* the files their paths normalise to
  Claimable,    \* what each may claim: under the root and its `owns`
  None,         \* the owner of an unclaimed file
  MaxLog,       \* bound: length of a log workers may still add to
  MaxAttempts,  \* bound: attempts in a chain of resumes
  EditSets      \* bound: sets of workers whose brief a resume may amend

ASSUME LedgerAssumption ==
  /\ Claimable \in [Workers -> SUBSET Files]
  /\ None \notin Workers
  /\ MaxLog \in Nat /\ MaxAttempts \in Nat
  /\ EditSets \subseteq SUBSET Workers

VARIABLES
  attempt,   \* number of the attempt; each later one resumes the one before
  recorded,  \* the log the attempt resumes
  amended,   \* workers whose brief the resume amended
  planAt,    \* last recorded event that was re-emitted
  log,       \* the event log of the attempt
  owner,     \* the ledger
  landed,    \* workers whose answer waits to be injected
  awake      \* is the loop awake

vars == <<attempt, recorded, amended, planAt, log, owner, landed, awake>>
past == <<attempt, recorded, amended>>

-----------------------------------------------------------------------------
(***************************************************************************)
(* Events and calls.                                                       *)
(***************************************************************************)
Event(type, w, files) == [type |-> type, worker |-> w, files |-> files]
Events == [type : {"claim.granted", "claim.rejected", "claim.released",
                   "claim.violated", "agent.responded"},
           worker : Workers, files : SUBSET Files]

Answered(l, w) ==
  \E i \in 1..Len(l) : l[i].type = "agent.responded" /\ l[i].worker = w

\* A recorded answer to an unchanged brief is served, any other call runs.
Cached(w) == Answered(recorded, w) /\ w \notin amended
Open(w) == w \notin landed /\ ~Answered(log, w)
Running(w) == Open(w) /\ ~Cached(w)

Init ==
  /\ attempt = 1 /\ recorded = <<>> /\ amended = {} /\ planAt = 0
  /\ log = <<>> /\ owner = [f \in Files |-> None]
  /\ landed = {} /\ awake = FALSE

-----------------------------------------------------------------------------
(***************************************************************************)
(* ClaimLedger: conflicts, grant, release.                                 *)
(***************************************************************************)
\* Mutant: the holder is not looked up.
NoConflicts(w, fs) == {}
Conflicts(w, fs) == {f \in fs : owner[f] \notin {None, w}}

\* Mutant: the batch takes the ledger's place.
OnlyGranted(w, fs) == [f \in fs |-> w]
Granted(w, fs) == [f \in Files |-> IF f \in fs THEN w ELSE owner[f]]

Dropped(w, fs) ==
  [f \in Files |-> IF f \in fs /\ owner[f] = w THEN None ELSE owner[f]]

-----------------------------------------------------------------------------
(***************************************************************************)
(* What a running worker asks of the host.                                 *)
(***************************************************************************)
\* Host.worker_claim: a batch is granted whole or refused whole; the event
\* names the files that were not the worker's already.
WorkerClaim(w, fs) ==
  IF fs \subseteq Claimable[w] /\ Conflicts(w, fs) = {}
  THEN /\ log' = Append(log, Event("claim.granted", w, {f \in fs : owner[f] # w}))
       /\ owner' = Granted(w, fs)
  ELSE /\ log' = Append(log, Event("claim.rejected", w, fs))
       /\ UNCHANGED owner

\* Host.worker_release: of the files named, those the worker holds; naming
\* none releases all.
WorkerRelease(w, fs) ==
  LET mine == {f \in Files : (fs = {} \/ f \in fs) /\ owner[f] = w}
  IN /\ log' = Append(log, Event("claim.released", w, mine))
     /\ owner' = Dropped(w, mine)

\* The hook refuses a write to a file the worker does not hold, and says so;
\* a write it lets pass leaves no event.
RefuseWrite(w, f) ==
  /\ owner[f] # w
  /\ log' = Append(log, Event("claim.violated", w, {f}))
  /\ UNCHANGED owner

WorkerActs(w) ==
  /\ ~awake /\ Running(w) /\ Len(log) < MaxLog
  /\ \/ \E fs \in SUBSET Files \ {{}} : WorkerClaim(w, fs)
     \/ \E fs \in SUBSET Files : WorkerRelease(w, fs)
     \/ \E f \in Files : RefuseWrite(w, f)
  /\ UNCHANGED <<past, planAt, landed, awake>>

\* A call ends, or is served from the recording.  Its claims stay.
CallEnds(w) ==
  /\ ~awake /\ Open(w)
  /\ landed' = landed \cup {w}
  /\ UNCHANGED <<past, planAt, log, owner, awake>>

-----------------------------------------------------------------------------
(***************************************************************************)
(* The loop.                                                               *)
(***************************************************************************)
\* Every served call lands before the loop, woken by one that landed, runs.
Wake ==
  /\ ~awake /\ landed # {}
  /\ \A w \in Workers : Cached(w) => ~Open(w)
  /\ awake' = TRUE
  /\ UNCHANGED <<past, planAt, log, owner, landed>>

\* The recorded events of answered calls are re-emitted in order.  A window
\* ends with an answer, and is re-emitted once that answer has landed.
Plan == {i \in (planAt + 1)..Len(recorded) : Answered(recorded, recorded[i].worker)}
WindowLanded ==
  \E e \in Plan : /\ recorded[e].type = "agent.responded"
                  /\ recorded[e].worker \in landed
                  /\ \A i \in Plan : i < e => recorded[i].type # "agent.responded"

\* Mutant: a re-emitted release does not step the ledger.
GrantStepped(e) ==
  IF e.type = "claim.granted" THEN Granted(e.worker, e.files) ELSE owner
\* Host._replay_side_effect.
Stepped(e) ==
  CASE e.type = "claim.granted" -> Granted(e.worker, e.files)
    [] e.type = "claim.released" -> Dropped(e.worker, e.files)
    [] OTHER -> owner

ReEmit ==
  /\ awake /\ WindowLanded
  /\ \E i \in Plan :
       /\ \A j \in Plan : i <= j
       /\ planAt' = i
       /\ log' = Append(log, recorded[i])
       /\ owner' = Stepped(recorded[i])
       /\ landed' = IF recorded[i].type = "agent.responded"
                    THEN landed \ {recorded[i].worker} ELSE landed
  /\ UNCHANGED <<past, awake>>

InjectArrival(w) ==
  /\ awake /\ Plan = {} /\ w \in landed
  /\ log' = Append(log, Event("agent.responded", w, {}))
  /\ landed' = landed \ {w}
  /\ UNCHANGED <<past, planAt, owner, awake>>

Sleep ==
  /\ awake /\ ~WindowLanded /\ (Plan = {} => landed = {})
  /\ awake' = FALSE
  /\ UNCHANGED <<past, planAt, log, owner, landed>>

\* However the attempt ended -- done, interrupted or crashed -- its log may be
\* resumed, with the briefs of some workers amended.
Resume(edits) ==
  /\ attempt < MaxAttempts /\ attempt' = attempt + 1
  /\ recorded' = log /\ amended' = edits /\ planAt' = 0
  /\ log' = <<>> /\ owner' = [f \in Files |-> None]
  /\ landed' = {} /\ awake' = FALSE

Next ==
  \/ \E w \in Workers : WorkerActs(w) \/ CallEnds(w) \/ InjectArrival(w)
  \/ Wake \/ ReEmit \/ Sleep
  \/ \E edits \in EditSets : Resume(edits)

Spec == Init /\ [][Next]_vars

-----------------------------------------------------------------------------
(***************************************************************************)
(* Properties.                                                             *)
(***************************************************************************)
\* Every variable of the ledger's host has its type.
TypeOK ==
  /\ attempt \in Nat /\ planAt \in Nat
  /\ recorded \in Seq(Events) /\ log \in Seq(Events)
  /\ amended \in SUBSET Workers /\ landed \in SUBSET Workers
  /\ owner \in [Files -> Workers \cup {None}]
  /\ awake \in BOOLEAN

\* By the first n events of log l, worker w holds file f: it was granted f and
\* since then neither gave f back nor saw f granted to another.
Holds(l, n, w, f) ==
  \E i \in 1..n :
    /\ l[i].type = "claim.granted" /\ l[i].worker = w /\ f \in l[i].files
    /\ \A j \in (i + 1)..n : f \in l[j].files =>
         /\ l[j].type = "claim.granted" => l[j].worker = w
         /\ l[j].type = "claim.released" => l[j].worker # w

\* claims.py: "the owner map is a projection".  What the ledger says is what
\* the log says, at every moment of a live run and of a resume.
LedgerIsProjection ==
  \A f \in Files, w \in Workers : owner[f] = w <=> Holds(log, Len(log), w, f)

\* The nth event of log l is a right decision by the events before it: a grant
\* takes no file from another holder, a release is of files held, a refused
\* write is to a file not held, a rejected batch has a file the worker may not
\* have.
RightDecision(l, n) ==
  LET w == l[n].worker  fs == l[n].files
  IN CASE l[n].type = "claim.granted" ->
            \A f \in fs, v \in Workers : ~Holds(l, n - 1, v, f)
       [] l[n].type = "claim.released" -> \A f \in fs : Holds(l, n - 1, w, f)
       [] l[n].type = "claim.violated" -> \A f \in fs : ~Holds(l, n - 1, w, f)
       [] l[n].type = "claim.rejected" ->
            \E f \in fs : \/ f \notin Claimable[w]
                          \/ \E v \in Workers \ {w} : Holds(l, n - 1, v, f)
       [] OTHER -> TRUE

Adjudicated(l) == \A n \in 1..Len(l) : RightDecision(l, n)

\* claims.py: "two workers racing for one file are resolved by whoever the
\* host serviced first", in a run that resumes nothing.
FirstRunIsAdjudicated == attempt = 1 => Adjudicated(log)

\* The same of every run.
EveryRunIsAdjudicated == Adjudicated(log)

=============================================================================
