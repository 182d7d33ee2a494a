------------------------------- MODULE Factory -------------------------------
(***************************************************************************)
(* Factory runs: FactoryRunner (agentgraph/factory.py) in threads of its   *)
(* own, the console's handlers that launch, interrupt and resume them      *)
(* (app.py, on the event loop) and the scheduler's launches                *)
(* (routes/scheduler.py, in a worker thread), over what is on disk: one    *)
(* state.json per factory run and one run.jsonl per wave, which all the    *)
(* runs of a factory share.                                                *)
(*                                                                         *)
(* A wave's mission is taken at its result; AgentHost models how it comes  *)
(* about.  One repository, one factory whose spec may be edited.           *)
(***************************************************************************)
EXTENDS Naturals, Sequences, FiniteSets

CONSTANTS
  Specs,     \* the wave lists factory.json may hold
  Runners,   \* bound: threads that may run at one time
  Handlers,  \* bound: requests that may be handled at one time
  Cap,       \* MAX_CONCURRENT_MISSIONS
  Ids,       \* bound: the seconds factory runs are named after
  MaxStarts, \* bound: threads started in all
  None       \* no thread, no request

Waves == UNION {{s[k] : k \in 1..Len(s)} : s \in Specs}

ASSUME FactoryAssumption ==
  /\ Specs # {} /\ Specs \subseteq Seq(STRING)
  /\ \A s \in Specs : /\ s # <<>>
                      /\ \A j, k \in 1..Len(s) : s[j] = s[k] => j = k
  /\ Cap \in Nat /\ MaxStarts \in Nat /\ Ids # {}
  /\ None \notin Runners

VARIABLES
  started,   \* threads started so far
  files,     \* the state.json of each factory run
  logs,      \* waves whose run.jsonl exists
  runners,   \* the threads
  tracked,   \* app.ctx.factory_runs: the thread last started for a run
  calls,     \* what each handler is in the middle of
  earned,    \* history: the waves that passed, with their run
  disturbed  \* history: runs hit by a crash, a deletion or a second thread

vars == <<started, files, logs, runners, tracked, calls, earned, disturbed>>
console == <<started, tracked, calls>>
past == <<earned, disturbed>>

NoFile == [status |-> "none", slugs |-> <<>>, waves |-> <<>>]
Free == [kind |-> "free", id |-> None, start |-> 1]

Init ==
  /\ started = 0
  /\ files = [i \in Ids |-> NoFile] /\ logs = {}
  /\ runners = [r \in Runners |-> None]
  /\ tracked = [i \in Ids |-> None]
  /\ calls = [h \in Handlers |-> Free]
  /\ earned = {} /\ disturbed = {}

Busy(r) == runners[r] # None
At(r, pc) == Busy(r) /\ runners[r].pc = pc
Works(i) == {r \in Runners : Busy(r) /\ runners[r].id = i}

-----------------------------------------------------------------------------
(***************************************************************************)
(* FactoryRunner.run.                                                      *)
(***************************************************************************)
Snapshot(t) == [status |-> t.status, slugs |-> t.spec, waves |-> t.waves]
Becomes(r, t) == runners' = [runners EXCEPT ![r] = t]
\* Every change of the state is written to state.json (temp file, os.replace).
Persists(t) == files' = [files EXCEPT ![t.id] = Snapshot(t)]
Marked(t, mark) == [t EXCEPT !.waves[t.at] = mark]

\* Mutant: a wave skipped by an earlier resume is not known to have passed.
PassedOnly(f) == {f.slugs[k] : k \in {j \in 1..Len(f.waves) : f.waves[j] = "passed"}}
PassedIn(f) ==
  {f.slugs[k] : k \in {j \in 1..Len(f.waves) : f.waves[j] \in {"passed", "skipped"}}}

\* FactoryRunner._load_prior_waves.
Load(r) ==
  /\ At(r, "load")
  /\ Becomes(r, [runners[r] EXCEPT !.prior = PassedIn(files[runners[r].id]),
                                   !.pc = "fresh"])
  /\ UNCHANGED <<files, logs, console, past>>

\* A state with every wave pending replaces the one just read.
Fresh(r) ==
  /\ At(r, "fresh")
  /\ LET t == [runners[r] EXCEPT
                 !.waves = [k \in 1..Len(runners[r].spec) |-> "pending"],
                 !.status = "running", !.pc = "next"]
     IN Becomes(r, t) /\ Persists(t)
  /\ UNCHANGED <<logs, console, past>>

MoreWaves(r) == At(r, "next") /\ runners[r].at <= Len(runners[r].spec)
PassedBefore(t) == t.spec[t.at] \in logs \cap t.prior
Skips(t) == t.at < t.start \/ PassedBefore(t)

Skip(r) ==
  /\ MoreWaves(r) /\ Skips(runners[r])
  /\ LET t == Marked(runners[r], "skipped")
     IN Becomes(r, [t EXCEPT !.at = t.at + 1]) /\ Persists(t)
  /\ UNCHANGED <<logs, console, past>>

Enter(r) ==
  /\ MoreWaves(r) /\ ~Skips(runners[r])
  /\ LET t == [Marked(runners[r], "running") EXCEPT !.pc = "wave"]
     IN Becomes(r, t) /\ Persists(t)
  /\ UNCHANGED <<logs, console, past>>

\* Mission.run unlinks the wave's log and begins a new one.
StartMission(r) ==
  /\ At(r, "wave")
  /\ logs' = logs \cup {runners[r].spec[runners[r].at]}
  /\ Becomes(r, [runners[r] EXCEPT !.pc = "mission",
                   !.late = IF runners[r].stop THEN @ + 1 ELSE @])
  /\ UNCHANGED <<files, console, past>>

EndMission(r, ok) ==
  /\ At(r, "mission")
  /\ Becomes(r, [runners[r] EXCEPT !.pc = IF ok THEN "pass" ELSE "fail"])
  /\ earned' = IF ok THEN earned \cup {<<runners[r].id, runners[r].spec[runners[r].at]>>}
               ELSE earned
  /\ UNCHANGED <<files, logs, console, disturbed>>

RecordPass(r) ==
  /\ At(r, "pass")
  /\ LET t == [Marked(runners[r], "passed") EXCEPT !.pc = "passed"]
     IN Becomes(r, t) /\ Persists(t)
  /\ UNCHANGED <<logs, console, past>>

RecordFail(r) ==
  /\ At(r, "fail")
  /\ LET t == [Marked(runners[r], "failed") EXCEPT !.pc = "failed"]
     IN Becomes(r, t) /\ Persists(t)
  /\ UNCHANGED <<logs, console, past>>

\* Mutant: a run goes on whatever was asked of it.
GoesOn(r) == At(r, "passed")
\* Mutant: a run goes on after a failed wave.
PastFailure(r) == (At(r, "passed") \/ At(r, "failed")) /\ ~runners[r].stop
MayGoOn(r) == At(r, "passed") /\ ~runners[r].stop

GoOn(r) ==
  /\ MayGoOn(r)
  /\ Becomes(r, [runners[r] EXCEPT !.at = @ + 1, !.pc = "next"])
  /\ UNCHANGED <<files, logs, console, past>>

\* Mutant: a status no reader of state.json knows.
StoppedVerdict(r) ==
  CASE At(r, "failed") -> "failed"
    [] At(r, "passed") /\ runners[r].stop -> "stopped"
    [] At(r, "next") /\ ~MoreWaves(r) -> "completed"
    [] OTHER -> "running"
\* The ways a run ends; the thread ends with it.
Verdict(r) ==
  CASE At(r, "failed") -> "failed"
    [] At(r, "passed") /\ runners[r].stop -> "interrupted"
    [] At(r, "next") /\ ~MoreWaves(r) -> "completed"
    [] OTHER -> "running"

End(r) ==
  /\ Verdict(r) # "running"
  /\ Persists([runners[r] EXCEPT !.status = Verdict(r)])
  /\ Becomes(r, None)
  /\ UNCHANGED <<logs, console, past>>

\* An exception ends the thread and leaves state.json as it is: out of the
\* mission, or out of os.replace when two threads share a temp file.
Raise(r) ==
  /\ \/ At(r, "mission")
     \/ Busy(r) /\ Works(runners[r].id) # {r}
  /\ Becomes(r, None)
  /\ UNCHANGED <<files, logs, console, past>>

-----------------------------------------------------------------------------
(***************************************************************************)
(* The console and the scheduler.  A handler may be interleaved with the   *)
(* others wherever it awaits.                                              *)
(***************************************************************************)
IsAlive(i) == tracked[i] \in Works(i)
Active == {i \in Ids : IsAlive(i)}

Thread(i, start, spec) ==
  [id |-> i, start |-> start, spec |-> spec, pc |-> "load", at |-> 1,
   prior |-> {}, waves |-> <<>>, status |-> "running", stop |-> FALSE,
   late |-> 0]

\* start_factory_thread: the entry of a run is replaced, whatever it held.
StartThread(h, i, start, spec) ==
  /\ started < MaxStarts /\ started' = started + 1
  /\ \E r \in Runners :
       /\ ~Busy(r)
       /\ Becomes(r, Thread(i, start, spec))
       /\ tracked' = [tracked EXCEPT ![i] = r]
  /\ disturbed' = IF Works(i) = {} THEN disturbed ELSE disturbed \cup {i}
  /\ calls' = [calls EXCEPT ![h] = Free]
  /\ UNCHANGED <<files, logs, earned>>

Asks(h, kind, i) ==
  /\ calls[h] = Free
  /\ calls' = [calls EXCEPT ![h] = [kind |-> kind, id |-> i, start |-> 1]]
  /\ UNCHANGED <<started, files, logs, runners, tracked, past>>

\* launch_factory: the cap is checked, then remember_repo is awaited.
AskLaunch(h) == Cardinality(Active) < Cap /\ Asks(h, "launch", None)
\* launch_schedule_blocking: no cap, but one run per repository.
AskSchedule(h) == Active = {} /\ Asks(h, "launch", None)
\* A run is named after the second it starts in, which two may share; a run
\* that is over started in an earlier second.
Launch(h, i, spec) ==
  /\ calls[h].kind = "launch"
  /\ files[i] = NoFile \/ Works(i) # {}
  /\ StartThread(h, i, 1, spec)

\* resume_factory, of a run the console lists: it is not alive; its state is
\* read; the spec is read.
AskResume(h, i) == files[i] # NoFile /\ ~IsAlive(i) /\ Asks(h, "resume", i)

\* Mutant: one wave too far.
PastUnpassed(f) ==
  {k \in 1..(Len(f.waves) + 1) : \A j \in 1..(k - 2) : f.waves[j] = "passed"}
\* The waves a resume may start from, the first that did not pass the last.
UpToUnpassed(f) ==
  {k \in 1..(Len(f.waves) + 1) : \A j \in 1..(k - 1) : f.waves[j] = "passed"}
ReadState(h) ==
  /\ calls[h].kind = "resume"
  /\ calls' = [calls EXCEPT ![h].kind = "restart",
       ![h].start = Cardinality(UpToUnpassed(files[calls[h].id]))]
  /\ UNCHANGED <<started, files, logs, runners, tracked, past>>
Restart(h, spec) ==
  /\ calls[h].kind = "restart"
  /\ LET k == calls[h].start
     IN StartThread(h, calls[h].id, IF k > Len(spec) THEN Len(spec) ELSE k, spec)

\* interrupt_factory reaches the thread the console knows.
Interrupt(i) ==
  /\ IsAlive(i) /\ ~runners[tracked[i]].stop
  /\ Becomes(tracked[i], [runners[tracked[i]] EXCEPT !.stop = TRUE])
  /\ UNCHANGED <<files, logs, console, past>>

\* delete_run on the run directory of a wave, which the console does not know
\* to be in use.  Bound: not once every run is disturbed.
DeleteRun(w) ==
  /\ disturbed # Ids
  /\ w \in logs /\ logs' = logs \ {w}
  /\ disturbed' = Ids
  /\ UNCHANGED <<files, runners, console, earned>>

\* The server is killed; what is on disk stays.
Crash ==
  /\ \E r \in Runners : Busy(r)
  /\ disturbed' = disturbed \cup {runners[r].id : r \in {q \in Runners : Busy(q)}}
  /\ runners' = [r \in Runners |-> None]
  /\ tracked' = [i \in Ids |-> None]
  /\ calls' = [h \in Handlers |-> Free]
  /\ UNCHANGED <<started, files, logs, earned>>

Run(r) ==
  \/ Load(r) \/ Fresh(r) \/ Skip(r) \/ Enter(r) \/ StartMission(r)
  \/ \E ok \in BOOLEAN : EndMission(r, ok)
  \/ RecordPass(r) \/ RecordFail(r) \/ GoOn(r) \/ End(r) \/ Raise(r)

Handle(h) ==
  \/ AskLaunch(h) \/ AskSchedule(h) \/ ReadState(h)
  \/ \E i \in Ids : AskResume(h, i)
  \/ \E spec \in Specs : Restart(h, spec) \/ \E i \in Ids : Launch(h, i, spec)

Next ==
  \/ \E r \in Runners : Run(r)
  \/ \E h \in Handlers : Handle(h)
  \/ \E i \in Ids : Interrupt(i)
  \/ \E w \in Waves : DeleteRun(w)
  \/ Crash

Spec == Init /\ [][Next]_vars

-----------------------------------------------------------------------------
(***************************************************************************)
(* Properties.                                                             *)
(***************************************************************************)
Marks == {"pending", "running", "passed", "failed", "skipped"}
Statuses == {"none", "running", "completed", "failed", "interrupted"}
Files == [status : Statuses, slugs : Seq(STRING), waves : Seq(Marks)]
Threads ==
  [id : Ids, start : Nat \ {0}, spec : Specs, at : Nat \ {0}, prior : SUBSET Waves,
   pc : {"load", "fresh", "next", "wave", "mission", "pass", "fail", "passed", "failed"},
   waves : Seq(Marks), status : Statuses, stop : BOOLEAN, late : Nat]

ASSUME NoThread == None \notin Threads

\* Every variable of the factory has its type.
TypeOK ==
  /\ started \in Nat /\ logs \in SUBSET Waves
  /\ files \in [Ids -> Files]
  /\ runners \in [Runners -> Threads \cup {None}]
  /\ tracked \in [Ids -> Runners \cup {None}]
  /\ calls \in [Handlers -> [kind : {"free", "launch", "resume", "restart"},
                             id : Ids \cup {None}, start : Nat \ {0}]]
  /\ earned \in SUBSET (Ids \X Waves) /\ disturbed \in SUBSET Ids

\* What state.json says of a run is earned: a wave it calls passed or skipped
\* did pass in that run, and a run it calls completed left out none; through
\* resumes, crashes between any two writes, and threads that share the file.
StateIsEarned ==
  \A i \in Ids :
    /\ \A k \in 1..Len(files[i].waves) :
         files[i].waves[k] \in {"passed", "skipped"} =>
           <<i, files[i].slugs[k]>> \in earned
    /\ files[i].status = "completed" =>
         \A k \in 1..Len(files[i].waves) : files[i].waves[k] \in {"passed", "skipped"}

\* README, "halts on the first failure": a wave's mission runs only when every
\* wave before it has passed in that run, in this thread or an earlier one.
WaveAfterWave ==
  \A r \in Runners : At(r, "mission") =>
    \A k \in 1..(runners[r].at - 1) : <<runners[r].id, runners[r].spec[k]>> \in earned

\* README, "resumes from it": a wave that passed is not bought again by the
\* same run, unless a crash, a deletion or a second thread came between.
PassedIsNotRerun ==
  [][\A r \in Runners : At(r, "wave") /\ ~At(r, "wave")' =>
       \/ <<runners[r].id, runners[r].spec[runners[r].at]>> \notin earned
       \/ runners[r].id \in disturbed']_vars

\* interrupt_factory, "stop after the in-flight wave": after the interrupt a
\* thread starts one mission at most, the one it was about to start.
InterruptStops == \A r \in Runners : Busy(r) => runners[r].late <= 1

=============================================================================
