-------------------------------- MODULE Console --------------------------------
(***************************************************************************)
(* The mission handlers of the console (app.py): launch, resume, replay    *)
(* and delete on the event loop, one thread per mission, the table of      *)
(* missions they share, and the webhook that tells how a launched mission  *)
(* ended.  The waves of a factory are missions in the same directory of    *)
(* runs, in no table.  The logs, their mirror and its streams are Mirror's. *)
(*                                                                         *)
(* A handler runs undisturbed from one await to the next.  What a mission  *)
(* does between its first line and its last is AgentHost's subject; here   *)
(* it appends lines.                                                       *)
(***************************************************************************)
EXTENDS Mirror, FiniteSets

CONSTANTS
  Handlers,    \* bound: requests that are handled at one time
  Cap,         \* MAX_CONCURRENT_MISSIONS
  MaxThreads,  \* bound: missions started in all
  MaxRequests, \* bound: requests in all, waves among them; one that meets
               \* another party on its run is the last
  MaxEvents,   \* bound: lines between a mission's first and its last
  Asked        \* the requests that are made, with the waves of factories

ASSUME ConsoleAssumption ==
  /\ Nobody \notin Runs /\ Nobody \notin Clients
  /\ "poll" \notin Clients /\ Nobody # "poll"
  /\ Watched \subseteq Runs
  /\ IsFiniteSet(Runs) /\ IsFiniteSet(Handlers)
  /\ Cap \in Nat /\ MaxThreads \in Nat
  /\ MaxRequests \in Nat /\ MaxEvents \in Nat
  /\ Asked \subseteq {"launch", "delete", "resume", "replay", "wave"}

VARIABLES
  threads,   \* every mission thread, in the order they were started
  table,     \* app.ctx.mission_processes: the thread of each run, 0 if none
  call,      \* what each handler is in the middle of
  asked,     \* requests so far, and waves
  raced      \* history: runs that two parties worked on at one time

consoleVars == <<threads, table, call, asked, raced>>
vars == <<log, mirror, reading, stream, remade, threads, table, call, asked, raced>>

Idle == [run |-> Nobody, at |-> "idle"]

Init ==
  /\ MirrorInit
  /\ threads = <<>>
  /\ table = [r \in Runs |-> 0]
  /\ call = [h \in Handlers |-> Idle]
  /\ asked = 0
  /\ raced = {}

Started == 1..Len(threads)
Alive(t) == threads[t].stage # "dead"
IsWave(t) == threads[t].as = "wave"

\* An entry says "running" until its thread's finally clause, and
\* reap_mission_threads turns what is left of a dead thread to "finished".
HoldsSlot(t) == threads[t].stage \in {"starting", "writing"}
Active == {r \in Runs : table[r] \in Started /\ HoldsSlot(table[r])}
HasRoomOffByOne == Cardinality(Active) <= Cap \* mutant
HasRoom == Cardinality(Active) < Cap

ManagedAndAlive(r) == table[r] \in Started /\ Alive(table[r])

-----------------------------------------------------------------------------
(***************************************************************************)
(* What two parties may do to one run at one time: no test of the code     *)
(* keeps a second one out before the first has registered, and its thread  *)
(* has created the log, or between the steps of a deletion.  A deletion    *)
(* does not see that a wave is alive, a wave sees nobody.                  *)
(***************************************************************************)
AtWork(r) ==
  \/ \E h \in Handlers :
       /\ call[h].run = r
       /\ call[h] # Idle
  \/ \E t \in Started :
       /\ threads[t].run = r /\ Alive(t)
       /\ threads[t].stage = "starting" \/ IsWave(t)
HasMission(r) == \E t \in Started : threads[t].run = r /\ Alive(t)
ToBeTold(r) ==
  \E t \in Started : threads[t].run = r /\ threads[t].notice = "pending"

Enter(r, busy) ==
  /\ asked' = IF busy THEN MaxRequests ELSE asked + 1
  /\ raced' = IF busy THEN raced \cup {r} ELSE raced

-----------------------------------------------------------------------------
(***************************************************************************)
(* launch_from_body, resume_mission and replay_run.                        *)
(***************************************************************************)
IsAdmitted(h) == call[h].at \in {"launching", "deriving"}
Sets(h, r, at) == call' = [call EXCEPT ![h] = [run |-> r, at |-> at]]
Drops(h) == call' = [call EXCEPT ![h] = Idle]

AnySlug(r) == TRUE \* mutant
IsFreshSlug(r) == ~Exists(r)

\* Admission: the slug has no log yet and a mission may still be started.
Admit(h, r, at) ==
  /\ IsFreshSlug(r)
  /\ HasRoom
  /\ Sets(h, r, at)
  /\ Enter(r, AtWork(r))

AskLaunch(h, r) ==
  /\ "launch" \in Asked
  /\ Admit(h, r, "launching")
  /\ UNCHANGED <<mirrorVars, threads, table>>

\* A resume and a replay name a run with a log; their slug carries the second
\* of the request, so that two may ask for the same.
AskDerived(h, source, r) ==
  /\ Exists(source) /\ r # source
  /\ Admit(h, r, "deriving")
  /\ UNCHANGED <<mirrorVars, threads, table>>

AskResume(h, source, r) == "resume" \in Asked /\ AskDerived(h, source, r)
AskReplay(h, source, r) ==
  "replay" \in Asked /\ AskDerived(h, source, r) /\ ~ManagedAndAlive(source)

\* A request is turned down after its admission: no worker or gate can be
\* built for it, or its handler raises.
TurnDown(h) ==
  /\ IsAdmitted(h)
  /\ Drops(h)
  /\ UNCHANGED <<mirrorVars, threads, table, asked, raced>>

\* After the directory and manifest are written: the entry and its thread.
\* Only a launched mission reports its outcome.
NewThread(r, at) ==
  [run |-> r, as |-> at, stage |-> "starting", wrote |-> 0,
   final |-> "none", notice |-> IF at = "launching" THEN "due" ELSE "none"]
Register(h) ==
  /\ IsAdmitted(h) /\ Len(threads) < MaxThreads
  /\ threads' = Append(threads, NewThread(call[h].run, call[h].at))
  /\ table' = [table EXCEPT ![call[h].run] = Len(threads) + 1]
  /\ Drops(h)
  /\ UNCHANGED <<mirrorVars, asked, raced>>

-----------------------------------------------------------------------------
(***************************************************************************)
(* delete_run.                                                             *)
(***************************************************************************)
AskDelete(h, r) ==
  /\ "delete" \in Asked
  /\ Exists(r) /\ ~ManagedAndAlive(r) /\ r \in Watched
  /\ Sets(h, r, "removing")
  /\ Enter(r, AtWork(r) \/ ToBeTold(r))
  /\ UNCHANGED <<mirrorVars, threads, table>>

RemoveDirectory(h) ==
  /\ call[h].at = "removing"
  /\ RemoveLog(call[h].run)
  /\ Sets(h, call[h].run, "unmirroring")
  /\ UNCHANGED <<mirror, reading, stream, remade, threads, table, asked, raced>>

DeleteRows(h) ==
  /\ call[h].at = "unmirroring"
  /\ ForgetRows(call[h].run)
  /\ Sets(h, call[h].run, "popping")
  /\ UNCHANGED <<log, reading, stream, threads, table, asked, raced>>

PopEntry(h) ==
  /\ call[h].at = "popping"
  /\ table' = [table EXCEPT ![call[h].run] = 0]
  /\ Drops(h)
  /\ UNCHANGED <<mirrorVars, threads, asked, raced>>

-----------------------------------------------------------------------------
(***************************************************************************)
(* A mission thread.                                                       *)
(***************************************************************************)
Stage(t, stage) == t \in Started /\ threads[t].stage = stage

\* A factory comes to a wave, for the first time or, on a resume or a later
\* launch of its spec, once more: its run is that of the wave's name, with
\* whatever log is there.
StartWave(r) ==
  /\ "wave" \in Asked /\ r \in Watched
  /\ asked < MaxRequests /\ Len(threads) < MaxThreads
  /\ threads' = Append(threads, NewThread(r, "wave"))
  /\ Enter(r, AtWork(r) \/ HasMission(r) \/ ToBeTold(r))
  /\ UNCHANGED <<mirrorVars, table, call>>

StartLog(t) ==
  /\ Stage(t, "starting")
  /\ CreateLog(threads[t].run, t)
  /\ threads' = [threads EXCEPT ![t].stage = "writing"]
  /\ UNCHANGED <<mirror, reading, stream, table, call, asked, raced>>

Write(t) ==
  /\ Stage(t, "writing") /\ threads[t].final = "none"
  /\ threads[t].wrote <= MaxEvents
  /\ AppendLine(threads[t].run, t,
       IF threads[t].wrote = 0 THEN "mission.started" ELSE "event")
  /\ threads' = [threads EXCEPT ![t].wrote = @ + 1]
  /\ UNCHANGED <<mirror, reading, stream, remade, table, call, asked, raced>>

Complete(t, status) ==
  /\ Stage(t, "writing") /\ threads[t].final = "none" /\ threads[t].wrote > 0
  /\ AppendLine(threads[t].run, t, status)
  /\ threads' = [threads EXCEPT ![t].final = status]
  /\ UNCHANGED <<mirror, reading, stream, remade, table, call, asked, raced>>

\* The finally clause: the entry becomes "finished", the thread still runs.
Return(t) ==
  /\ Stage(t, "writing") /\ threads[t].final # "none"
  /\ threads' = [threads EXCEPT ![t].stage = "returned"]
  /\ UNCHANGED <<mirrorVars, table, call, asked, raced>>

\* The thread that notifies is started last.
Exit(t) ==
  /\ Stage(t, "returned")
  /\ threads' = [threads EXCEPT
       ![t].stage = "dead",
       ![t].notice = IF @ = "due" THEN "pending" ELSE @]
  /\ UNCHANGED <<mirrorVars, table, call, asked, raced>>

\* The mission raises; a launched one reports that it failed.
Raise(t) ==
  /\ Stage(t, "starting") \/ Stage(t, "writing")
  /\ threads' = [threads EXCEPT
       ![t].stage = "dead",
       ![t].notice = IF @ = "due" THEN "error" ELSE @]
  /\ UNCHANGED <<mirrorVars, table, call, asked, raced>>

FirstLineStatus(r) == \* mutant
  IF log[r].lines # <<>> /\ log[r].lines[1] \in Ends
    THEN log[r].lines[1] ELSE "failed"
LastLineStatus(r) == \* mutant
  IF log[r].lines = <<>> THEN "failed"
  ELSE log[r].lines[Len(log[r].lines)]

\* final_mission_status: the last end in the log; without one, a failure.
FinalStatus(r) ==
  IF EndedAs(log[r].lines, "completed") THEN "completed" ELSE "failed"

\* notify_run_finished: what run.completed or run.failed is sent.
Notify(t) ==
  /\ t \in Started /\ threads[t].notice = "pending"
  /\ threads' = [threads EXCEPT ![t].notice = FinalStatus(threads[t].run)]
  /\ UNCHANGED <<mirrorVars, table, call, asked, raced>>

-----------------------------------------------------------------------------
MayAsk(h) == call[h] = Idle /\ asked < MaxRequests
Requests ==
  \E h \in Handlers :
    \/ MayAsk(h) /\ \E r \in Runs :
         \/ AskLaunch(h, r) \/ AskDelete(h, r)
         \/ \E source \in Runs : AskResume(h, source, r) \/ AskReplay(h, source, r)
    \/ TurnDown(h) \/ Register(h)
    \/ RemoveDirectory(h) \/ DeleteRows(h) \/ PopEntry(h)

Waves == \E r \in Runs : StartWave(r)

Missions ==
  \E t \in Started :
    \/ StartLog(t) \/ Write(t) \/ Return(t) \/ Raise(t) \/ Exit(t) \/ Notify(t)
    \/ \E status \in Ends : Complete(t, status)

Mirroring ==
  /\ \/ \E c \in Clients : \/ \E r \in Runs : OpenStream(c, r)
                           \/ StreamRead(c) \/ StreamCommit(c)
                           \/ StreamRaises(c) \/ SendEvents(c)
                           \/ CheckStatus(c, stream[c].run \in Runs
                                               /\ ManagedAndAlive(stream[c].run))
                           \/ LeaveStream(c)
     \/ \E r \in Runs : PollRead(r)
     \/ PollCommit \/ PollRaises
  /\ UNCHANGED consoleVars

Next == Requests \/ Waves \/ Missions \/ Mirroring
Spec == Init /\ [][Next]_vars

-----------------------------------------------------------------------------
(***************************************************************************)
(* Properties.                                                             *)
(***************************************************************************)
Calls ==
  [run : Runs, at : {"launching", "deriving", "removing", "unmirroring",
                     "popping"}]
Threads ==
  [run : Runs, as : {"launching", "deriving", "wave"},
   stage : {"starting", "writing", "returned", "dead"},
   wrote : Nat, final : {"none"} \cup Ends,
   notice : {"none", "due", "pending", "error"} \cup Ends]

\* Logs, rows, threads, table and calls in the shape the code gives them.
TypeOK ==
  /\ MirrorTypeOK
  /\ threads \in Seq(Threads)
  /\ table \in [Runs -> 0..Len(threads)]
  /\ call \in [Handlers -> Calls \cup {Idle}]
  /\ asked \in 0..MaxRequests
  /\ raced \subseteq Runs

\* The cap is tested before the awaits of a launch and the slot taken after
\* them: the runs that hold a slot, with the requests admitted and not yet
\* registered, exceed it by at most the number of other requests being handled.
\* (Two missions of one run, which the code does not rule out, are one entry.)
Admitted == {h \in Handlers : IsAdmitted(h)}
CapOvershoot ==
  Cardinality(Active) + Cardinality(Admitted) <=
    IF Cap = 0 THEN 0 ELSE Cap + Cardinality(Handlers) - 1

\* A mission whose run nobody else worked on meanwhile owns the log that is
\* there, and unless it is a factory's wave it is the one in the table, so
\* interrupt, shutdown and the cap see it.
TrackedAndAlone ==
  \A t \in Started :
    LET r == threads[t].run
    IN  Alive(t) /\ r \notin raced =>
          /\ ~IsWave(t) => table[r] = t
          /\ threads[t].stage \in {"writing", "returned"} =>
               Exists(r) /\ log[r].by = t

\* The rows of a run are those of a prefix of its log, as long as the offset;
\* after a wave made the log anew they are, until a reader has noticed, those
\* of an earlier log.  They are never a mixture of both, unless the new log had
\* grown past the offset when it was first looked at.
BeingDeleted(r) ==
  \E h \in Handlers : call[h].run = r /\ call[h].at \in {"removing", "unmirroring"}
RowsFollow(r) ==
  /\ Len(mirror[r].rows) <= Len(log[r].lines)
  /\ \A k \in 1..Len(mirror[r].rows) : mirror[r].rows[k] = Row(r, k)
RowsOutlived(r) ==
  /\ remade[r] = "unseen" \/ (reading.run = r /\ reading.reset)
  /\ \A k \in 1..Len(mirror[r].rows) : mirror[r].rows[k].by # log[r].by
MirrorIsPrefix ==
  \A r \in Runs \ raced :
    /\ Exists(r) /\ ~BeingDeleted(r) /\ remade[r] # "missed" =>
         /\ mirror[r].offset = Len(mirror[r].rows)
         /\ RowsFollow(r) \/ RowsOutlived(r)
    /\ remade[r] # "no" =>
         \E t \in Started : threads[t].run = r /\ IsWave(t)

\* A run whose directory was deleted leaves no rows: no reader that was slow to
\* commit brings them back.
NoGhostRows ==
  \A r \in Runs : mirror[r] # NoRows => Exists(r) \/ BeingDeleted(r)

\* A stream that was opened on the log that is there, or has shown lines of no
\* other, has shown the beginning of that log, without a gap and without rows
\* that the mirror had of an earlier one.
ShowsOnly(c, t) == \A k \in 1..Len(stream[c].sent) : stream[c].sent[k].by = t
StreamFollows ==
  \A c \in Clients :
    LET r == stream[c].run
        sent == stream[c].sent
    IN  (/\ r \in Runs \ raced /\ Exists(r) /\ remade[r] # "missed"
         /\ stream[c].of = log[r].by \/ ShowsOnly(c, log[r].by)) =>
          /\ Len(sent) <= Len(log[r].lines)
          /\ \A k \in 1..Len(sent) : sent[k] = Row(r, k)

\* What subscribers are told of a mission that returned is what it recorded.
ToldTheTruth ==
  \A t \in Started :
    threads[t].run \notin raced /\ threads[t].notice \in Ends =>
      threads[t].notice = threads[t].final

\* No stream ends for a run that the mirror has as running, which is to say
\* stale, while a mission that the console started on it is alive.  (The wave
\* of a factory is in no table: silent for long enough, it is called stale.)
StaleMeansDead ==
  [][\A c \in Clients :
       /\ stream[c].at = "status" /\ stream'[c].at = "closed"
       /\ mirror[stream[c].run].status = "running"
       => \A t \in Started :
            /\ threads[t].run = stream[c].run /\ threads[t].run \notin raced
            /\ ~IsWave(t)
            => ~Alive(t)]_vars

\* app.py:575: a stream is "run events: named `run-event` frames, then
\* `run-complete`"; when one is about to end it has sent the whole log.
CompleteComesLast ==
  \A c \in Clients :
    /\ stream[c].at = "status"
    /\ mirror[stream[c].run].status \in Ends
    => Len(stream[c].sent) = Len(log[stream[c].run].lines)
=============================================================================
