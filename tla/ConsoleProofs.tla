----------------------------- MODULE ConsoleProofs -----------------------------
(***************************************************************************)
(* What Console and Mirror keep whatever the runs, handlers, streams and   *)
(* bounds: type correctness, the soft cap on missions, that no reader      *)
(* brings the rows of a deleted run back, and that a mission nobody raced  *)
(* is tracked and owns its log.                                            *)
(***************************************************************************)
EXTENDS Console, FiniteSetTheorems, SequenceTheorems, TLAPS

USE ConsoleAssumption

-----------------------------------------------------------------------------
(***************************************************************************)
(* Type correctness.                                                       *)
(***************************************************************************)
LEMMA TypeInit == Init => TypeOK
BY DEF Init, MirrorInit, TypeOK, MirrorTypeOK, NoLog, NoRows, LineTypes, Ends

LEMMA CreateLogType ==
  ASSUME MirrorTypeOK, NEW r \in Runs, NEW t \in Nat, CreateLog(r, t),
         UNCHANGED <<mirror, reading, stream>>
  PROVE  MirrorTypeOK'
<1>1. [by |-> t, lines |-> <<>>] \in [by : Nat, lines : Seq(LineTypes)]
  BY EmptySeq
<1>2. log' \in [Runs -> [by : Nat, lines : Seq(LineTypes)]]
  BY <1>1 DEF MirrorTypeOK, CreateLog
<1>3. remade' \in [Runs -> {"no", "unseen", "missed"}]
  BY DEF MirrorTypeOK, CreateLog
<1> QED
  BY <1>2, <1>3 DEF MirrorTypeOK

LEMMA AppendLineType ==
  ASSUME MirrorTypeOK, NEW r \in Runs, NEW t \in Nat, NEW type \in LineTypes,
         AppendLine(r, t, type), UNCHANGED <<mirror, reading, stream, remade>>
  PROVE  MirrorTypeOK'
<1>1. log[r].lines \in Seq(LineTypes)
  BY DEF MirrorTypeOK
<1>2. Append(log[r].lines, type) \in Seq(LineTypes)
  BY <1>1
<1> DEFINE Logs == [by : Nat, lines : Seq(LineTypes)]
<1>3. log \in [Runs -> Logs]
  BY DEF MirrorTypeOK
<1> DEFINE lines == IF log[r].by = t THEN Append(log[r].lines, type)
                                     ELSE log[r].lines
<1>4. log' = [log EXCEPT ![r] = [log[r] EXCEPT !.lines = lines]]
  BY <1>3 DEF AppendLine
<1>5. lines \in Seq(LineTypes)
  BY <1>1, <1>2
<1> HIDE DEF lines
<1>6. [log[r] EXCEPT !.lines = lines] \in Logs
  BY <1>3, <1>5
<1> HIDE DEF Logs
<1>7. log' \in [Runs -> Logs]
  BY <1>3, <1>4, <1>6
<1> QED
  BY <1>7 DEF MirrorTypeOK, Logs

LEMMA RemoveLogType ==
  ASSUME MirrorTypeOK, NEW r \in Runs, RemoveLog(r),
         UNCHANGED <<mirror, reading, stream, remade>>
  PROVE  MirrorTypeOK'
<1>1. NoLog \in [by : Nat, lines : Seq(LineTypes)]
  BY EmptySeq DEF NoLog
<1>2. log' \in [Runs -> [by : Nat, lines : Seq(LineTypes)]]
  BY <1>1 DEF MirrorTypeOK, RemoveLog
<1> QED
  BY <1>2 DEF MirrorTypeOK

LEMMA ForgetRowsType ==
  ASSUME MirrorTypeOK, NEW r \in Runs, ForgetRows(r),
         UNCHANGED <<log, reading, stream>>
  PROVE  MirrorTypeOK'
<1>1. NoRows \in [offset : Nat, rows : Seq(Rows),
                status : {"none", "running"} \cup Ends]
  BY EmptySeq DEF NoRows
<1>2. remade' \in [Runs -> {"no", "unseen", "missed"}]
  BY DEF MirrorTypeOK, ForgetRows
<1> QED
  BY <1>1, <1>2 DEF MirrorTypeOK, ForgetRows

\* Whoever reads leaves a well-formed reading behind.
LEMMA MirrorReadType ==
  ASSUME MirrorTypeOK, NEW who \in Clients \cup {"poll"}, NEW r \in Runs,
         MirrorRead(who, r)
  PROVE  /\ reading' \in [who : Clients \cup {"poll"}, run : Runs,
                          reset : BOOLEAN, rows : Seq(Rows), consumed : Nat]
         /\ remade' \in [Runs -> {"no", "unseen", "missed"}]
<1>1. PICK torn \in Torn(r) :
        LET from == IF IsReset(r, torn) THEN 0 ELSE mirror[r].offset
            past == IF from < Len(log[r].lines) THEN Len(log[r].lines) - from
                                                ELSE 0
            rows == [k \in 1..past |-> Row(r, from + k)]
        IN  /\ reading' = [who |-> who, run |-> r, reset |-> IsReset(r, torn),
                           rows |-> rows, consumed |-> Consumed(rows, torn)]
            /\ remade' = [remade EXCEPT ![r] = Noticed(r, torn)]
  BY DEF MirrorRead
<1> DEFINE from == IF IsReset(r, torn) THEN 0 ELSE mirror[r].offset
           past == IF from < Len(log[r].lines) THEN Len(log[r].lines) - from
                                               ELSE 0
           rows == [k \in 1..past |-> Row(r, from + k)]
<1>2. log[r] \in [by : Nat, lines : Seq(LineTypes)] /\ mirror[r].offset \in Nat
  BY DEF MirrorTypeOK
<1>3. from \in Nat /\ past \in Nat
  BY <1>2
<1>4. ASSUME NEW k \in 1..past PROVE Row(r, from + k) \in Rows
  <2>1. from + k \in 1..Len(log[r].lines)
    BY <1>2, <1>3
  <2> QED
    BY <1>2, <2>1 DEF Row, Rows
<1>5. rows \in Seq(Rows) /\ Len(rows) \in Nat
  BY <1>3, <1>4
<1>6. IsReset(r, torn) \in BOOLEAN
  BY DEF IsReset
<1>7. Noticed(r, torn) \in {"no", "unseen", "missed"}
  BY DEF Noticed, MirrorTypeOK
<1> QED
  BY <1>1, <1>5, <1>6, <1>7 DEF Consumed, MirrorTypeOK

LEMMA MirrorCommitType ==
  ASSUME MirrorTypeOK, MirrorCommit
  PROVE  /\ mirror' \in [Runs -> [offset : Nat, rows : Seq(Rows),
                                  status : {"none", "running"} \cup Ends]]
         /\ reading' = Unlocked
<1>1. reading \in [who : Clients \cup {"poll"}, run : Runs, reset : BOOLEAN,
                   rows : Seq(Rows), consumed : Nat]
  BY DEF MirrorTypeOK, MirrorCommit, Free
<1> DEFINE old == IF reading.reset THEN NoRows ELSE mirror[reading.run]
<1>2. old \in [offset : Nat, rows : Seq(Rows),
               status : {"none", "running"} \cup Ends]
  BY <1>1 DEF MirrorTypeOK, NoRows
<1>3. StatusAfter(old.status, reading.rows) \in {"none", "running"} \cup Ends
  BY <1>2 DEF StatusAfter, Ends
<1>4. old.rows \o reading.rows \in Seq(Rows)
  BY <1>1, <1>2
<1>5. old.offset + reading.consumed \in Nat
  BY <1>1, <1>2
<1> QED
  BY <1>1, <1>3, <1>4, <1>5 DEF MirrorTypeOK, MirrorCommit

LEMMA SendEventsType ==
  ASSUME MirrorTypeOK, NEW c \in Clients, SendEvents(c)
  PROVE  MirrorTypeOK'
<1>1. stream[c] \in Streaming
  BY DEF MirrorTypeOK, SendEvents, Streams, Closed
<1> DEFINE rows == mirror[stream[c].run].rows
<1>2. rows \in Seq(Rows) /\ stream[c].last \in Nat /\ stream[c].sent \in Seq(Rows)
  BY <1>1 DEF MirrorTypeOK, Streaming
<1>3. Len(rows) \in Nat
  BY <1>2
<1>4. NewRows(c) \in Seq(Rows)
  <2>1. ASSUME NEW k \in (stream[c].last + 1)..Len(rows) PROVE rows[k] \in Rows
    BY <1>2
  <2>2. NewRows(c) = SubSeq(rows, stream[c].last + 1, Len(rows))
    BY DEF NewRows
  <2> HIDE DEF rows
  <2> QED
    BY <1>2, <1>3, <2>1, <2>2
<1>5. stream[c].sent \o NewRows(c) \in Seq(Rows)
  BY <1>2, <1>4
<1> DEFINE new == [stream[c] EXCEPT
                     !.at = IF NewRows(c) = <<>> THEN "status" ELSE "busy",
                     !.sent = @ \o NewRows(c),
                     !.last = IF @ < Len(rows) THEN Len(rows) ELSE @]
<1>6. new \in Streaming
  BY <1>1, <1>2, <1>3, <1>5 DEF Streaming
<1>7. stream' = [stream EXCEPT ![c] = new]
  BY DEF SendEvents, MirrorTypeOK
<1>8. UNCHANGED <<log, mirror, reading, remade>>
  BY DEF SendEvents
<1> HIDE DEF new
<1> QED
  BY <1>6, <1>7, <1>8 DEF MirrorTypeOK

\* A stream that is at some point of its round may go to any other.
LEMMA StreamToType ==
  ASSUME MirrorTypeOK, NEW c \in Clients, stream[c] # Closed,
         NEW at \in {"mirror", "committing", "events", "busy", "status"},
         StreamTo(c, at)
  PROVE  stream' \in [Clients -> Streaming \cup {Closed}]
<1>1. stream[c] \in Streaming
  BY DEF MirrorTypeOK
<1>2. [stream[c] EXCEPT !.at = at] \in Streaming
  BY <1>1 DEF Streaming
<1> QED
  BY <1>2 DEF MirrorTypeOK, StreamTo

LEMMA MirroringType == MirrorTypeOK /\ Mirroring => MirrorTypeOK'
<1> SUFFICES ASSUME MirrorTypeOK, Mirroring PROVE MirrorTypeOK'
  OBVIOUS
<1>1. ASSUME NEW c \in Clients, NEW r \in Runs, OpenStream(c, r)
      PROVE  MirrorTypeOK'
  <2>1. stream[c] = Closed
    BY <1>1 DEF OpenStream, Streams, MirrorTypeOK, Streaming
  <2> DEFINE new == [Closed EXCEPT !.run = r, !.of = log[r].by, !.at = "mirror"]
  <2>2. new \in Streaming
    BY EmptySeq DEF Closed, Streaming, MirrorTypeOK
  <2>3. stream' = [stream EXCEPT ![c] = new]
    BY <1>1, <2>1 DEF OpenStream, MirrorTypeOK
  <2>4. stream' \in [Clients -> Streaming \cup {Closed}]
    BY <2>2, <2>3 DEF MirrorTypeOK
  <2> QED
    BY <1>1, <2>4 DEF OpenStream, MirrorTypeOK
<1>2. ASSUME NEW c \in Clients, StreamRead(c) PROVE MirrorTypeOK'
  <2>1. stream[c] # Closed
    BY <1>2 DEF StreamRead, Streams, Closed
  <2>2. stream[c].run \in Runs
    BY <2>1 DEF MirrorTypeOK, Streaming
  <2>3. CASE UNCHANGED <<reading, remade>> /\ StreamTo(c, "events")
    BY <1>2, <2>1, <2>3, StreamToType DEF StreamRead, MirrorTypeOK
  <2>4. CASE MirrorRead(c, stream[c].run) /\ StreamTo(c, "committing")
    BY <1>2, <2>1, <2>2, <2>4, StreamToType, MirrorReadType
       DEF StreamRead, MirrorTypeOK
  <2> QED
    BY <1>2, <2>3, <2>4 DEF StreamRead
<1>3. ASSUME NEW c \in Clients, StreamCommit(c) PROVE MirrorTypeOK'
  <2>1. stream[c] # Closed
    BY <1>3 DEF StreamCommit, Streams, Closed
  <2> QED
    BY <1>3, <2>1, StreamToType, MirrorCommitType DEF StreamCommit, MirrorTypeOK
<1>4. ASSUME NEW c \in Clients, SendEvents(c) PROVE MirrorTypeOK'
  BY <1>4, SendEventsType
<1>5. ASSUME NEW c \in Clients, NEW alive, CheckStatus(c, alive)
      PROVE  MirrorTypeOK'
  <2>1. stream[c] # Closed
    BY <1>5 DEF CheckStatus, Streams, Closed
  <2>2. EndsStream(c) \/ StreamTo(c, "mirror")
    BY <1>5 DEF CheckStatus
  <2>3. stream' \in [Clients -> Streaming \cup {Closed}]
    BY <2>1, <2>2, StreamToType DEF EndsStream, MirrorTypeOK
  <2> QED
    BY <1>5, <2>3 DEF CheckStatus, MirrorTypeOK
<1>6. ASSUME NEW c \in Clients, LeaveStream(c) PROVE MirrorTypeOK'
  BY <1>6 DEF LeaveStream, EndsStream, MirrorTypeOK
<1>7. ASSUME NEW r \in Runs, PollRead(r) PROVE MirrorTypeOK'
  BY <1>7, MirrorReadType DEF PollRead, MirrorTypeOK
<1>8. CASE PollCommit
  BY <1>8, MirrorCommitType DEF PollCommit, MirrorTypeOK
<1>9. CASE PollRaises
  BY <1>9 DEF PollRaises, MirrorRaises, MirrorTypeOK
<1>10. ASSUME NEW c \in Clients, StreamRaises(c) PROVE MirrorTypeOK'
  BY <1>10 DEF StreamRaises, MirrorRaises, EndsStream, MirrorTypeOK
<1> QED
  BY <1>1, <1>2, <1>3, <1>4, <1>5, <1>6, <1>7, <1>8, <1>9, <1>10 DEF Mirroring

\* A thread is replaced by what it has become; the others stay.
LEMMA ThreadStep ==
  ASSUME threads \in Seq(Threads), NEW t \in Started, NEW new \in Threads,
         threads' = [threads EXCEPT ![t] = new]
  PROVE  /\ threads' \in Seq(Threads) /\ Len(threads') = Len(threads)
         /\ Started' = Started /\ threads'[t] = new
         /\ \A u \in Started : u # t => threads'[u] = threads[u]
BY ExceptSeq DEF Started

LEMMA ThreadAppended ==
  ASSUME threads \in Seq(Threads), NEW new \in Threads,
         threads' = Append(threads, new)
  PROVE  /\ threads' \in Seq(Threads) /\ Len(threads') = Len(threads) + 1
         /\ threads'[Len(threads) + 1] = new
         /\ \A u \in Started : threads'[u] = threads[u]
         /\ Started' = Started \cup {Len(threads) + 1}
         /\ Len(threads) \in Nat /\ Len(threads) + 1 \notin Started
BY DEF Started

\* What a step of a mission makes of its thread.
Moves(old, new) ==
  /\ new.run = old.run /\ new.as = old.as
  /\ \/ new.stage \in {old.stage, "dead"}
     \/ old.stage = "starting" /\ new.stage = "writing"
     \/ old.stage = "writing" /\ new.stage = "returned"
After(t) ==
  /\ threads' = [threads EXCEPT ![t] = threads'[t]] /\ threads'[t] \in Threads
  /\ Moves(threads[t], threads'[t])

LEMMA Becomes ==
  ASSUME threads \in Seq(Threads), NEW t \in Started, NEW new \in Threads,
         Moves(threads[t], new), threads' = [threads EXCEPT ![t] = new]
  PROVE  After(t)
BY ThreadStep DEF After

LEMMA MissionStep ==
  ASSUME TypeOK, NEW t \in Started, NEW status \in Ends,
         \/ StartLog(t) \/ Write(t) \/ Complete(t, status) \/ Return(t)
         \/ Exit(t) \/ Raise(t) \/ Notify(t)
  PROVE  After(t)
<1>1. /\ threads \in Seq(Threads) /\ threads[t] \in Threads
      /\ DOMAIN threads = Started
  BY DEF TypeOK, Started
<1>2. FinalStatus(threads[t].run) \in Ends
  BY DEF FinalStatus, Ends
<1>3. CASE StartLog(t)
  <2> DEFINE new == [threads[t] EXCEPT !.stage = "writing"]
  <2>1. new \in Threads /\ Moves(threads[t], new)
    BY <1>1, <1>3 DEF Threads, Moves, StartLog, Stage
  <2>2. threads' = [threads EXCEPT ![t] = new]
    BY <1>1, <1>3 DEF StartLog
  <2> HIDE DEF new
  <2> QED
    BY <1>1, <2>1, <2>2, Becomes
<1>4. CASE Write(t)
  <2> DEFINE wrote == threads[t].wrote + 1
             new == [threads[t] EXCEPT !.wrote = wrote]
  <2>1. new \in Threads /\ Moves(threads[t], new)
    <3>1. new \in Threads
      <4>1. wrote \in Nat
        BY <1>1 DEF Threads
      <4> HIDE DEF wrote
      <4> QED
        BY <1>1, <4>1 DEF Threads
    <3>2. Moves(threads[t], new)
      BY <1>1, <1>4 DEF Threads, Moves, Write, Stage
    <3> QED
      BY <3>1, <3>2
  <2>2. threads' = [threads EXCEPT ![t] = new]
    BY <1>1, <1>4 DEF Write
  <2> HIDE DEF new
  <2> QED
    BY <1>1, <2>1, <2>2, Becomes
<1>5. CASE Complete(t, status)
  <2> DEFINE new == [threads[t] EXCEPT !.final = status]
  <2>1. new \in Threads /\ Moves(threads[t], new)
    BY <1>1, <1>5 DEF Threads, Moves, Complete, Stage
  <2>2. threads' = [threads EXCEPT ![t] = new]
    BY <1>1, <1>5 DEF Complete
  <2> HIDE DEF new
  <2> QED
    BY <1>1, <2>1, <2>2, Becomes
<1>6. CASE Return(t)
  <2> DEFINE new == [threads[t] EXCEPT !.stage = "returned"]
  <2>1. new \in Threads /\ Moves(threads[t], new)
    BY <1>1, <1>6 DEF Threads, Moves, Return, Stage
  <2>2. threads' = [threads EXCEPT ![t] = new]
    BY <1>1, <1>6 DEF Return
  <2> HIDE DEF new
  <2> QED
    BY <1>1, <2>1, <2>2, Becomes
<1>7. CASE Exit(t)
  <2> DEFINE new == [threads[t] EXCEPT !.stage = "dead",
                       !.notice = IF @ = "due" THEN "pending" ELSE @]
  <2>1. new \in Threads /\ Moves(threads[t], new)
    BY <1>1, <1>7 DEF Threads, Moves, Exit, Stage
  <2>2. threads' = [threads EXCEPT ![t] = new]
    BY <1>1, <1>7 DEF Exit
  <2> HIDE DEF new
  <2> QED
    BY <1>1, <2>1, <2>2, Becomes
<1>8. CASE Raise(t)
  <2> DEFINE new == [threads[t] EXCEPT !.stage = "dead",
                       !.notice = IF @ = "due" THEN "error" ELSE @]
  <2>1. new \in Threads /\ Moves(threads[t], new)
    BY <1>1, <1>8 DEF Threads, Moves, Raise, Stage
  <2>2. threads' = [threads EXCEPT ![t] = new]
    BY <1>1, <1>8 DEF Raise
  <2> HIDE DEF new
  <2> QED
    BY <1>1, <2>1, <2>2, Becomes
<1>9. CASE Notify(t)
  <2> DEFINE new == [threads[t] EXCEPT !.notice = FinalStatus(threads[t].run)]
  <2>1. new \in Threads /\ Moves(threads[t], new)
    BY <1>1, <1>2, <1>9 DEF Threads, Moves, Notify, Stage
  <2>2. threads' = [threads EXCEPT ![t] = new]
    BY <1>1, <1>9 DEF Notify
  <2> HIDE DEF new
  <2> QED
    BY <1>1, <2>1, <2>2, Becomes
<1> QED
  BY <1>3, <1>4, <1>5, <1>6, <1>7, <1>8, <1>9

\* Every request that enters fills a free handler and takes its number.
Asks(h, r, at) ==
  /\ call[h] = Idle /\ Sets(h, r, at)
  /\ asked' \in {asked + 1, MaxRequests} /\ asked < MaxRequests
  /\ raced' \in {raced, raced \cup {r}}
  /\ UNCHANGED <<log, mirror, reading, stream, remade, threads, table>>

LEMMA AskIsOne ==
  ASSUME NEW h \in Handlers, NEW r \in Runs, NEW source \in Runs,
         MayAsk(h),
         \/ AskLaunch(h, r) \/ AskDelete(h, r)
         \/ AskResume(h, source, r) \/ AskReplay(h, source, r)
  PROVE  \E at \in {"launching", "deriving", "removing"} :
           /\ Asks(h, r, at)
           /\ at # "removing" => HasRoom /\ IsFreshSlug(r) /\ Enter(r, AtWork(r))
           /\ at = "removing" => /\ ~ManagedAndAlive(r)
                                /\ Enter(r, AtWork(r) \/ ToBeTold(r))
BY DEF AskLaunch, AskDelete, AskResume, AskReplay, AskDerived, Admit, Enter, Asks,
       MayAsk, mirrorVars

LEMMA RequestsType == TypeOK /\ Requests => TypeOK'
<1> SUFFICES ASSUME TypeOK, Requests PROVE TypeOK'
  OBVIOUS
<1>1. PICK h \in Handlers :
        \/ MayAsk(h) /\ \E r \in Runs :
             \/ AskLaunch(h, r) \/ AskDelete(h, r)
             \/ \E source \in Runs : \/ AskResume(h, source, r)
                                    \/ AskReplay(h, source, r)
        \/ TurnDown(h) \/ Register(h)
        \/ RemoveDirectory(h) \/ DeleteRows(h) \/ PopEntry(h)
  BY DEF Requests
<1>2. call[h] # Idle => call[h] \in Calls /\ call[h].run \in Runs
  BY DEF TypeOK, Calls
<1>3. Idle.at = "idle"
  BY DEF Idle
<1>4. ASSUME NEW r \in Runs, NEW at \in {"launching", "deriving", "removing"},
             Asks(h, r, at)
      PROVE  TypeOK'
  <2>1. call' \in [Handlers -> Calls \cup {Idle}]
    BY <1>4 DEF Asks, Sets, TypeOK, Calls
  <2>2. raced' \subseteq Runs /\ asked' \in 0..MaxRequests
    BY <1>4 DEF Asks, TypeOK
  <2>3. UNCHANGED <<log, mirror, reading, stream, remade, threads, table>>
    BY <1>4 DEF Asks
  <2> QED
    BY <2>1, <2>2, <2>3 DEF TypeOK, MirrorTypeOK
<1>5. CASE TurnDown(h)
  BY <1>5 DEF TurnDown, Drops, TypeOK, MirrorTypeOK, mirrorVars
<1>6. CASE Register(h)
  <2>1. call[h].run \in Runs
    BY <1>2, <1>3, <1>6 DEF Register, IsAdmitted
  <2> DEFINE new == NewThread(call[h].run, call[h].at)
  <2>2. new \in Threads
    BY <1>6, <2>1 DEF NewThread, Threads, Register, IsAdmitted
  <2>3. threads' = Append(threads, new) /\ threads \in Seq(Threads)
    BY <1>6 DEF Register, TypeOK
  <2> HIDE DEF new
  <2>4. /\ threads' \in Seq(Threads) /\ Len(threads') = Len(threads) + 1
        /\ Len(threads) \in Nat
    BY <2>2, <2>3, ThreadAppended
  <2>5. table' \in [Runs -> 0..Len(threads')]
    BY <1>6, <2>1, <2>4 DEF Register, TypeOK
  <2>6. call' \in [Handlers -> Calls \cup {Idle}]
    BY <1>6 DEF Register, Drops, TypeOK
  <2>7. UNCHANGED <<log, mirror, reading, stream, remade, asked, raced>>
    BY <1>6 DEF Register, mirrorVars
  <2> QED
    BY <2>4, <2>5, <2>6, <2>7 DEF TypeOK, MirrorTypeOK
<1>7. CASE RemoveDirectory(h)
  <2>1. call[h].run \in Runs
    BY <1>2, <1>3, <1>7 DEF RemoveDirectory
  <2>2. MirrorTypeOK'
    BY <1>7, <2>1, RemoveLogType DEF RemoveDirectory, TypeOK
  <2>3. call' \in [Handlers -> Calls \cup {Idle}]
    BY <1>7, <2>1 DEF RemoveDirectory, Sets, TypeOK, Calls
  <2> QED
    BY <1>7, <2>2, <2>3 DEF RemoveDirectory, TypeOK
<1>8. CASE DeleteRows(h)
  <2>1. call[h].run \in Runs
    BY <1>2, <1>3, <1>8 DEF DeleteRows
  <2>2. MirrorTypeOK'
    BY <1>8, <2>1, ForgetRowsType DEF DeleteRows, TypeOK
  <2>3. call' \in [Handlers -> Calls \cup {Idle}]
    BY <1>8, <2>1 DEF DeleteRows, Sets, TypeOK, Calls
  <2> QED
    BY <1>8, <2>2, <2>3 DEF DeleteRows, TypeOK
<1>9. CASE PopEntry(h)
  <2>1. table' \in [Runs -> 0..Len(threads)]
    <3>1. 0 \in 0..Len(threads)
      BY DEF TypeOK
    <3> QED
      BY <1>9, <3>1 DEF PopEntry, TypeOK
  <2>2. call' \in [Handlers -> Calls \cup {Idle}]
    BY <1>9 DEF PopEntry, Drops, TypeOK
  <2> QED
    BY <1>9, <2>1, <2>2 DEF PopEntry, TypeOK, MirrorTypeOK, mirrorVars
<1> QED
  BY <1>1, <1>4, <1>5, <1>6, <1>7, <1>8, <1>9, AskIsOne

LEMMA MissionsType == TypeOK /\ Missions => TypeOK'
<1> SUFFICES ASSUME TypeOK, NEW t \in Started, NEW status \in Ends,
                    \/ StartLog(t) \/ Write(t) \/ Complete(t, status)
                    \/ Return(t) \/ Exit(t) \/ Raise(t) \/ Notify(t)
             PROVE  TypeOK'
  <2>1. Ends # {}
    BY DEF Ends
  <2> QED
    BY <2>1 DEF Missions
<1>1. /\ threads \in Seq(Threads) /\ threads[t].run \in Runs
      /\ t \in Nat /\ Len(threads) \in Nat
  <2>1. threads \in Seq(Threads)
    BY DEF TypeOK
  <2>2. threads[t] \in Threads /\ t \in Nat /\ Len(threads) \in Nat
    BY <2>1 DEF Started
  <2> QED
    BY <2>1, <2>2 DEF Threads
<1>2. threads' \in Seq(Threads) /\ Len(threads') = Len(threads)
  <2>1. After(t)
    BY MissionStep
  <2> QED
    BY <1>1, <2>1, ThreadStep DEF After
<1>3. UNCHANGED <<mirror, reading, stream, table, call, asked, raced>>
  BY DEF StartLog, Write, Complete, Return, Exit, Raise, Notify, mirrorVars
<1>4. MirrorTypeOK'
  <2>1. CASE UNCHANGED <<log, remade>>
    BY <1>3, <2>1 DEF TypeOK, MirrorTypeOK
  <2>2. CASE StartLog(t)
    BY <1>1, <1>3, <2>2, CreateLogType DEF StartLog, TypeOK
  <2>3. CASE Write(t)
    BY <1>1, <1>3, <2>3, AppendLineType DEF Write, TypeOK, LineTypes
  <2>4. CASE Complete(t, status)
    BY <1>1, <1>3, <2>4, AppendLineType DEF Complete, TypeOK, LineTypes
  <2> QED
    BY <2>1, <2>2, <2>3, <2>4 DEF Return, Exit, Raise, Notify, mirrorVars
<1> QED
  BY <1>2, <1>3, <1>4 DEF TypeOK

\* A wave that starts is a thread like the others, but in no table.
LEMMA WaveAppended ==
  ASSUME TypeOK, NEW r \in Runs, StartWave(r)
  PROVE  /\ threads' \in Seq(Threads) /\ Len(threads') = Len(threads) + 1
         /\ threads'[Len(threads) + 1] = NewThread(r, "wave")
         /\ NewThread(r, "wave") \in Threads
         /\ \A u \in Started : threads'[u] = threads[u]
         /\ Started' = Started \cup {Len(threads) + 1}
         /\ Len(threads) \in Nat /\ Len(threads) + 1 \notin Started
         /\ asked' \in {asked + 1, MaxRequests} /\ asked < MaxRequests
         /\ raced' \in {raced, raced \cup {r}}
         /\ HasMission(r) \/ AtWork(r) \/ ToBeTold(r) => r \in raced'
         /\ UNCHANGED <<log, mirror, reading, stream, remade, table, call>>
<1>1. NewThread(r, "wave") \in Threads
  BY DEF NewThread, Threads
<1>2. threads' = Append(threads, NewThread(r, "wave")) /\ threads \in Seq(Threads)
  BY DEF StartWave, TypeOK
<1> HIDE DEF NewThread
<1>3. /\ asked' \in {asked + 1, MaxRequests} /\ asked < MaxRequests
      /\ raced' \in {raced, raced \cup {r}}
      /\ HasMission(r) \/ AtWork(r) \/ ToBeTold(r) => r \in raced'
      /\ UNCHANGED <<log, mirror, reading, stream, remade, table, call>>
  BY DEF StartWave, Enter, mirrorVars
<1> QED
  BY <1>1, <1>2, <1>3, ThreadAppended

LEMMA WavesType == TypeOK /\ Waves => TypeOK'
<1> SUFFICES ASSUME TypeOK, NEW r \in Runs, StartWave(r) PROVE TypeOK'
  BY DEF Waves
<1>1. table' \in [Runs -> 0..Len(threads')]
  BY WaveAppended DEF TypeOK
<1>2. raced' \subseteq Runs /\ asked' \in 0..MaxRequests
  BY WaveAppended DEF TypeOK
<1> QED
  BY <1>1, <1>2, WaveAppended DEF TypeOK, MirrorTypeOK

LEMMA TypeStep == TypeOK /\ [Next]_vars => TypeOK'
<1>1. CASE Mirroring
  BY <1>1, MirroringType DEF Mirroring, consoleVars, TypeOK
<1>2. CASE UNCHANGED vars
  BY <1>2 DEF vars, TypeOK, MirrorTypeOK
<1> QED
  BY <1>1, <1>2, RequestsType, WavesType, MissionsType DEF Next

\* Whatever happens, every variable keeps its type.
THEOREM TypeCorrect == Spec => []TypeOK
<1> QED
  BY TypeInit, TypeStep, PTL DEF Spec

-----------------------------------------------------------------------------
(***************************************************************************)
(* The soft cap.  What an admission adds was below the cap when it was     *)
(* tested; what a registration adds to the running missions it takes from  *)
(* the admitted ones; nothing else adds to either.                         *)
(***************************************************************************)
LEMMA Finite ==
  /\ IsFiniteSet(Active) /\ IsFiniteSet(Admitted)
  /\ Cardinality(Active) \in Nat /\ Cardinality(Admitted) \in Nat
  /\ Cardinality(Handlers) \in Nat
  /\ Cardinality(Admitted) <= Cardinality(Handlers)
<1>1. Active \subseteq Runs /\ Admitted \subseteq Handlers
  BY DEF Active, Admitted
<1> QED
  BY <1>1, FS_Subset, FS_CardinalityType

LEMMA FiniteNext ==
  /\ IsFiniteSet(Active') /\ IsFiniteSet(Admitted')
  /\ Cardinality(Active') \in Nat /\ Cardinality(Admitted') \in Nat
  /\ Cardinality(Admitted') <= Cardinality(Handlers)
<1>1. Active' \subseteq Runs /\ Admitted' \subseteq Handlers
  BY DEF Active, Admitted
<1> QED
  BY <1>1, FS_Subset, FS_CardinalityType

LEMMA CapNotRaised ==
  ASSUME CapOvershoot, Active' \subseteq Active, Admitted' \subseteq Admitted
  PROVE  CapOvershoot'
<1>1. /\ Cardinality(Active') <= Cardinality(Active)
      /\ Cardinality(Admitted') <= Cardinality(Admitted)
  BY Finite, FS_Subset
<1> QED
  BY <1>1, Finite, FiniteNext DEF CapOvershoot

LEMMA MissionKeepsThreads ==
  ASSUME TypeOK, NEW t \in Started, NEW status \in Ends,
         \/ StartLog(t) \/ Write(t) \/ Complete(t, status) \/ Return(t)
         \/ Exit(t) \/ Raise(t) \/ Notify(t)
  PROVE  /\ Started' = Started
         /\ Moves(threads[t], threads'[t])
         /\ \A u \in Started : u # t => threads'[u] = threads[u]
         /\ UNCHANGED <<table, call, raced>>
<1>1. threads \in Seq(Threads) /\ After(t)
  BY MissionStep DEF TypeOK
<1>2. UNCHANGED <<table, call, raced>>
  BY DEF StartLog, Write, Complete, Return, Exit, Raise, Notify
<1> QED
  BY <1>1, <1>2, ThreadStep DEF After

LEMMA CapStep == TypeOK /\ CapOvershoot /\ [Next]_vars => CapOvershoot'
<1> SUFFICES ASSUME TypeOK, CapOvershoot, [Next]_vars PROVE CapOvershoot'
  OBVIOUS
<1>1. ASSUME UNCHANGED <<threads, table, call>> PROVE CapOvershoot'
  <2>1. Active' = Active /\ Admitted' = Admitted
    BY <1>1 DEF Active, Admitted, HoldsSlot, Started, IsAdmitted
  <2> QED
    BY <2>1, CapNotRaised
<1>2. CASE Missions
  <2>1. PICK t \in Started :
          \/ StartLog(t) \/ Write(t) \/ Return(t) \/ Raise(t) \/ Exit(t)
          \/ Notify(t) \/ \E status \in Ends : Complete(t, status)
    BY <1>2 DEF Missions
  <2>2. /\ Started' = Started /\ Moves(threads[t], threads'[t])
        /\ \A u \in Started : u # t => threads'[u] = threads[u]
        /\ UNCHANGED <<table, call, raced>>
    <3>1. "failed" \in Ends
      BY DEF Ends
    <3> QED
      BY <2>1, <3>1, MissionKeepsThreads
  <2>3. \A u \in Started : HoldsSlot(u)' => HoldsSlot(u)
    BY <2>2 DEF HoldsSlot, Moves
  <2>4. Active' \subseteq Active /\ Admitted' = Admitted
    BY <2>2, <2>3 DEF Active, Admitted, IsAdmitted
  <2> QED
    BY <2>4, CapNotRaised
<1>3. ASSUME NEW h \in Handlers, NEW r \in Runs,
             NEW at \in {"launching", "deriving", "removing"},
             Asks(h, r, at), at # "removing" => HasRoom
      PROVE  CapOvershoot'
  <2>1. Active' = Active
    BY <1>3 DEF Asks, Active, HoldsSlot, Started
  <2>2. CASE at = "removing"
    <3>1. Admitted' \subseteq Admitted
      BY <1>3, <2>2 DEF Asks, Sets, Admitted, IsAdmitted, TypeOK
    <3> QED
      BY <2>1, <3>1, CapNotRaised
  <2>3. CASE at # "removing"
    <3>1. Cardinality(Active') < Cap
      BY <1>3, <2>1, <2>3 DEF HasRoom
    <3> QED
      BY <3>1, Finite, FiniteNext DEF CapOvershoot
  <2> QED
    BY <2>2, <2>3
<1>4. ASSUME NEW h \in Handlers, TurnDown(h) PROVE CapOvershoot'
  <2>1. Active' = Active /\ Admitted' \subseteq Admitted
    BY <1>4 DEF TurnDown, Drops, Active, HoldsSlot, Started, Admitted, IsAdmitted,
                Idle, TypeOK
  <2> QED
    BY <2>1, CapNotRaised
<1>5. ASSUME NEW h \in Handlers, Register(h) PROVE CapOvershoot'
  <2>1. /\ \A u \in Started : threads'[u] = threads[u]
        /\ Started' = Started \cup {Len(threads) + 1}
        /\ Len(threads) + 1 \notin Started
    <3>1. NewThread(call[h].run, call[h].at) \in Threads
      BY <1>5 DEF Register, IsAdmitted, Idle, TypeOK, Calls, NewThread, Threads
    <3> QED
      BY <1>5, <3>1, ThreadAppended DEF Register, TypeOK
  <2>2. ASSUME NEW r \in Active', r # call[h].run PROVE r \in Active
    <3>1. table'[r] = table[r] /\ table[r] # Len(threads) + 1 /\ r \in Runs
      BY <1>5, <2>2 DEF Register, Active, TypeOK
    <3>2. table[r] \in Started /\ HoldsSlot(table[r])'
      BY <2>1, <2>2, <3>1 DEF Active, HoldsSlot
    <3> QED
      BY <2>1, <3>1, <3>2 DEF Active, HoldsSlot
  <2>3. Admitted' = Admitted \ {h} /\ h \in Admitted
    BY <1>5 DEF Register, Drops, Admitted, IsAdmitted, Idle, TypeOK
  <2>4. Cardinality(Admitted') = Cardinality(Admitted) - 1
    BY <2>3, Finite, FS_RemoveElement
  <2>5. Cardinality(Active') <= Cardinality(Active) + 1
    <3>1. /\ IsFiniteSet(Active \cup {call[h].run})
          /\ \/ Cardinality(Active \cup {call[h].run}) = Cardinality(Active)
             \/ Cardinality(Active \cup {call[h].run}) = Cardinality(Active) + 1
      <4> DEFINE A == Active
                 x == call[h].run
      <4>1. IsFiniteSet(A)
        BY Finite
      <4> HIDE DEF A, x
      <4>2. /\ IsFiniteSet(A \cup {x})
            /\ \/ Cardinality(A \cup {x}) = Cardinality(A)
               \/ Cardinality(A \cup {x}) = Cardinality(A) + 1
        BY <4>1, FS_AddElement
      <4> QED
        BY <4>2 DEF A, x
    <3>2. Cardinality(Active') <= Cardinality(Active \cup {call[h].run})
      BY <2>2, <3>1, FS_Subset
    <3>3. Cardinality(Active \cup {call[h].run}) \in Nat
      BY <3>1, FS_CardinalityType
    <3> QED
      BY <3>1, <3>2, <3>3, Finite, FiniteNext
  <2> QED
    BY <2>4, <2>5, Finite, FiniteNext DEF CapOvershoot
<1>6. ASSUME NEW h \in Handlers,
             RemoveDirectory(h) \/ DeleteRows(h) \/ PopEntry(h)
      PROVE  CapOvershoot'
  <2>1. Admitted' \subseteq Admitted
    BY <1>6 DEF RemoveDirectory, DeleteRows, PopEntry, Sets, Drops, Idle, Admitted,
                IsAdmitted, TypeOK
  <2>2. Active' \subseteq Active
    BY <1>6 DEF RemoveDirectory, DeleteRows, PopEntry, Active, HoldsSlot, Started,
                TypeOK
  <2> QED
    BY <2>1, <2>2, CapNotRaised
<1>7. CASE Requests
  BY <1>3, <1>4, <1>5, <1>6, <1>7, AskIsOne DEF Requests
<1>8. CASE Mirroring \/ UNCHANGED vars
  BY <1>1, <1>8 DEF Mirroring, consoleVars, vars
<1>9. ASSUME NEW r \in Runs, StartWave(r) PROVE CapOvershoot'
  <2>1. /\ \A u \in Started : threads'[u] = threads[u]
        /\ Started' = Started \cup {Len(threads) + 1}
        /\ Len(threads) \in Nat /\ UNCHANGED <<table, call>>
    BY <1>9, WaveAppended
  <2>2. \A q \in Runs : table[q] # Len(threads) + 1
    BY <2>1 DEF TypeOK
  <2>3. Active' \subseteq Active
    BY <2>1, <2>2 DEF Active, HoldsSlot
  <2>4. Admitted' = Admitted
    BY <2>1 DEF Admitted, IsAdmitted
  <2> QED
    BY <2>3, <2>4, CapNotRaised
<1> QED
  BY <1>2, <1>7, <1>8, <1>9 DEF Next, Waves

\* The missions in the table and those about to enter it exceed the cap by at
\* most the other requests that are being handled.
THEOREM SoftCap == Spec => []CapOvershoot
<1>1. Init => CapOvershoot
  <2> SUFFICES ASSUME Init PROVE CapOvershoot
    OBVIOUS
  <2>1. Active = {} /\ Admitted = {}
    BY DEF Init, Active, Started, Admitted, IsAdmitted, Idle
  <2>2. Cardinality({}) = 0 /\ Cardinality(Handlers) \in Nat
    BY FS_EmptySet, Finite
  <2> QED
    BY <2>1, <2>2 DEF CapOvershoot
<1> QED
  BY <1>1, TypeInit, TypeStep, CapStep, PTL DEF Spec

-----------------------------------------------------------------------------
(***************************************************************************)
(* Deletions and slow readers.  What a reader holds belongs to a run that  *)
(* has a log or is being deleted; such a run stays so until a deletion has *)
(* had the lock and dropped its rows.                                      *)
(***************************************************************************)
LEMMA AppendKeepsLogs ==
  ASSUME TypeOK, NEW r \in Runs, NEW t \in Started, NEW type,
         AppendLine(r, t, type)
  PROVE  \A q \in Runs : log'[q].by = log[q].by /\ (Exists(q) => Exists(q)')
<1>1. log \in [Runs -> [by : Nat, lines : Seq(LineTypes)]] /\ t # 0
  BY DEF TypeOK, MirrorTypeOK, Started
<1>2. log'[r].by = log[r].by /\ \A q \in Runs : q # r => log'[q] = log[q]
  BY <1>1 DEF AppendLine
<1>3. log[r].by # t => log'[r] = log[r]
  BY <1>1 DEF AppendLine
<1>4. log[r].by = t => log'[r] # NoLog
  BY <1>1, <1>2 DEF NoLog
<1> QED
  BY <1>2, <1>3, <1>4 DEF Exists

LEMMA MissionKeepsLogs ==
  ASSUME TypeOK, NEW t \in Started, NEW status \in Ends,
         \/ StartLog(t) \/ Write(t) \/ Complete(t, status) \/ Return(t)
         \/ Exit(t) \/ Raise(t) \/ Notify(t)
  PROVE  /\ threads[t].run \in Runs
         /\ \A q \in Runs : Exists(q) => Exists(q)'
         /\ \A q \in Runs :
              log'[q].by = log[q].by \/ (StartLog(t) /\ q = threads[t].run)
         /\ StartLog(t) =>
              log'[threads[t].run] # NoLog /\ log'[threads[t].run].by = t
         /\ UNCHANGED <<mirror, reading, call>>
<1>1. threads[t].run \in Runs /\ t # 0
  <2>1. threads \in Seq(Threads)
    BY DEF TypeOK
  <2>2. threads[t] \in Threads /\ t # 0
    BY <2>1 DEF Started
  <2> QED
    BY <2>2 DEF Threads
<1>2. UNCHANGED <<mirror, reading, call>>
  BY DEF StartLog, Write, Complete, Return, Exit, Raise, Notify, mirrorVars
<1>3. CASE StartLog(t)
  <2>1. log' = [log EXCEPT ![threads[t].run] = [by |-> t, lines |-> <<>>]]
    BY <1>3 DEF StartLog, CreateLog
  <2>2. DOMAIN log = Runs
    BY DEF TypeOK, MirrorTypeOK
  <2>3. [by |-> t, lines |-> <<>>] # NoLog
    BY <1>1 DEF NoLog
  <2> QED
    BY <1>1, <1>2, <1>3, <2>1, <2>2, <2>3 DEF Exists
<1>4. CASE Write(t)
  <2>1. PICK type \in LineTypes : AppendLine(threads[t].run, t, type)
    BY <1>4 DEF Write, LineTypes
  <2>2. ~StartLog(t)
    BY <1>4 DEF Write, StartLog, Stage
  <2> QED
    BY <1>1, <1>2, <2>1, <2>2, AppendKeepsLogs
<1>5. CASE Complete(t, status)
  <2>1. ~StartLog(t)
    BY <1>5 DEF Complete, StartLog, Stage
  <2> QED
    BY <1>1, <1>2, <1>5, <2>1, AppendKeepsLogs DEF Complete
<1>6. CASE UNCHANGED log /\ ~StartLog(t)
  BY <1>1, <1>2, <1>6 DEF Exists
<1> QED
  BY <1>3, <1>4, <1>5, <1>6 DEF Return, Exit, Raise, Notify, Stage, StartLog,
                                mirrorVars

Kept(r) == Exists(r) \/ BeingDeleted(r)
ReaderInv == ~Free => Kept(reading.run)
GhostInv == NoGhostRows /\ ReaderInv

\* What the readers of the mirror leave alone, and what they do to it.
LEMMA MirroringLeaves ==
  ASSUME Mirroring
  PROVE  UNCHANGED <<log, threads, table, call, asked, raced>>
<1>1. UNCHANGED <<threads, table, call, asked, raced>>
  BY DEF Mirroring, consoleVars
<1>2. ASSUME NEW c \in Clients, NEW r \in Runs, OpenStream(c, r)
      PROVE  UNCHANGED log
  BY <1>2 DEF OpenStream
<1>3. ASSUME NEW c \in Clients, StreamCommit(c) \/ StreamRaises(c)
      PROVE  UNCHANGED log
  BY <1>3 DEF StreamCommit, StreamRaises
<1>4. ASSUME NEW r \in Runs, PollRead(r) PROVE UNCHANGED log
  BY <1>4 DEF PollRead
<1>5. ASSUME PollCommit \/ PollRaises PROVE UNCHANGED log
  BY <1>5 DEF PollCommit, PollRaises
<1>6. ASSUME NEW c \in Clients, StreamRead(c) \/ SendEvents(c) \/ LeaveStream(c)
      PROVE  UNCHANGED log
  BY <1>6 DEF StreamRead, SendEvents, LeaveStream
<1>7. ASSUME NEW c \in Clients, NEW alive, CheckStatus(c, alive)
      PROVE  UNCHANGED log
  BY <1>7 DEF CheckStatus
<1> QED
  BY <1>1, <1>2, <1>3, <1>4, <1>5, <1>6, <1>7 DEF Mirroring

LEMMA MirroringReads ==
  ASSUME TypeOK, Mirroring
  PROVE  \/ UNCHANGED <<mirror, reading>>
         \/ MirrorCommit
         \/ UNCHANGED mirror /\ Exists(reading'.run)
         \/ UNCHANGED mirror /\ Free'
<1> DEFINE Claim == \/ UNCHANGED <<mirror, reading>>
                    \/ MirrorCommit
                    \/ UNCHANGED mirror /\ Exists(reading'.run)
                    \/ UNCHANGED mirror /\ Free'
<1>1. ASSUME NEW c \in Clients, NEW r \in Runs, OpenStream(c, r) PROVE Claim
  BY <1>1 DEF OpenStream
<1>2. ASSUME NEW c \in Clients, SendEvents(c) \/ LeaveStream(c) PROVE Claim
  BY <1>2 DEF SendEvents, LeaveStream
<1>3. ASSUME NEW c \in Clients, NEW alive, CheckStatus(c, alive) PROVE Claim
  BY <1>3 DEF CheckStatus
<1>4. ASSUME NEW who, NEW r \in Runs, MirrorRead(who, r)
      PROVE  Exists(reading'.run)
  BY <1>4 DEF MirrorRead
<1>5. ASSUME NEW c \in Clients, StreamRead(c) PROVE Claim
  <2>1. stream[c].run \in Runs
    BY <1>5 DEF StreamRead, Streams, Closed, TypeOK, MirrorTypeOK, Streaming
  <2> QED
    BY <1>4, <1>5, <2>1 DEF StreamRead
<1>6. ASSUME NEW r \in Runs, PollRead(r) PROVE Claim
  BY <1>4, <1>6 DEF PollRead
<1>7. ASSUME NEW c \in Clients, StreamCommit(c) PROVE Claim
  BY <1>7 DEF StreamCommit
<1>8. ASSUME NEW c \in Clients, StreamRaises(c) PROVE Claim
  BY <1>8 DEF StreamRaises, MirrorRaises, Free
<1>9. ASSUME PollCommit PROVE Claim
  BY <1>9 DEF PollCommit
<1>10. ASSUME PollRaises PROVE Claim
  BY <1>10 DEF PollRaises, MirrorRaises, Free
<1> HIDE DEF Claim
<1>11. Claim
  BY <1>1, <1>2, <1>3, <1>5, <1>6, <1>7, <1>8, <1>9, <1>10 DEF Mirroring
<1> QED
  BY <1>11 DEF Claim

LEMMA GhostStep == TypeOK /\ GhostInv /\ [Next]_vars => GhostInv'
<1> SUFFICES ASSUME TypeOK, GhostInv, [Next]_vars PROVE GhostInv'
  OBVIOUS
<1>1. ASSUME \A r \in Runs : Kept(r) => Kept(r)', UNCHANGED <<mirror, reading>>
      PROVE  GhostInv'
  <2>1. ~Free => reading.run \in Runs
    BY DEF TypeOK, MirrorTypeOK, Free
  <2> QED
    BY <1>1, <2>1 DEF GhostInv, ReaderInv, NoGhostRows, Kept, Free
<1>2. CASE Missions
  <2>1. PICK t \in Started :
          \/ StartLog(t) \/ Write(t) \/ Return(t) \/ Raise(t) \/ Exit(t)
          \/ Notify(t) \/ \E status \in Ends : Complete(t, status)
    BY <1>2 DEF Missions
  <2>2. /\ \A q \in Runs : Exists(q) => Exists(q)'
        /\ UNCHANGED <<mirror, reading, call>>
    <3>1. "failed" \in Ends
      BY DEF Ends
    <3> QED
      BY <2>1, <3>1, MissionKeepsLogs
  <2> QED
    BY <1>1, <2>2 DEF Kept, BeingDeleted
<1>3. ASSUME NEW h \in Handlers, NEW r \in Runs,
             NEW at \in {"launching", "deriving", "removing"}, Asks(h, r, at)
      PROVE  GhostInv'
  <2>1. ASSUME NEW q \in Runs, BeingDeleted(q) PROVE BeingDeleted(q)'
    <3>1. PICK g \in Handlers :
            call[g].run = q /\ call[g].at \in {"removing", "unmirroring"}
      BY <2>1 DEF BeingDeleted
    <3>2. g # h
      BY <1>3, <3>1 DEF Asks, Idle
    <3>3. call'[g] = call[g]
      BY <1>3, <3>2 DEF Asks, Sets, TypeOK
    <3> QED
      BY <3>1, <3>3 DEF BeingDeleted
  <2> QED
    BY <1>1, <1>3, <2>1 DEF Asks, Kept, Exists
<1>4. ASSUME NEW h \in Handlers, TurnDown(h) \/ Register(h) \/ PopEntry(h)
      PROVE  GhostInv'
  <2>1. ASSUME NEW q \in Runs, BeingDeleted(q) PROVE BeingDeleted(q)'
    <3>1. PICK g \in Handlers :
            call[g].run = q /\ call[g].at \in {"removing", "unmirroring"}
      BY <2>1 DEF BeingDeleted
    <3>2. g # h
      BY <1>4, <3>1 DEF TurnDown, Register, PopEntry, IsAdmitted
    <3>3. call'[g] = call[g]
      BY <1>4, <3>2 DEF TurnDown, Register, PopEntry, Drops, TypeOK
    <3> QED
      BY <3>1, <3>3 DEF BeingDeleted
  <2> QED
    BY <1>1, <1>4, <2>1 DEF TurnDown, Register, PopEntry, Kept, Exists, mirrorVars
<1>5. ASSUME NEW h \in Handlers, RemoveDirectory(h) PROVE GhostInv'
  <2>1. call' = [call EXCEPT ![h] = [run |-> call[h].run, at |-> "unmirroring"]]
    BY <1>5 DEF RemoveDirectory, Sets
  <2>2. call'[h] = [run |-> call[h].run, at |-> "unmirroring"]
        /\ \A g \in Handlers : g # h => call'[g] = call[g]
    BY <2>1 DEF TypeOK
  <2>3. ASSUME NEW q \in Runs, BeingDeleted(q) PROVE BeingDeleted(q)'
    BY <2>2, <2>3 DEF BeingDeleted
  <2>4. ASSUME NEW q \in Runs, q = call[h].run PROVE BeingDeleted(q)'
    BY <2>2, <2>4 DEF BeingDeleted
  <2>5. ASSUME NEW q \in Runs, q # call[h].run, Exists(q) PROVE Exists(q)'
    BY <1>5, <2>5 DEF RemoveDirectory, RemoveLog, Exists, TypeOK, MirrorTypeOK
  <2>6. \A q \in Runs : Kept(q) => Kept(q)'
    BY <2>3, <2>4, <2>5 DEF Kept
  <2> QED
    BY <1>1, <1>5, <2>6 DEF RemoveDirectory
<1>6. ASSUME NEW h \in Handlers, DeleteRows(h) PROVE GhostInv'
  <2>1. Free /\ Free'
    BY <1>6 DEF DeleteRows, ForgetRows, Free
  <2>2. mirror' = [mirror EXCEPT ![call[h].run] = NoRows] /\ log' = log
        /\ \A g \in Handlers : g # h => call'[g] = call[g]
    BY <1>6 DEF DeleteRows, ForgetRows, Sets, TypeOK
  <2>3. ASSUME NEW q \in Runs, mirror'[q] # NoRows PROVE Kept(q)'
    <3>1. q # call[h].run /\ mirror[q] # NoRows
      BY <2>2, <2>3 DEF TypeOK, MirrorTypeOK
    <3>2. Exists(q) \/ BeingDeleted(q)
      BY <3>1 DEF GhostInv, NoGhostRows
    <3> QED
      BY <2>2, <3>1, <3>2 DEF Kept, Exists, BeingDeleted
  <2> QED
    BY <2>1, <2>3 DEF GhostInv, NoGhostRows, ReaderInv, Kept
<1>7. CASE Requests
  BY <1>3, <1>4, <1>5, <1>6, <1>7, AskIsOne DEF Requests
<1>8. ASSUME UNCHANGED <<log, call>>,
             \/ UNCHANGED <<mirror, reading>>
             \/ MirrorCommit
             \/ UNCHANGED mirror /\ Exists(reading'.run)
             \/ UNCHANGED mirror /\ Free'
      PROVE  GhostInv'
  <2>1. \A q : Kept(q)' <=> Kept(q)
    BY <1>8 DEF Kept, Exists, BeingDeleted
  <2>2. CASE UNCHANGED <<mirror, reading>>
    BY <1>1, <2>1, <2>2
  <2>3. CASE MirrorCommit
    <3>1. Kept(reading.run) /\ reading.run \in Runs
      BY <2>3 DEF GhostInv, ReaderInv, MirrorCommit, TypeOK, MirrorTypeOK, Free
    <3>2. Free' /\ \A q \in Runs : q # reading.run => mirror'[q] = mirror[q]
      BY <2>3 DEF MirrorCommit, Free, TypeOK, MirrorTypeOK
    <3> QED
      BY <2>1, <3>1, <3>2 DEF GhostInv, ReaderInv, NoGhostRows, Kept
  <2>4. CASE UNCHANGED mirror /\ Exists(reading'.run)
    BY <2>1, <2>4 DEF GhostInv, ReaderInv, NoGhostRows, Kept
  <2>5. CASE UNCHANGED mirror /\ Free'
    BY <2>1, <2>5 DEF GhostInv, ReaderInv, NoGhostRows, Kept
  <2> QED
    BY <1>8, <2>2, <2>3, <2>4, <2>5
<1>9. CASE Mirroring
  BY <1>8, <1>9, MirroringLeaves, MirroringReads
<1>10. CASE UNCHANGED vars
  BY <1>8, <1>10 DEF vars
<1>11. ASSUME NEW r \in Runs, StartWave(r) PROVE GhostInv'
  BY <1>1, <1>11, WaveAppended DEF Kept, Exists, BeingDeleted
<1> QED
  BY <1>2, <1>7, <1>9, <1>10, <1>11 DEF Next, Waves

\* A run whose directory was deleted leaves no rows behind: a request that read
\* the log before the deletion commits before the rows are dropped.
THEOREM NoGhosts == Spec => []NoGhostRows
<1>1. Init => GhostInv
  BY DEF Init, MirrorInit, GhostInv, NoGhostRows, ReaderInv, Free
<1>2. GhostInv => NoGhostRows
  BY DEF GhostInv
<1> QED
  BY <1>1, <1>2, TypeInit, TypeStep, GhostStep, PTL DEF Spec

-----------------------------------------------------------------------------
(***************************************************************************)
(* One mission per run.  As long as nobody entered a run that another was  *)
(* working on, one request at most has it, and none while a mission of it  *)
(* is alive, nor are two alive; a live mission, if it is not a wave, is    *)
(* the one in the table and, once it has created its log, owns the log     *)
(* that is there.  An admission keeps this because a live mission of the   *)
(* run would have a log, a deletion because it would be in the table.      *)
(***************************************************************************)
OneParty(r) ==
  /\ \A h, g \in Handlers : call[h].run = r /\ call[g].run = r => h = g
  /\ \A h \in Handlers, t \in Started :
       call[h].run = r /\ threads[t].run = r => ~Alive(t)
  /\ \A t, u \in Started :
       threads[t].run = r /\ threads[u].run = r /\ Alive(t) /\ Alive(u) => t = u
Owns(t) ==
  /\ ~IsWave(t) => table[threads[t].run] = t
  /\ threads[t].stage # "starting" =>
       Exists(threads[t].run) /\ log[threads[t].run].by = t
AloneInv ==
  /\ \A r \in Runs \ raced : OneParty(r)
  /\ \A t \in Started : Alive(t) /\ threads[t].run \notin raced => Owns(t)

LEMMA ThreadHasRun ==
  ASSUME TypeOK, NEW t \in Started
  PROVE  threads[t].run \in Runs /\ threads[t] \in Threads
<1>1. threads \in Seq(Threads)
  BY DEF TypeOK
<1>2. threads[t] \in Threads
  BY <1>1 DEF Started
<1> QED
  BY <1>2 DEF Threads

\* Only StartLog makes a starting thread a writing one.
LEMMA WritesAfterStart ==
  ASSUME TypeOK, NEW t \in Started, NEW status \in Ends,
         \/ Write(t) \/ Complete(t, status) \/ Return(t)
         \/ Exit(t) \/ Raise(t) \/ Notify(t),
         threads'[t].stage \notin {"starting", "dead"}
  PROVE  threads[t].stage \notin {"starting", "dead"}
<1>1. threads[t] \in Threads /\ DOMAIN threads = Started
  BY ThreadHasRun DEF TypeOK, Started
<1>2. CASE Write(t) \/ Complete(t, status) \/ Return(t) \/ Exit(t)
  BY <1>2 DEF Write, Complete, Return, Exit, Stage
<1>3. CASE Raise(t)
  <2>1. threads'[t].stage = "dead"
    BY <1>1, <1>3 DEF Raise, Threads
  <2> QED
    BY <2>1
<1>4. CASE Notify(t)
  <2>1. threads'[t].stage = threads[t].stage
    BY <1>1, <1>4 DEF Notify, Threads
  <2> QED
    BY <2>1
<1> QED
  BY <1>2, <1>3, <1>4

\* A mission's step, seen from the runs.
LEMMA AloneMission ==
  ASSUME TypeOK, AloneInv, NEW t \in Started, NEW status \in Ends,
         \/ StartLog(t) \/ Write(t) \/ Complete(t, status) \/ Return(t)
         \/ Exit(t) \/ Raise(t) \/ Notify(t)
  PROVE  AloneInv'
<1>1. /\ Started' = Started
      /\ \A u \in Started : u # t => threads'[u] = threads[u]
      /\ threads'[t].run = threads[t].run /\ threads'[t].as = threads[t].as
      /\ threads'[t].stage # "dead" => threads[t].stage # "dead"
      /\ UNCHANGED <<table, call, raced>>
  BY MissionKeepsThreads DEF Moves
<1>2. ASSUME NEW u \in Started
      PROVE  /\ threads'[u].run = threads[u].run /\ (Alive(u)' => Alive(u))
             /\ threads'[u].as = threads[u].as
  BY <1>1 DEF Alive
<1>3. ASSUME NEW r \in Runs \ raced' PROVE OneParty(r)'
  <2>1. OneParty(r)
    BY <1>1 DEF AloneInv
  <2> QED
    BY <1>1, <1>2, <2>1 DEF OneParty
<1>4. ASSUME NEW u \in Started, Alive(u)', threads'[u].run \notin raced'
      PROVE  Owns(u)'
  <2> DEFINE r == threads[u].run
  <2>1. Alive(u) /\ r \in Runs /\ r \notin raced /\ table' = table
    BY <1>1, <1>2, <1>4, ThreadHasRun
  <2>2. /\ threads[u].as # "wave" => table[r] = u
        /\ threads[u].stage # "starting" => Exists(r) /\ log[r].by = u
    BY <2>1 DEF AloneInv, Owns, IsWave
  <2>3. CASE u # t
    <3>1. threads[t].run = r => ~Alive(t)
      BY <2>1, <2>3 DEF AloneInv, OneParty
    <3>2. StartLog(t) => threads[t].run # r
      BY <3>1 DEF StartLog, Stage, Alive
    <3>3. log'[r].by = log[r].by /\ (log[r] # NoLog => log'[r] # NoLog)
      BY <2>1, <3>2, MissionKeepsLogs DEF Exists
    <3> QED
      BY <1>1, <2>1, <2>2, <2>3, <3>3 DEF Owns, IsWave, Exists
  <2>4. CASE u = t /\ StartLog(t)
    <3>1. log'[r] # NoLog /\ log'[r].by = u
      BY <2>4, MissionKeepsLogs
    <3> QED
      BY <1>2, <2>1, <2>2, <3>1 DEF Owns, IsWave, Exists
  <2>5. CASE u = t /\ ~StartLog(t)
    <3>1. threads'[t].stage # "starting" => threads[t].stage # "starting"
      BY <1>4, <2>5, WritesAfterStart DEF Alive
    <3>2. log'[r].by = log[r].by /\ (log[r] # NoLog => log'[r] # NoLog)
      BY <2>1, <2>5, MissionKeepsLogs DEF Exists
    <3> QED
      BY <1>2, <2>1, <2>2, <2>5, <3>1, <3>2 DEF Owns, IsWave, Exists
  <2> QED
    BY <2>3, <2>4, <2>5
<1> QED
  BY <1>1, <1>3, <1>4 DEF AloneInv

\* A request that enters a run nobody works on finds no live mission of it.
LEMMA AloneAsk ==
  ASSUME TypeOK, AloneInv, NEW h \in Handlers, NEW r \in Runs,
         NEW at \in {"launching", "deriving", "removing"},
         Asks(h, r, at), r \notin raced', at # "removing" => ~Exists(r),
         at = "removing" => ~ManagedAndAlive(r), AtWork(r) => r \in raced'
  PROVE  OneParty(r)'
<1>1. r \notin raced /\ UNCHANGED <<threads, table, log>>
  BY DEF Asks
<1>2. \A g \in Handlers : call[g].run # r
  <2>1. Idle.run = Nobody /\ Nobody \notin Runs
    BY ConsoleAssumption DEF Idle
  <2> QED
    BY <2>1 DEF AtWork
<1>3. \A g \in Handlers : g # h => call'[g] = call[g]
  BY DEF Asks, Sets, TypeOK
<1>4. ASSUME NEW t \in Started, threads[t].run = r PROVE ~Alive(t)
  <2> SUFFICES ASSUME Alive(t) PROVE FALSE
    OBVIOUS
  <2>1. table[r] = t /\ threads[t].stage # "starting"
    BY <1>1, <1>4 DEF AloneInv, Owns, IsWave, AtWork
  <2>2. Exists(r)
    BY <1>1, <1>4, <2>1 DEF AloneInv, Owns, IsWave
  <2>3. ManagedAndAlive(r)
    BY <2>1 DEF ManagedAndAlive
  <2> QED
    BY <2>2, <2>3
<1>5. OneParty(r)
  BY <1>1 DEF AloneInv
<1> QED
  BY <1>1, <1>2, <1>3, <1>4, <1>5 DEF OneParty, Started, Alive

\* Steps that touch neither threads nor what a live mission has.
LEMMA AloneKept ==
  ASSUME TypeOK, AloneInv, UNCHANGED threads, raced \subseteq raced',
         \A r \in Runs \ raced' : OneParty(r)',
         \A r \in Runs \ raced' :
           \/ table'[r] = table[r] /\ log'[r] = log[r]
           \/ \A t \in Started : threads[t].run = r => ~Alive(t)
  PROVE  AloneInv'
<1>1. Started' = Started
  BY DEF Started
<1>2. ASSUME NEW t \in Started, Alive(t)', threads'[t].run \notin raced'
      PROVE  Owns(t)'
  <2>1. Alive(t) /\ threads[t].run \in Runs /\ threads[t].run \notin raced
    BY <1>2, ThreadHasRun DEF Alive
  <2>2. Owns(t)
    BY <2>1 DEF AloneInv
  <2>3. /\ table'[threads[t].run] = table[threads[t].run]
        /\ log'[threads[t].run] = log[threads[t].run]
    BY <1>2, <2>1
  <2> QED
    BY <2>2, <2>3 DEF Owns, IsWave, Exists
<1> QED
  BY <1>1, <1>2 DEF AloneInv

\* A wave that comes to a run nobody works on finds no mission of it alive.
LEMMA AloneWave ==
  ASSUME TypeOK, AloneInv, NEW r \in Runs, StartWave(r)
  PROVE  AloneInv'
<1> DEFINE n == Len(threads) + 1
<1>1. /\ \A u \in Started : threads'[u] = threads[u]
      /\ Started' = Started \cup {n} /\ n \notin Started
      /\ threads'[n].run = r /\ threads'[n].stage = "starting"
      /\ threads'[n].as = "wave"
      /\ raced \subseteq raced'
      /\ HasMission(r) \/ AtWork(r) => r \in raced'
      /\ UNCHANGED <<log, table, call>>
  <2>1. threads'[n] = NewThread(r, "wave")
    BY WaveAppended
  <2>2. /\ threads'[n].run = r /\ threads'[n].stage = "starting"
        /\ threads'[n].as = "wave"
    BY <2>1 DEF NewThread
  <2>3. /\ \A u \in Started : threads'[u] = threads[u]
        /\ Started' = Started \cup {n} /\ n \notin Started
    BY WaveAppended
  <2>4. /\ raced \subseteq raced'
        /\ HasMission(r) \/ AtWork(r) => r \in raced'
        /\ UNCHANGED <<log, table, call>>
    BY WaveAppended
  <2> QED
    BY <2>2, <2>3, <2>4
<1>2. ASSUME NEW q \in Runs \ raced' PROVE OneParty(q)'
  <2>1. OneParty(q)
    BY <1>1, <1>2 DEF AloneInv
  <2>2. CASE q # r
    BY <1>1, <2>1, <2>2 DEF OneParty, Alive
  <2>3. CASE q = r
    <3>1. \A h \in Handlers : call[h].run # r
      BY <1>1, <1>2, <2>3, ConsoleAssumption DEF AtWork, Idle
    <3>2. \A t \in Started : threads[t].run = r => ~Alive(t)
      BY <1>1, <1>2, <2>3 DEF HasMission
    <3> QED
      BY <1>1, <2>3, <3>1, <3>2 DEF OneParty, Alive
  <2> QED
    BY <2>2, <2>3
<1>3. ASSUME NEW u \in Started', Alive(u)', threads'[u].run \notin raced'
      PROVE  Owns(u)'
  <2>1. CASE u = n
    BY <1>1, <2>1 DEF Owns, IsWave
  <2>2. CASE u # n
    <3>1. u \in Started /\ threads'[u] = threads[u] /\ Alive(u)
      BY <1>1, <1>3, <2>2 DEF Alive
    <3>2. Owns(u)
      BY <1>1, <1>3, <3>1 DEF AloneInv
    <3> QED
      BY <1>1, <3>1, <3>2 DEF Owns, IsWave, Exists
  <2> QED
    BY <2>1, <2>2
<1> QED
  BY <1>2, <1>3 DEF AloneInv

LEMMA AloneStep == TypeOK /\ AloneInv /\ [Next]_vars => AloneInv'
<1> SUFFICES ASSUME TypeOK, AloneInv, [Next]_vars PROVE AloneInv'
  OBVIOUS
<1>1. ASSUME UNCHANGED <<log, threads, table, call, raced>> PROVE AloneInv'
  BY <1>1 DEF AloneInv, OneParty, Owns, IsWave, Alive, Started, Exists
<1>2. CASE Missions
  <2>1. PICK t \in Started :
          \/ StartLog(t) \/ Write(t) \/ Return(t) \/ Raise(t) \/ Exit(t)
          \/ Notify(t) \/ \E status \in Ends : Complete(t, status)
    BY <1>2 DEF Missions
  <2>2. "failed" \in Ends
    BY DEF Ends
  <2> QED
    BY <2>1, <2>2, AloneMission
<1>3. ASSUME NEW h \in Handlers, NEW r \in Runs,
             NEW at \in {"launching", "deriving", "removing"}, Asks(h, r, at),
             at # "removing" => IsFreshSlug(r) /\ Enter(r, AtWork(r)),
             at = "removing" => /\ ~ManagedAndAlive(r)
                                /\ Enter(r, AtWork(r) \/ ToBeTold(r))
      PROVE  AloneInv'
  <2>1. raced \subseteq raced' /\ (AtWork(r) => r \in raced')
    BY <1>3 DEF Enter
  <2>2. r \notin raced' => OneParty(r)'
    BY <1>3, <2>1, AloneAsk DEF IsFreshSlug
  <2>3. ASSUME NEW q \in Runs \ raced', q # r PROVE OneParty(q)'
    <3>1. OneParty(q)
      BY <2>1, <2>3 DEF AloneInv
    <3>2. /\ call'[h].run = r
          /\ \A g \in Handlers : g # h => call'[g] = call[g]
      BY <1>3 DEF Asks, Sets, TypeOK
    <3> QED
      BY <1>3, <2>3, <3>1, <3>2 DEF Asks, OneParty, Started, Alive
  <2> QED
    BY <1>3, <2>1, <2>2, <2>3, AloneKept DEF Asks
<1>4. ASSUME NEW h \in Handlers, NEW r \in Runs,
             \/ AskLaunch(h, r) \/ AskDelete(h, r)
             \/ \E source \in Runs : AskResume(h, source, r) \/ AskReplay(h, source, r),
             MayAsk(h)
      PROVE  AloneInv'
  BY <1>3, <1>4, AskIsOne
<1>5. ASSUME NEW h \in Handlers,
             \/ TurnDown(h) \/ RemoveDirectory(h) \/ DeleteRows(h) \/ PopEntry(h)
      PROVE  AloneInv'
  <2>1. call[h].run \in Runs
    <3>1. call[h] # Idle
      BY <1>5 DEF TurnDown, RemoveDirectory, DeleteRows, PopEntry, IsAdmitted, Idle
    <3> QED
      BY <3>1 DEF TypeOK, Calls
  <2>2. UNCHANGED <<threads, raced>>
    BY <1>5 DEF TurnDown, RemoveDirectory, DeleteRows, PopEntry
  <2>3. /\ call'[h].run \in {call[h].run, Nobody}
        /\ \A g \in Handlers : g # h => call'[g] = call[g]
    BY <1>5 DEF TurnDown, RemoveDirectory, DeleteRows, PopEntry, Sets, Drops, Idle,
                TypeOK
  <2>4. ASSUME NEW q \in Runs \ raced' PROVE OneParty(q)'
    <3>1. OneParty(q) /\ q # Nobody
      BY <2>2, <2>4, ConsoleAssumption DEF AloneInv
    <3> QED
      BY <2>2, <2>3, <3>1 DEF OneParty, Started, Alive
  <2>5. ASSUME NEW q \in Runs, q # call[h].run
        PROVE  table'[q] = table[q] /\ log'[q] = log[q]
    BY <1>5, <2>1, <2>5 DEF TurnDown, RemoveDirectory, DeleteRows, PopEntry,
                            RemoveLog, TypeOK, MirrorTypeOK, mirrorVars
  <2>6. ASSUME NEW q \in Runs \ raced', q = call[h].run
        PROVE  \A t \in Started : threads[t].run = q => ~Alive(t)
    BY <2>2, <2>6 DEF AloneInv, OneParty
  <2> QED
    BY <2>2, <2>4, <2>5, <2>6, AloneKept
<1>6. ASSUME NEW h \in Handlers, Register(h) PROVE AloneInv'
  <2> DEFINE r == call[h].run
             n == Len(threads) + 1
  <2>1. r \in Runs /\ NewThread(r, call[h].at) \in Threads
    BY <1>6 DEF Register, IsAdmitted, Idle, TypeOK, Calls, NewThread, Threads
  <2>2. /\ \A u \in Started : threads'[u] = threads[u]
        /\ Started' = Started \cup {n} /\ n \notin Started
        /\ threads'[n] = NewThread(r, call[h].at)
    BY <1>6, <2>1, ThreadAppended DEF Register, TypeOK
  <2>3. /\ threads'[n].run = r /\ threads'[n].stage = "starting"
        /\ table' = [table EXCEPT ![r] = n] /\ UNCHANGED <<log, raced>>
        /\ call' = [call EXCEPT ![h] = Idle]
    BY <1>6, <2>2 DEF Register, NewThread, Drops, mirrorVars
  <2>4. /\ call'[h].run \notin Runs
        /\ \A g \in Handlers : g # h => call'[g] = call[g]
    BY <2>3, ConsoleAssumption DEF TypeOK, Idle
  <2>5. ASSUME NEW q \in Runs \ raced' PROVE OneParty(q)'
    <3>1. OneParty(q)
      BY <2>3, <2>5 DEF AloneInv
    <3>2. ASSUME NEW g \in Handlers, call'[g].run = q
          PROVE  g # h /\ call[g].run = q /\ q # r
      BY <2>4, <2>5, <3>1, <3>2 DEF OneParty
    <3> QED
      BY <2>2, <2>3, <3>1, <3>2 DEF OneParty, Alive
  <2>6. ASSUME NEW u \in Started', Alive(u)', threads'[u].run \notin raced'
        PROVE  Owns(u)'
    <3>1. CASE u = n
      BY <2>1, <2>3, <3>1 DEF Owns, IsWave, TypeOK
    <3>2. CASE u # n
      <4>1. u \in Started /\ threads'[u] = threads[u] /\ Alive(u)
        BY <2>2, <2>6, <3>2 DEF Alive
      <4>2. threads[u].run \in Runs /\ Owns(u)
        BY <2>3, <2>6, <4>1, ThreadHasRun DEF AloneInv
      <4>3. threads[u].run # r
        BY <2>1, <2>3, <2>6, <4>1 DEF AloneInv, OneParty
      <4>4. table'[threads[u].run] = table[threads[u].run]
        BY <2>3, <4>2, <4>3 DEF TypeOK
      <4> QED
        BY <2>3, <4>1, <4>2, <4>4 DEF Owns, IsWave, Exists
    <3> QED
      BY <3>1, <3>2
  <2> QED
    BY <2>5, <2>6 DEF AloneInv
<1>7. CASE Requests
  BY <1>4, <1>5, <1>6, <1>7 DEF Requests
<1>8. CASE Mirroring
  BY <1>1, <1>8, MirroringLeaves
<1>9. CASE UNCHANGED vars
  BY <1>1, <1>9 DEF vars
<1>10. ASSUME NEW r \in Runs, StartWave(r) PROVE AloneInv'
  BY <1>10, AloneWave
<1> QED
  BY <1>2, <1>7, <1>8, <1>9, <1>10 DEF Next, Waves

\* A mission whose run nobody else worked on meanwhile owns its log and, if the
\* console started it, is the one in the table, for any number of runs,
\* requests, waves and missions.
THEOREM Tracked == Spec => []TrackedAndAlone
<1>1. Init => AloneInv
  <2> SUFFICES ASSUME Init PROVE AloneInv
    OBVIOUS
  <2>1. Started = {} /\ \A h \in Handlers : call[h].run \notin Runs
    BY ConsoleAssumption DEF Init, Started, Idle
  <2> QED
    BY <2>1 DEF AloneInv, OneParty
<1>2. TypeOK /\ AloneInv => TrackedAndAlone
  <2> SUFFICES ASSUME TypeOK, AloneInv, NEW t \in Started, Alive(t),
                      threads[t].run \notin raced
               PROVE  /\ ~IsWave(t) => table[threads[t].run] = t
                      /\ threads[t].stage \in {"writing", "returned"} =>
                           Exists(threads[t].run) /\ log[threads[t].run].by = t
    BY DEF TrackedAndAlone
  <2> QED
    BY DEF AloneInv, Owns, IsWave
<1> QED
  BY <1>1, <1>2, TypeInit, TypeStep, AloneStep, PTL DEF Spec
=============================================================================
