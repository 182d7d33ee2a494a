----------------------------- MODULE MirrorProofs -----------------------------
(***************************************************************************)
(* What Console's readers see, whatever the runs, handlers, streams and    *)
(* bounds: the rows of a run are the beginning of its log or, until the    *)
(* log that a factory made anew is noticed, of an earlier one; a stream    *)
(* has shown the beginning of its log; subscribers are told what the       *)
(* mission recorded; no stream is told that a mission of the console is    *)
(* stale while it is alive.  All of runs that no two parties worked on at  *)
(* one time, and the first two of logs that were first looked at before    *)
(* they had outgrown the rows of their predecessor.                        *)
(***************************************************************************)
EXTENDS ConsoleProofs

-----------------------------------------------------------------------------
(***************************************************************************)
(* The invariants.                                                         *)
(***************************************************************************)
Logs == [by : Nat, lines : Seq(LineTypes)]

\* The rows are the beginning of the log l, or not all of its mission, or
\* none of them is.
Shows(rows, l) ==
  /\ Len(rows) <= Len(l.lines)
  /\ \A k \in 1..Len(rows) : rows[k] = [by |-> l.by, type |-> l.lines[k]]
Foreign(rows, l) == \E k \in 1..Len(rows) : rows[k].by # l.by
Older(rows, l) == \A k \in 1..Len(rows) : rows[k].by # l.by

\* Before anyone has noticed that the log was made anew, all there is to see is
\* of earlier ones; whoever notices has read the log from its beginning; else
\* what the holder of the lock has read goes on where the rows end.
Outlived(r) ==
  /\ Older(mirror[r].rows, log[r])
  /\ reading.run = r => Older(reading.rows, log[r])
Replaced(r) ==
  /\ reading.run = r /\ reading.reset
  /\ Older(mirror[r].rows, log[r]) /\ Shows(reading.rows, log[r])
Mirrored(r) ==
  /\ Shows(mirror[r].rows, log[r])
  /\ reading.run = r =>
       ~reading.reset /\ Shows(mirror[r].rows \o reading.rows, log[r])
RowsGood(r) ==
  IF remade[r] = "unseen" THEN Outlived(r) ELSE Replaced(r) \/ Mirrored(r)
\* A stream has shown the beginning of the log, unless it began with another.
SentGood(r) ==
  \A c \in Clients : stream[c].run = r =>
    /\ Foreign(stream[c].sent, log[r]) \/ Shows(stream[c].sent, log[r])
    /\ stream[c].of = log[r].by => Shows(stream[c].sent, log[r])
RunGood(r) == RowsGood(r) /\ SentGood(r)
Followed(r) == Exists(r) /\ remade[r] # "missed"
PrefixInv == \A r \in Runs \ raced : Followed(r) => RunGood(r)

\* The offset counts the rows.
OffsetInv ==
  /\ \A r \in Runs : mirror[r].offset = Len(mirror[r].rows)
  /\ reading.consumed = Len(reading.rows)

\* A stream that was opened on the log that is there has looked at it before
\* it sends anything.
LookedInv ==
  \A c \in Clients : LET r == stream[c].run
                     IN  /\ r \in Runs /\ stream[c].at # "mirror" /\ Exists(r)
                         /\ stream[c].of = log[r].by
                         => remade[r] # "unseen"

\* Only a wave makes a log anew.
WaveInv ==
  \A r \in Runs \ raced : remade[r] # "no" =>
    \E t \in Started : threads[t].run = r /\ IsWave(t)

\* A mission to be started has no log yet, unless it is a wave.
FreshInv ==
  \A r \in Runs \ raced :
    /\ \A h \in Handlers : call[h].run = r /\ IsAdmitted(h) => ~Exists(r)
    /\ \A t \in Started :
         threads[t].run = r /\ threads[t].stage = "starting" /\ ~IsWave(t) =>
           ~Exists(r)

\* Lines and rows are of missions that have begun their log.
Begun(n) == n \in Started /\ threads[n].stage # "starting"
LogsBegun == \A r \in Runs : Exists(r) => Begun(log[r].by)
RowsBegun ==
  /\ \A r \in Runs : \A k \in 1..Len(mirror[r].rows) : Begun(mirror[r].rows[k].by)
  /\ \A k \in 1..Len(reading.rows) : Begun(reading.rows[k].by)
SentBegun ==
  \A c \in Clients :
    /\ \A k \in 1..Len(stream[c].sent) : Begun(stream[c].sent[k].by)
    /\ stream[c].of # 0 => Begun(stream[c].of)
\* The last seq sent counts the rows sent.
CountInv == \A c \in Clients : stream[c].last = Len(stream[c].sent)

ViewInv == LogsBegun /\ RowsBegun /\ SentBegun /\ CountInv

\* What the record of a mission says of its end and of its notice.
Stages(m) ==
  /\ m.stage = "starting" => m.final = "none"
  /\ m.stage = "returned" => m.final # "none"
  /\ m.notice = "pending" => m.final # "none"
  /\ m.notice \in {"pending"} \cup Ends => m.stage = "dead"
StageInv == \A t \in Started : Stages(threads[t])

\* A log that is still the mission's own ends as the mission did.
EndsWith(lines, final) == Len(lines) > 0 /\ lines[Len(lines)] = final
FinalInv ==
  \A t \in Started :
    log[threads[t].run].by = t /\ threads[t].final # "none" =>
      EndsWith(log[threads[t].run].lines, threads[t].final)

\* Until its subscribers are told, nobody else has the run of a mission.
Told(t) ==
  /\ threads[t].notice \in Ends => threads[t].notice = threads[t].final
  /\ threads[t].notice = "pending" =>
       /\ Exists(threads[t].run) /\ log[threads[t].run].by = t
       /\ \A h \in Handlers : call[h].run # threads[t].run
       /\ \A u \in Started : threads[u].run = threads[t].run => ~Alive(u)
ToldInv == \A t \in Started : threads[t].run \notin raced => Told(t)

-----------------------------------------------------------------------------
(***************************************************************************)
(* Rows and lines.                                                         *)
(***************************************************************************)
\* A log that grows keeps its beginning.
LEMMA ShowsGrows ==
  ASSUME NEW rows \in Seq(Rows), NEW l \in Logs, NEW type \in LineTypes,
         Shows(rows, l)
  PROVE  Shows(rows, [by |-> l.by, lines |-> Append(l.lines, type)])
<1>1. l.lines \in Seq(LineTypes) /\ Len(rows) \in Nat
  BY DEF Logs
<1>2. /\ Len(Append(l.lines, type)) = Len(l.lines) + 1
      /\ \A k \in 1..Len(l.lines) : Append(l.lines, type)[k] = l.lines[k]
  BY <1>1
<1> QED
  BY <1>1, <1>2 DEF Shows

\* An element of two sequences put together is one of theirs.
LEMMA ConcatElement ==
  ASSUME NEW s \in Seq(Rows), NEW t \in Seq(Rows), NEW k \in 1..Len(s \o t)
  PROVE  \/ \E j \in 1..Len(s) : (s \o t)[k] = s[j]
         \/ \E j \in 1..Len(t) : (s \o t)[k] = t[j]
<1>1. /\ Len(s) \in Nat /\ Len(t) \in Nat /\ Len(s \o t) = Len(s) + Len(t)
      /\ \A j \in 1..(Len(s) + Len(t)) :
           (s \o t)[j] = IF j <= Len(s) THEN s[j] ELSE t[j - Len(s)]
  BY ConcatProperties
<1>2. k <= Len(s) => k \in 1..Len(s)
  BY <1>1
<1>3. ~(k <= Len(s)) => k - Len(s) \in 1..Len(t)
  BY <1>1
<1> QED
  BY <1>1, <1>2, <1>3

\* Rows read from where the mirror ends go on with the log.
LEMMA ShowsRead ==
  ASSUME NEW rows \in Seq(Rows), NEW l \in Logs, Shows(rows, l),
         NEW past \in Nat, past = Len(l.lines) - Len(rows), NEW new \in Seq(Rows),
         new = [k \in 1..past |-> [by |-> l.by, type |-> l.lines[Len(rows) + k]]]
  PROVE  Shows(rows \o new, l)
<1>1. l.lines \in Seq(LineTypes) /\ Len(rows) \in Nat /\ Len(l.lines) \in Nat
  BY DEF Logs
<1>2. Len(new) = past
  BY LenProperties
<1>3. /\ Len(rows \o new) = Len(l.lines)
      /\ \A k \in 1..Len(l.lines) :
           (rows \o new)[k] = IF k <= Len(rows) THEN rows[k] ELSE new[k - Len(rows)]
  BY <1>1, <1>2, ConcatProperties
<1>4. ASSUME NEW k \in 1..Len(l.lines), ~(k <= Len(rows))
      PROVE  new[k - Len(rows)] = [by |-> l.by, type |-> l.lines[k]]
  <2>1. k - Len(rows) \in 1..past /\ Len(rows) + (k - Len(rows)) = k
    BY <1>1, <1>4
  <2> QED
    BY <2>1
<1> QED
  BY <1>1, <1>3, <1>4 DEF Shows

\* The rows past those that were sent go on with the log.
LEMMA ShowsSent ==
  ASSUME NEW sent \in Seq(Rows), NEW rows \in Seq(Rows), NEW l \in Logs,
         Shows(sent, l), Shows(rows, l)
  PROVE  Shows(sent \o SubSeq(rows, Len(sent) + 1, Len(rows)), l)
<1> DEFINE new == SubSeq(rows, Len(sent) + 1, Len(rows))
           n == IF Len(sent) + 1 <= Len(rows) THEN Len(rows) - Len(sent) ELSE 0
<1>1. Len(sent) \in Nat /\ Len(rows) \in Nat /\ n \in Nat /\ Len(sent) + 1 \in Int
  OBVIOUS
<1>2. /\ new \in Seq(Rows) /\ Len(new) = n
      /\ \A k \in 1..n : new[k] = rows[Len(sent) + k]
  <2>1. CASE Len(sent) + 1 <= Len(rows)
    <3>1. \A i \in (Len(sent) + 1)..Len(rows) : rows[i] \in Rows
      BY <1>1
    <3>2. /\ new \in Seq(Rows) /\ Len(new) = Len(rows) - (Len(sent) + 1) + 1
          /\ \A i \in 1..(Len(rows) - (Len(sent) + 1) + 1) :
               new[i] = rows[Len(sent) + 1 + i - 1]
      BY <1>1, <2>1, <3>1, SubSeqProperties
    <3>3. n = Len(rows) - (Len(sent) + 1) + 1
          /\ \A k \in 1..n : Len(sent) + 1 + k - 1 = Len(sent) + k
      BY <1>1, <2>1
    <3> HIDE DEF new, n
    <3> QED
      BY <3>2, <3>3
  <2>2. CASE ~(Len(sent) + 1 <= Len(rows))
    <3>1. new = <<>>
      BY <1>1, <2>2, SubSeqEmpty
    <3> QED
      BY <2>2, <3>1
  <2> QED
    BY <2>1, <2>2
<1> HIDE DEF new, n
<1>3. /\ Len(sent \o new) = Len(sent) + n
      /\ \A k \in 1..(Len(sent) + n) :
           (sent \o new)[k] = IF k <= Len(sent) THEN sent[k] ELSE new[k - Len(sent)]
  BY <1>1, <1>2, ConcatProperties
<1>4. ASSUME NEW k \in 1..(Len(sent) + n), ~(k <= Len(sent))
      PROVE  new[k - Len(sent)] = rows[k] /\ k \in 1..Len(rows)
  <2>1. k - Len(sent) \in 1..n /\ Len(sent) + (k - Len(sent)) = k
    BY <1>1, <1>4
  <2>2. k <= Len(rows)
    BY <1>1, <2>1 DEF n
  <2> QED
    BY <1>1, <1>2, <2>1, <2>2
<1>5. Len(sent) + n <= Len(l.lines)
  BY <1>1 DEF Shows, n
<1> QED
  BY <1>1, <1>3, <1>4, <1>5 DEF Shows, new

\* What the lock's holder, a mirror and a stream hold are rows.
LEMMA RowTypes ==
  ASSUME TypeOK
  PROVE  /\ \A r \in Runs : log[r] \in Logs /\ mirror[r].rows \in Seq(Rows)
         /\ reading.rows \in Seq(Rows)
         /\ \A c \in Clients : stream[c].sent \in Seq(Rows)
<1>1. \A r \in Runs : log[r] \in Logs
  BY DEF TypeOK, MirrorTypeOK, Logs
<1>2. \A r \in Runs : mirror[r].rows \in Seq(Rows)
  BY DEF TypeOK, MirrorTypeOK
<1>3. reading.rows \in Seq(Rows)
  <2>1. CASE reading = Unlocked
    <3>1. reading.rows = <<>>
      BY <2>1 DEF Unlocked
    <3> QED
      BY <3>1
  <2>2. CASE reading # Unlocked
    BY <2>2 DEF TypeOK, MirrorTypeOK
  <2> QED
    BY <2>1, <2>2
<1>4. ASSUME NEW c \in Clients PROVE stream[c].sent \in Seq(Rows)
  <2>1. CASE stream[c] = Closed
    <3>1. stream[c].sent = <<>>
      BY <2>1 DEF Closed
    <3> QED
      BY <3>1
  <2>2. CASE stream[c] \in Streaming
    BY <2>2 DEF Streaming
  <2> QED
    BY <2>1, <2>2 DEF TypeOK, MirrorTypeOK
<1> QED
  BY <1>1, <1>2, <1>3, <1>4


LEMMA RowTypesNext == TypeOK' => reading'.rows \in Seq(Rows)
<1> SUFFICES ASSUME TypeOK' PROVE reading'.rows \in Seq(Rows)
  OBVIOUS
<1>1. CASE reading' = Unlocked
  <2>1. reading'.rows = <<>>
    BY <1>1 DEF Unlocked
  <2> QED
    BY <2>1
<1>2. CASE reading' # Unlocked
  BY <1>2 DEF TypeOK, MirrorTypeOK, Unlocked
<1> QED
  BY <1>1, <1>2

-----------------------------------------------------------------------------
(***************************************************************************)
(* What the steps do to logs, mirrors and streams.                         *)
(***************************************************************************)
\* A mission creates its log, or appends to the log if it still has it.
LEMMA MissionLog ==
  ASSUME TypeOK, NEW t \in Started, NEW status \in Ends,
         \/ StartLog(t) \/ Write(t) \/ Complete(t, status) \/ Return(t)
         \/ Exit(t) \/ Raise(t) \/ Notify(t)
  PROVE  /\ UNCHANGED <<mirror, reading, stream>>
         /\ \A q \in Runs :
              q # threads[t].run => log'[q] = log[q] /\ remade'[q] = remade[q]
         /\ ~StartLog(t) => remade' = remade
         /\ \/ log'[threads[t].run] = log[threads[t].run] /\ ~StartLog(t)
            \/ /\ StartLog(t)
               /\ log'[threads[t].run] = [by |-> t, lines |-> <<>>]
               /\ remade'[threads[t].run] =
                    IF \/ mirror[threads[t].run] # NoRows
                       \/ reading.run = threads[t].run
                      THEN "unseen" ELSE "no"
            \/ /\ ~StartLog(t) /\ log[threads[t].run].by = t
               /\ \E type \in LineTypes :
                    log'[threads[t].run] =
                      [by |-> t, lines |-> Append(log[threads[t].run].lines, type)]
<1> DEFINE r == threads[t].run
<1>1. UNCHANGED <<mirror, reading, stream>> /\ (~StartLog(t) => remade' = remade)
  BY DEF StartLog, Write, Complete, Return, Exit, Raise, Notify, mirrorVars
<1>2. /\ r \in Runs /\ log \in [Runs -> Logs]
      /\ remade \in [Runs -> {"no", "unseen", "missed"}]
  BY ThreadHasRun DEF TypeOK, MirrorTypeOK, Logs
<1>3. CASE StartLog(t)
  <2>1. /\ log' = [log EXCEPT ![r] = [by |-> t, lines |-> <<>>]]
        /\ remade' = [remade EXCEPT ![r] =
             IF mirror[r] # NoRows \/ reading.run = r THEN "unseen" ELSE "no"]
    BY <1>3 DEF StartLog, CreateLog
  <2> QED
    BY <1>1, <1>2, <1>3, <2>1
<1>4. ASSUME NEW type \in LineTypes, AppendLine(r, t, type), ~StartLog(t)
      PROVE  /\ \A q \in Runs : q # r => log'[q] = log[q] /\ remade'[q] = remade[q]
             /\ \/ log'[r] = log[r]
                \/ /\ log[r].by = t
                   /\ log'[r] = [by |-> t, lines |-> Append(log[r].lines, type)]
  BY <1>1, <1>2, <1>4 DEF AppendLine, Logs
<1>5. CASE Write(t)
  <2>1. ~StartLog(t)
    BY <1>5 DEF Write, StartLog, Stage
  <2>2. PICK type \in LineTypes : AppendLine(r, t, type)
    BY <1>5 DEF Write, LineTypes
  <2> QED
    BY <1>1, <1>4, <2>1, <2>2
<1>6. CASE Complete(t, status)
  <2>1. ~StartLog(t)
    BY <1>6 DEF Complete, StartLog, Stage
  <2>2. AppendLine(r, t, status) /\ status \in LineTypes
    BY <1>6 DEF Complete, LineTypes
  <2> QED
    BY <1>1, <1>4, <2>1, <2>2
<1>7. CASE UNCHANGED log /\ ~StartLog(t)
  BY <1>1, <1>7
<1>8. CASE Return(t) \/ Exit(t) \/ Raise(t) \/ Notify(t)
  <2>1. CASE StartLog(t)
    BY <1>3, <2>1
  <2>2. CASE ~StartLog(t)
    BY <1>7, <1>8, <2>2 DEF Return, Exit, Raise, Notify, mirrorVars
  <2> QED
    BY <2>1, <2>2
<1> QED
  BY <1>3, <1>5, <1>6, <1>8

\* What a mission makes of its own record.
LEMMA MissionFields ==
  ASSUME TypeOK, NEW t \in Started, NEW m, m = threads[t]
  PROVE  /\ StartLog(t) =>
              /\ m.stage = "starting" /\ threads'[t].stage = "writing"
              /\ threads'[t].final = m.final /\ threads'[t].notice = m.notice
         /\ Write(t) =>
              /\ m.final = "none" /\ threads'[t].stage = m.stage
              /\ threads'[t].final = m.final /\ threads'[t].notice = m.notice
         /\ \A status : Complete(t, status) =>
              /\ m.stage = "writing" /\ threads'[t].stage = m.stage
              /\ threads'[t].final = status /\ threads'[t].notice = m.notice
         /\ Return(t) =>
              /\ m.stage = "writing" /\ m.final # "none"
              /\ threads'[t].stage = "returned"
              /\ threads'[t].final = m.final /\ threads'[t].notice = m.notice
         /\ Exit(t) =>
              /\ m.stage = "returned" /\ threads'[t].stage = "dead"
              /\ threads'[t].final = m.final
              /\ threads'[t].notice = IF m.notice = "due" THEN "pending"
                                                          ELSE m.notice
         /\ Raise(t) =>
              /\ m.stage \in {"starting", "writing"}
              /\ threads'[t].stage = "dead" /\ threads'[t].final = m.final
              /\ threads'[t].notice = IF m.notice = "due" THEN "error"
                                                          ELSE m.notice
         /\ Notify(t) =>
              /\ m.notice = "pending" /\ threads'[t].stage = m.stage
              /\ threads'[t].final = m.final
              /\ threads'[t].notice = FinalStatus(m.run)
<1>1. m \in Threads /\ DOMAIN threads = Started
  BY ThreadHasRun DEF TypeOK, Started
<1>2. ASSUME StartLog(t)
      PROVE  /\ m.stage = "starting" /\ threads'[t].stage = "writing"
             /\ threads'[t].final = m.final /\ threads'[t].notice = m.notice
  <2>1. threads'[t] = [m EXCEPT !.stage = "writing"]
    BY <1>1, <1>2 DEF StartLog
  <2> QED
    BY <1>1, <1>2, <2>1 DEF StartLog, Stage, Threads
<1>3. ASSUME Write(t)
      PROVE  /\ m.final = "none" /\ threads'[t].stage = m.stage
             /\ threads'[t].final = m.final /\ threads'[t].notice = m.notice
  <2>1. threads'[t] = [m EXCEPT !.wrote = @ + 1]
    BY <1>1, <1>3 DEF Write
  <2> QED
    BY <1>1, <1>3, <2>1 DEF Write, Threads
<1>4. ASSUME NEW status, Complete(t, status)
      PROVE  /\ m.stage = "writing" /\ threads'[t].stage = m.stage
             /\ threads'[t].final = status /\ threads'[t].notice = m.notice
  <2>1. threads'[t] = [m EXCEPT !.final = status]
    BY <1>1, <1>4 DEF Complete
  <2> QED
    BY <1>1, <1>4, <2>1 DEF Complete, Stage, Threads
<1>5. ASSUME Return(t)
      PROVE  /\ m.stage = "writing" /\ m.final # "none"
             /\ threads'[t].stage = "returned"
             /\ threads'[t].final = m.final /\ threads'[t].notice = m.notice
  <2>1. threads'[t] = [m EXCEPT !.stage = "returned"]
    BY <1>1, <1>5 DEF Return
  <2> QED
    BY <1>1, <1>5, <2>1 DEF Return, Stage, Threads
<1>6. ASSUME Exit(t)
      PROVE  /\ m.stage = "returned" /\ threads'[t].stage = "dead"
             /\ threads'[t].final = m.final
             /\ threads'[t].notice = IF m.notice = "due" THEN "pending"
                                                         ELSE m.notice
  <2>1. threads'[t] = [m EXCEPT !.stage = "dead",
                             !.notice = IF @ = "due" THEN "pending" ELSE @]
    BY <1>1, <1>6 DEF Exit
  <2> QED
    BY <1>1, <1>6, <2>1 DEF Exit, Stage, Threads
<1>7. ASSUME Raise(t)
      PROVE  /\ m.stage \in {"starting", "writing"}
             /\ threads'[t].stage = "dead" /\ threads'[t].final = m.final
             /\ threads'[t].notice = IF m.notice = "due" THEN "error"
                                                         ELSE m.notice
  <2>1. threads'[t] = [m EXCEPT !.stage = "dead",
                             !.notice = IF @ = "due" THEN "error" ELSE @]
    BY <1>1, <1>7 DEF Raise
  <2> QED
    BY <1>1, <1>7, <2>1 DEF Raise, Stage, Threads
<1>8. ASSUME Notify(t)
      PROVE  /\ m.notice = "pending" /\ threads'[t].stage = m.stage
             /\ threads'[t].final = m.final
             /\ threads'[t].notice = FinalStatus(m.run)
  <2>1. threads'[t] = [m EXCEPT !.notice = FinalStatus(m.run)]
    BY <1>1, <1>8 DEF Notify
  <2> QED
    BY <1>1, <1>8, <2>1 DEF Notify, Threads
<1> QED
  BY <1>2, <1>3, <1>4, <1>5, <1>6, <1>7, <1>8

\* A request removes at most a log and, with the lock, the rows of a run.
LEMMA RequestView ==
  ASSUME TypeOK, Requests
  PROVE  /\ UNCHANGED <<reading, stream>> /\ raced \subseteq raced'
         /\ \A q \in Runs : log'[q] = log[q] \/ ~Exists(q)'
         /\ mirror' = mirror \/ Free
         /\ \A q \in Runs :
              \/ mirror'[q] = mirror[q] /\ remade'[q] = remade[q]
              \/ /\ mirror'[q] = NoRows /\ Free
                 /\ remade'[q] = IF remade[q] = "missed" THEN "missed" ELSE "no"
         /\ Started \subseteq Started'
         /\ \A u \in Started : threads'[u] = threads[u]
<1>1. PICK h \in Handlers :
        \/ MayAsk(h) /\ \E r \in Runs :
             \/ AskLaunch(h, r) \/ AskDelete(h, r)
             \/ \E source \in Runs : \/ AskResume(h, source, r)
                                    \/ AskReplay(h, source, r)
        \/ TurnDown(h) \/ Register(h)
        \/ RemoveDirectory(h) \/ DeleteRows(h) \/ PopEntry(h)
  BY DEF Requests
<1>2. ASSUME NEW r \in Runs, NEW at \in {"launching", "deriving", "removing"},
             Asks(h, r, at)
      PROVE  UNCHANGED <<log, mirror, reading, stream, remade, threads>>
             /\ raced \subseteq raced'
  BY <1>2 DEF Asks
<1>3. CASE UNCHANGED <<log, mirror, reading, stream, remade, threads>>
           /\ raced \subseteq raced'
  BY <1>3 DEF Started
<1>4. CASE Register(h)
  <2>1. NewThread(call[h].run, call[h].at) \in Threads
    BY <1>4 DEF Register, IsAdmitted, Idle, TypeOK, Calls, NewThread, Threads
  <2>2. /\ \A u \in Started : threads'[u] = threads[u]
        /\ Started' = Started \cup {Len(threads) + 1}
    BY <1>4, <2>1, ThreadAppended DEF Register, TypeOK
  <2> QED
    BY <1>4, <2>2 DEF Register, mirrorVars
<1>5. CASE RemoveDirectory(h)
  BY <1>5 DEF RemoveDirectory, RemoveLog, TypeOK, MirrorTypeOK, Exists, Started
<1>6. CASE DeleteRows(h)
  BY <1>6 DEF DeleteRows, ForgetRows, TypeOK, MirrorTypeOK, Started
<1>7. CASE TurnDown(h) \/ PopEntry(h)
  BY <1>3, <1>7 DEF TurnDown, PopEntry, mirrorVars
<1> QED
  BY <1>1, <1>2, <1>3, <1>4, <1>5, <1>6, <1>7, AskIsOne

\* A wave that starts only adds a thread, and perhaps a raced run.
LEMMA WaveView ==
  ASSUME TypeOK, Waves
  PROVE  /\ UNCHANGED <<log, mirror, reading, stream, remade, table, call>>
         /\ raced \subseteq raced'
         /\ Started' = Started \cup {Len(threads) + 1}
         /\ \A u \in Started : threads'[u] = threads[u]
         /\ \A u \in Started' \ Started :
              /\ threads'[u].as = "wave" /\ threads'[u].final = "none"
              /\ threads'[u].notice = "none" /\ threads'[u].stage = "starting"
              /\ threads'[u].run \in Runs
              /\ \/ threads'[u].run \in raced'
                 \/ \A v \in Started : threads[v].run = threads'[u].run =>
                      threads[v].notice # "pending" /\ ~Alive(v)
<1>1. PICK r \in Runs : StartWave(r)
  BY DEF Waves
<1>2. /\ threads'[Len(threads) + 1] = NewThread(r, "wave")
      /\ Started' = Started \cup {Len(threads) + 1}
      /\ \A u \in Started : threads'[u] = threads[u]
      /\ UNCHANGED <<log, mirror, reading, stream, remade, table, call>>
      /\ raced \subseteq raced'
      /\ HasMission(r) \/ AtWork(r) \/ ToBeTold(r) => r \in raced'
  BY <1>1, WaveAppended
<1> QED
  BY <1>2 DEF NewThread, HasMission, ToBeTold

\* A reader takes the lock, or commits, or gives it up, or neither.
LEMMA MirrorSteps ==
  ASSUME TypeOK, Mirroring
  PROVE  /\ UNCHANGED log /\ UNCHANGED consoleVars
         /\ \/ UNCHANGED <<mirror, reading, remade>>
            \/ /\ UNCHANGED mirror
               /\ \E who \in Clients \cup {"poll"}, r \in Runs : MirrorRead(who, r)
            \/ MirrorCommit /\ UNCHANGED remade
            \/ /\ UNCHANGED <<mirror, remade>> /\ reading' = Unlocked
               /\ ~reading.reset
<1> DEFINE Claim ==
      \/ UNCHANGED <<mirror, reading, remade>>
      \/ /\ UNCHANGED mirror
         /\ \E who \in Clients \cup {"poll"}, r \in Runs : MirrorRead(who, r)
      \/ MirrorCommit /\ UNCHANGED remade
      \/ UNCHANGED <<mirror, remade>> /\ reading' = Unlocked /\ ~reading.reset
<1>1. UNCHANGED log /\ UNCHANGED consoleVars
  BY MirroringLeaves DEF consoleVars
<1>2. ASSUME NEW c \in Clients, StreamRead(c) PROVE Claim
  <2>1. stream[c].run \in Runs
    BY <1>2 DEF StreamRead, Streams, Closed, TypeOK, MirrorTypeOK, Streaming
  <2> QED
    BY <1>2, <2>1 DEF StreamRead
<1>3. ASSUME NEW c \in Clients, NEW r \in Runs, OpenStream(c, r) PROVE Claim
  BY <1>3 DEF OpenStream
<1>4. ASSUME NEW c \in Clients, SendEvents(c) \/ LeaveStream(c) PROVE Claim
  BY <1>4 DEF SendEvents, LeaveStream
<1>5. ASSUME NEW c \in Clients, NEW alive, CheckStatus(c, alive) PROVE Claim
  BY <1>5 DEF CheckStatus
<1>6. ASSUME NEW c \in Clients, StreamCommit(c) \/ StreamRaises(c) PROVE Claim
  BY <1>6 DEF StreamCommit, StreamRaises, MirrorRaises
<1>7. ASSUME NEW r \in Runs, PollRead(r) PROVE Claim
  BY <1>7 DEF PollRead
<1>8. ASSUME PollCommit \/ PollRaises PROVE Claim
  BY <1>8 DEF PollCommit, PollRaises, MirrorRaises
<1> HIDE DEF Claim
<1>9. Claim
  BY <1>2, <1>3, <1>4, <1>5, <1>6, <1>7, <1>8 DEF Mirroring
<1> QED
  BY <1>1, <1>9 DEF Claim

\* A stream begins again with nothing sent, keeps what it sent, or sends.
Restarts(c) ==
  /\ stream'[c].sent = <<>> /\ stream'[c].last = 0
  /\ \/ stream'[c].of = 0
     \/ \E r \in Runs : Exists(r) /\ stream'[c].of = log[r].by
Keeps(c) ==
  /\ stream'[c].run = stream[c].run /\ stream'[c].sent = stream[c].sent
  /\ stream'[c].last = stream[c].last /\ stream'[c].of = stream[c].of
LEMMA StreamSteps ==
  ASSUME TypeOK, Mirroring, NEW c \in Clients
  PROVE  Restarts(c) \/ Keeps(c) \/ SendEvents(c)
<1> DEFINE Claim == Restarts(c) \/ Keeps(c) \/ SendEvents(c)
<1>1. stream \in [Clients -> Streaming \cup {Closed}]
  BY DEF TypeOK, MirrorTypeOK
<1>2. ASSUME NEW at, NEW d \in Clients, StreamTo(d, at) PROVE Claim
  <2>1. CASE d # c
    BY <1>1, <1>2, <2>1 DEF StreamTo, Keeps
  <2>2. CASE d = c
    BY <1>1, <1>2, <2>2 DEF StreamTo, Keeps, Streaming, Closed
  <2> QED
    BY <2>1, <2>2
<1>3. ASSUME NEW d \in Clients, EndsStream(d) PROVE Claim
  BY <1>1, <1>3 DEF EndsStream, Restarts, Keeps, Closed
<1>4. ASSUME NEW d \in Clients, NEW r \in Runs, OpenStream(d, r) PROVE Claim
  <2>1. stream[d] = Closed /\ Exists(r)
    BY <1>1, <1>4 DEF OpenStream, Streams, Streaming
  <2>2. stream' = [stream EXCEPT ![d] =
                     [Closed EXCEPT !.run = r, !.of = log[r].by, !.at = "mirror"]]
    BY <1>1, <1>4, <2>1 DEF OpenStream
  <2>3. CASE d # c
    BY <1>1, <2>2, <2>3 DEF Keeps
  <2>4. CASE d = c
    BY <1>1, <2>1, <2>2, <2>4 DEF Restarts, Closed
  <2> QED
    BY <2>3, <2>4
<1>5. ASSUME NEW d \in Clients, SendEvents(d) PROVE Claim
  <2>1. CASE d # c
    BY <1>1, <1>5, <2>1 DEF SendEvents, Keeps
  <2> QED
    BY <1>5, <2>1
<1>6. ASSUME UNCHANGED stream PROVE Claim
  BY <1>6 DEF Keeps
<1> HIDE DEF Claim
<1>7. ASSUME NEW d \in Clients,
             StreamRead(d) \/ StreamCommit(d) \/ StreamRaises(d) \/ LeaveStream(d)
      PROVE  Claim
  BY <1>2, <1>3, <1>7 DEF StreamRead, StreamCommit, StreamRaises, LeaveStream
<1>8. ASSUME NEW d \in Clients, NEW alive, CheckStatus(d, alive) PROVE Claim
  BY <1>2, <1>3, <1>8 DEF CheckStatus
<1>9. ASSUME NEW r \in Runs, PollRead(r) \/ PollCommit \/ PollRaises PROVE Claim
  BY <1>6, <1>9 DEF PollRead, PollCommit, PollRaises
<1>10. Claim
  BY <1>4, <1>5, <1>7, <1>8, <1>9, <1>6 DEF Mirroring, PollCommit, PollRaises
<1> QED
  BY <1>10 DEF Claim

-----------------------------------------------------------------------------
(***************************************************************************)
(* Lines and rows are of missions that have begun, which a mission still   *)
(* to begin its log can tell from its own.                                 *)
(***************************************************************************)
LEMMA BegunKept ==
  ASSUME TypeOK, [Next]_vars, NEW n, Begun(n)
  PROVE  Begun(n)'
<1>1. CASE Missions
  <2>1. PICK t \in Started :
          \/ StartLog(t) \/ Write(t) \/ Return(t) \/ Raise(t) \/ Exit(t)
          \/ Notify(t) \/ \E status \in Ends : Complete(t, status)
    BY <1>1 DEF Missions
  <2>2. /\ Started' = Started /\ Moves(threads[t], threads'[t])
        /\ \A u \in Started : u # t => threads'[u] = threads[u]
    <3>1. "failed" \in Ends
      BY DEF Ends
    <3> QED
      BY <2>1, <3>1, MissionKeepsThreads
  <2> QED
    BY <2>2 DEF Begun, Moves
<1>2. CASE Requests
  BY <1>2, RequestView DEF Begun
<1>3. CASE Mirroring \/ UNCHANGED vars
  BY <1>3 DEF Mirroring, consoleVars, vars, Begun, Started
<1>4. CASE Waves
  BY <1>4, WaveView DEF Begun
<1> QED
  BY <1>1, <1>2, <1>3, <1>4 DEF Next

\* What a stream is sent are rows of its run.
LEMMA SentRows ==
  ASSUME TypeOK, NEW c \in Clients, SendEvents(c)
  PROVE  /\ stream[c].run \in Runs /\ Free
         /\ NewRows(c) \in Seq(Rows)
         /\ Len(NewRows(c)) =
              IF stream[c].last < Len(mirror[stream[c].run].rows)
                THEN Len(mirror[stream[c].run].rows) - stream[c].last ELSE 0
         /\ \A k \in 1..Len(NewRows(c)) :
              \E j \in 1..Len(mirror[stream[c].run].rows) :
                NewRows(c)[k] = mirror[stream[c].run].rows[j]
         /\ stream'[c].run = stream[c].run /\ stream'[c].of = stream[c].of
         /\ stream'[c].sent = stream[c].sent \o NewRows(c)
         /\ stream'[c].last = IF stream[c].last < Len(mirror[stream[c].run].rows)
                                THEN Len(mirror[stream[c].run].rows)
                                ELSE stream[c].last
<1>1. stream[c] \in Streaming
  BY DEF TypeOK, MirrorTypeOK, SendEvents, Streams, Closed
<1> DEFINE rows == mirror[stream[c].run].rows
           from == stream[c].last + 1
<1>2. rows \in Seq(Rows) /\ stream[c].last \in Nat
  BY <1>1 DEF TypeOK, MirrorTypeOK, Streaming
<1>3. /\ Len(rows) \in Nat /\ from \in Nat /\ from >= 1
      /\ NewRows(c) = SubSeq(rows, from, Len(rows))
  <2>1. NewRows(c) = SubSeq(rows, from, Len(rows))
    BY DEF NewRows
  <2>2. Len(rows) \in Nat
    BY <1>2
  <2>3. from \in Nat /\ from >= 1
    BY <1>2
  <2> QED
    BY <2>1, <2>2, <2>3
<1> HIDE DEF from
<1>4. ASSUME NEW k \in from..Len(rows) PROVE rows[k] \in Rows
  BY <1>2, <1>3, <1>4
<1>last. stream[c].last \in Nat
  BY <1>2
<1> HIDE DEF rows
<1>5. /\ NewRows(c) \in Seq(Rows)
      /\ Len(NewRows(c)) = IF from <= Len(rows) THEN Len(rows) - from + 1 ELSE 0
      /\ \A k \in 1..(Len(rows) - from + 1) : NewRows(c)[k] = rows[from + k - 1]
  BY <1>3, <1>4, SubSeqProperties
<1>6. ASSUME NEW k \in 1..Len(NewRows(c))
      PROVE  \E j \in 1..Len(rows) : NewRows(c)[k] = rows[j]
  <2>1. k \in 1..(Len(rows) - from + 1) /\ from + k - 1 \in 1..Len(rows)
    BY <1>3, <1>5, <1>6
  <2> QED
    BY <1>5, <2>1
<1>7. /\ stream' = [stream EXCEPT ![c] =
               [stream[c] EXCEPT
                  !.at = IF NewRows(c) = <<>> THEN "status" ELSE "busy",
                  !.sent = @ \o NewRows(c),
                  !.last = IF @ < Len(rows) THEN Len(rows) ELSE @]]
      /\ Free
  BY DEF SendEvents, TypeOK, MirrorTypeOK, rows
<1>8. /\ stream'[c].run = stream[c].run /\ stream'[c].of = stream[c].of
      /\ stream'[c].sent = stream[c].sent \o NewRows(c)
      /\ stream'[c].last = IF stream[c].last < Len(rows) THEN Len(rows)
                                                        ELSE stream[c].last
  BY <1>1, <1>7 DEF TypeOK, MirrorTypeOK, Streaming
<1>9. Len(NewRows(c)) = IF stream[c].last < Len(rows)
                           THEN Len(rows) - stream[c].last ELSE 0
  BY <1>3, <1>5, <1>last DEF from
<1> QED
  BY <1>1, <1>5, <1>6, <1>7, <1>8, <1>9 DEF rows, Streaming

LEMMA LogsBegunStep == TypeOK /\ LogsBegun /\ [Next]_vars => LogsBegun'
<1> SUFFICES ASSUME TypeOK, LogsBegun, [Next]_vars, NEW q \in Runs, Exists(q)'
             PROVE  Begun(log[q].by)'
  BY DEF LogsBegun
<1>1. CASE log'[q].by = log[q].by /\ Exists(q)
  BY <1>1, BegunKept DEF LogsBegun, Begun
<1>2. CASE Missions
  <2>1. PICK t \in Started, status \in Ends :
          \/ StartLog(t) \/ Write(t) \/ Complete(t, status) \/ Return(t)
          \/ Exit(t) \/ Raise(t) \/ Notify(t)
    <3>1. "failed" \in Ends
      BY DEF Ends
    <3> QED
      BY <1>2, <3>1 DEF Missions
  <2>2. CASE q # threads[t].run
    <3>1. log'[q] = log[q]
      BY <2>1, <2>2, MissionLog
    <3> QED
      BY <1>1, <3>1 DEF Exists
  <2>3. CASE StartLog(t) /\ q = threads[t].run
    <3>1. threads'[t].stage = "writing" /\ t \in Started'
      BY <2>1, <2>3, MissionFields, MissionKeepsThreads
    <3>2. log'[q].by = t
      BY <2>1, <2>3, MissionKeepsLogs
    <3> QED
      BY <3>1, <3>2 DEF Begun
  <2>4. CASE ~StartLog(t) /\ q = threads[t].run
    <3>1. /\ log'[q].by = log[q].by
          /\ log'[q] = log[q] \/ log[q].by = t
      BY <2>1, <2>4, MissionLog, MissionKeepsLogs
    <3>2. t # 0
      BY DEF TypeOK, Started
    <3> QED
      BY <1>1, <3>1, <3>2 DEF Exists, NoLog
  <2> QED
    BY <2>2, <2>3, <2>4
<1>3. CASE Requests
  BY <1>1, <1>3, RequestView DEF Exists
<1>4. CASE Mirroring \/ UNCHANGED vars
  BY <1>1, <1>4, MirrorSteps DEF vars, Exists
<1>5. CASE Waves
  BY <1>1, <1>5, WaveView DEF Exists
<1> QED
  BY <1>2, <1>3, <1>4, <1>5 DEF Next

\* The rows of the lines past the first n.
RowsPast(r, n) ==
  [k \in 1..(Len(log[r].lines) - n) |->
     [by |-> log[r].by, type |-> log[r].lines[n + k]]]

\* What the holder of the lock has read, and whether it could notice that the
\* log was made anew: a log that is no shorter than the offset is read from
\* there, a shorter one from its beginning.
LEMMA ReadRows ==
  ASSUME TypeOK, NEW who, NEW r \in Runs, MirrorRead(who, r)
  PROVE  /\ Free /\ Exists(r) /\ reading'.run = r
         /\ \A q \in Runs : q # r => remade'[q] = remade[q]
         /\ \A k \in 1..Len(reading'.rows) : reading'.rows[k].by = log[r].by
         /\ reading'.consumed = Len(reading'.rows)
         /\ remade'[r] \in {"no", "missed"}
         /\ remade[r] # "unseen" => remade'[r] = remade[r]
         /\ mirror[r].offset <= Len(log[r].lines) =>
              /\ reading'.reset = FALSE
              /\ reading'.rows = RowsPast(r, mirror[r].offset)
         /\ remade[r] = "unseen" /\ remade'[r] = "no" /\ mirror[r].offset # 0 =>
              /\ reading'.reset = TRUE
              /\ reading'.rows = RowsPast(r, 0)
<1>1. PICK torn \in Torn(r) :
        LET from == IF IsReset(r, torn) THEN 0 ELSE mirror[r].offset
            past == IF from < Len(log[r].lines) THEN Len(log[r].lines) - from
                                                ELSE 0
            rows == [k \in 1..past |-> Row(r, from + k)]
        IN  /\ reading' = [who |-> who, run |-> r, reset |-> IsReset(r, torn),
                           rows |-> rows, consumed |-> Consumed(rows, torn)]
            /\ remade' = [remade EXCEPT ![r] = Noticed(r, torn)]
  BY DEF MirrorRead
<1> DEFINE from == IF IsReset(r, torn) THEN 0 ELSE mirror[r].offset
           past == IF from < Len(log[r].lines) THEN Len(log[r].lines) - from
                                               ELSE 0
           rows == [k \in 1..past |-> Row(r, from + k)]
<1>2. Len(log[r].lines) \in Nat /\ mirror[r].offset \in Nat
  BY DEF TypeOK, MirrorTypeOK
<1>3. from \in Nat /\ past \in Nat
  BY <1>2
<1>4. Len(rows) = past
  BY <1>3, LenProperties
<1>5. /\ reading'.run = r /\ reading'.rows = rows
      /\ reading'.reset = IsReset(r, torn)
      /\ reading'.consumed = Len(rows)
  BY <1>1 DEF Consumed
<1>6. ASSUME NEW k \in 1..Len(rows) PROVE rows[k].by = log[r].by
  BY <1>4, <1>6 DEF Row
<1>7. /\ \A q \in Runs : q # r => remade'[q] = remade[q]
      /\ remade'[r] = Noticed(r, torn)
  BY <1>1 DEF TypeOK, MirrorTypeOK
<1>8. Size(r, torn) \in Nat /\ Size(r, torn) >= Len(log[r].lines)
  <2> DEFINE half == IF torn THEN 1 ELSE 0
  <2>1. half \in Nat
    OBVIOUS
  <2>2. Size(r, torn) = Len(log[r].lines) + half
    BY DEF Size
  <2> HIDE DEF half
  <2> QED
    BY <1>2, <2>1, <2>2
<1>9. ASSUME mirror[r].offset <= Len(log[r].lines)
      PROVE  /\ IsReset(r, torn) = FALSE
             /\ past = Len(log[r].lines) - mirror[r].offset
             /\ from = mirror[r].offset
  <2>1. ~(Size(r, torn) < mirror[r].offset)
    BY <1>2, <1>8, <1>9
  <2>2. IsReset(r, torn) = FALSE
    BY <2>1 DEF IsReset
  <2> QED
    BY <1>2, <1>9, <2>2
<1>10. ASSUME remade[r] = "unseen", remade'[r] = "no", mirror[r].offset # 0
       PROVE  IsReset(r, torn) = TRUE /\ from = 0 /\ past = Len(log[r].lines)
  <2>1. mirror[r].offset \notin 1..Size(r, torn)
    BY <1>7, <1>10 DEF Noticed
  <2>2. Size(r, torn) < mirror[r].offset
    BY <1>2, <1>8, <1>10, <2>1
  <2>3. IsReset(r, torn) = TRUE
    BY <2>2 DEF IsReset
  <2> QED
    BY <1>2, <2>3
<1>11. /\ remade'[r] \in {"no", "missed"}
       /\ remade[r] # "unseen" => remade'[r] = remade[r]
  BY <1>7 DEF Noticed, TypeOK, MirrorTypeOK
<1>12. Free /\ Exists(r)
  BY DEF MirrorRead
<1> HIDE DEF past, from
<1>13. mirror[r].offset <= Len(log[r].lines) =>
         rows = RowsPast(r, mirror[r].offset)
  BY <1>9 DEF Row, RowsPast
<1>14. ASSUME remade[r] = "unseen", remade'[r] = "no", mirror[r].offset # 0
       PROVE  rows = RowsPast(r, 0)
  <2>1. Len(log[r].lines) - 0 = Len(log[r].lines)
    BY <1>2
  <2> QED
    BY <1>10, <1>14, <2>1 DEF Row, RowsPast
<1> HIDE DEF rows
<1>15. reading'.consumed = Len(reading'.rows)
  BY <1>5
<1>16. \A k \in 1..Len(reading'.rows) : reading'.rows[k].by = log[r].by
  BY <1>5, <1>6
<1> QED
  BY <1>5, <1>7, <1>9, <1>10, <1>11, <1>12, <1>13, <1>14, <1>15, <1>16

\* What a commit leaves.
LEMMA Committed ==
  ASSUME TypeOK, MirrorCommit
  PROVE  /\ reading.run \in Runs /\ reading' = Unlocked
         /\ \A q \in Runs : q # reading.run => mirror'[q] = mirror[q]
         /\ mirror'[reading.run].offset =
              IF reading.reset THEN reading.consumed
                               ELSE mirror[reading.run].offset + reading.consumed
         /\ mirror'[reading.run].rows =
              IF reading.reset THEN reading.rows
                               ELSE mirror[reading.run].rows \o reading.rows
<1> DEFINE r == reading.run
           old == IF reading.reset THEN NoRows ELSE mirror[r]
<1>1. /\ r \in Runs /\ reading.rows \in Seq(Rows) /\ reading.consumed \in Nat
      /\ reading' = Unlocked
  BY DEF TypeOK, MirrorTypeOK, MirrorCommit, Free
<1>2. mirror' = [mirror EXCEPT ![r] =
                   [offset |-> old.offset + reading.consumed,
                    rows |-> old.rows \o reading.rows,
                    status |-> StatusAfter(old.status, reading.rows)]]
  BY DEF MirrorCommit
<1>3. /\ mirror'[r].offset = old.offset + reading.consumed
      /\ mirror'[r].rows = old.rows \o reading.rows
      /\ \A q \in Runs : q # r => mirror'[q] = mirror[q]
  BY <1>1, <1>2 DEF TypeOK, MirrorTypeOK
<1>4. 0 + reading.consumed = reading.consumed /\ <<>> \o reading.rows = reading.rows
  BY <1>1, ConcatEmptySeq
<1>5. reading.reset => old.offset = 0 /\ old.rows = <<>>
  BY DEF NoRows
<1>6. ~reading.reset => old = mirror[r]
  OBVIOUS
<1> HIDE DEF old
<1> QED
  BY <1>1, <1>3, <1>4, <1>5, <1>6

LEMMA RowsBegunStep ==
  TypeOK /\ LogsBegun /\ RowsBegun /\ [Next]_vars => RowsBegun'
<1> SUFFICES ASSUME TypeOK, LogsBegun, RowsBegun, [Next]_vars PROVE RowsBegun'
  OBVIOUS
<1>1. ASSUME reading' = reading,
             \A q \in Runs : mirror'[q] \in {mirror[q], NoRows}
      PROVE  RowsBegun'
  <2>1. Len(NoRows.rows) = 0
    BY DEF NoRows
  <2> QED
    BY <1>1, <2>1, BegunKept DEF RowsBegun, Begun
<1>2. CASE Missions
  <2>1. UNCHANGED <<mirror, reading>>
    BY <1>2 DEF Missions, StartLog, Write, Complete, Return, Exit, Raise, Notify,
                mirrorVars
  <2> QED
    BY <1>1, <2>1
<1>3. CASE Requests \/ Waves
  BY <1>1, <1>3, RequestView, WaveView
<1>4. ASSUME NEW who, NEW r \in Runs, MirrorRead(who, r), UNCHANGED mirror
      PROVE  RowsBegun'
  <2>1. \A k \in 1..Len(reading'.rows) : reading'.rows[k].by = log[r].by
    BY <1>4, ReadRows
  <2>2. Begun(log[r].by)
    BY <1>4, ReadRows DEF LogsBegun
  <2> QED
    BY <1>4, <2>1, <2>2, BegunKept DEF RowsBegun, Begun
<1>5. CASE MirrorCommit
  <2> DEFINE r == reading.run
  <2>1. reading'.rows = <<>> /\ r \in Runs
    BY <1>5, Committed DEF Unlocked
  <2>2. ASSUME NEW k \in 1..Len(mirror'[r].rows) PROVE Begun(mirror'[r].rows[k].by)
    <3>1. CASE reading.reset
      BY <1>5, <2>2, <3>1, Committed DEF RowsBegun
    <3>2. CASE ~reading.reset
      <4>1. mirror[r].rows \in Seq(Rows) /\ reading.rows \in Seq(Rows)
        BY <2>1, RowTypes
      <4>2. mirror'[r].rows = mirror[r].rows \o reading.rows
        BY <1>5, <3>2, Committed
      <4>3. k \in 1..Len(mirror[r].rows \o reading.rows)
        BY <2>2, <4>2
      <4>4. \/ \E j \in 1..Len(mirror[r].rows) :
                 (mirror[r].rows \o reading.rows)[k] = mirror[r].rows[j]
            \/ \E j \in 1..Len(reading.rows) :
                 (mirror[r].rows \o reading.rows)[k] = reading.rows[j]
        BY <4>1, <4>3, ConcatElement
      <4> QED
        BY <2>1, <4>2, <4>4 DEF RowsBegun
    <3> QED
      BY <3>1, <3>2
  <2>3. ASSUME NEW q \in Runs, NEW k \in 1..Len(mirror'[q].rows)
        PROVE  Begun(mirror'[q].rows[k].by)
    <3>1. CASE q = r
      BY <2>2, <2>3, <3>1
    <3>2. CASE q # r
      <4>1. mirror'[q] = mirror[q]
        BY <1>5, <3>2, Committed
      <4> QED
        BY <2>3, <4>1 DEF RowsBegun
    <3> QED
      BY <3>1, <3>2
  <2> QED
    BY <2>1, <2>3, BegunKept DEF RowsBegun, Begun
<1>6. ASSUME UNCHANGED mirror, reading' = Unlocked PROVE RowsBegun'
  <2>1. Len(reading'.rows) = 0
    BY <1>6 DEF Unlocked
  <2> QED
    BY <1>6, <2>1, BegunKept DEF RowsBegun, Begun
<1>7. CASE Mirroring
  BY <1>1, <1>4, <1>5, <1>6, <1>7, MirrorSteps
<1>8. CASE UNCHANGED vars
  BY <1>1, <1>8 DEF vars
<1> QED
  BY <1>2, <1>3, <1>7, <1>8 DEF Next

LEMMA SentBegunStep ==
  TypeOK /\ LogsBegun /\ RowsBegun /\ SentBegun /\ CountInv /\ [Next]_vars
    => SentBegun' /\ CountInv'
<1> SUFFICES ASSUME TypeOK, LogsBegun, RowsBegun, SentBegun, CountInv,
                    [Next]_vars, NEW c \in Clients
             PROVE  /\ \A k \in 1..Len(stream'[c].sent) :
                         Begun(stream[c].sent[k].by)'
                    /\ stream'[c].of # 0 => Begun(stream[c].of)'
                    /\ stream'[c].last = Len(stream'[c].sent)
  BY DEF SentBegun, CountInv
<1>1. CASE Keeps(c)
  BY <1>1, BegunKept DEF Keeps, SentBegun, CountInv, Begun
<1>2. CASE Restarts(c)
  <2>1. stream'[c].of # 0 => Begun(stream'[c].of)
    BY <1>2 DEF Restarts, LogsBegun
  <2> QED
    BY <1>2, <2>1, BegunKept DEF Restarts, Begun
<1>3. CASE SendEvents(c)
  <2> DEFINE sent == stream[c].sent
             new == NewRows(c)
             rows == mirror[stream[c].run].rows
  <2>1. /\ sent \in Seq(Rows) /\ new \in Seq(Rows) /\ rows \in Seq(Rows)
        /\ stream'[c].sent = sent \o new
    BY <1>3, RowTypes, SentRows
  <2>2. ASSUME NEW j \in 1..Len(new) PROVE Begun(new[j].by)
    BY <1>3, <2>2, SentRows DEF RowsBegun
  <2>3. ASSUME NEW k \in 1..Len(sent \o new) PROVE Begun((sent \o new)[k].by)
    <3>1. \/ \E j \in 1..Len(sent) : (sent \o new)[k] = sent[j]
          \/ \E j \in 1..Len(new) : (sent \o new)[k] = new[j]
      <4> HIDE DEF sent, new
      <4> QED
        BY <2>1, <2>3, ConcatElement
    <3> QED
      BY <2>2, <3>1 DEF SentBegun
  <2>4. /\ stream[c].last = Len(sent)
        /\ Len(new) = IF Len(sent) < Len(rows) THEN Len(rows) - Len(sent) ELSE 0
        /\ stream'[c].last = IF Len(sent) < Len(rows) THEN Len(rows)
                                                    ELSE Len(sent)
    BY <1>3, SentRows DEF CountInv
  <2>5. stream'[c].last = Len(sent \o new)
    <3> HIDE DEF sent, new, rows
    <3>1. Len(sent \o new) = Len(sent) + Len(new)
      BY <2>1, ConcatProperties
    <3>2. Len(sent) \in Nat /\ Len(rows) \in Nat
      BY <2>1
    <3> QED
      BY <2>4, <3>1, <3>2
  <2>6. stream'[c].of = stream[c].of
    BY <1>3, SentRows
  <2> QED
    BY <2>1, <2>3, <2>5, <2>6, BegunKept DEF Begun, SentBegun
<1>4. CASE UNCHANGED stream
  BY <1>1, <1>4 DEF Keeps
<1>5. CASE Mirroring
  BY <1>1, <1>2, <1>3, <1>5, StreamSteps
<1>6. CASE Missions
  BY <1>4, <1>6
     DEF Missions, StartLog, Write, Complete, Return, Exit, Raise, Notify,
         mirrorVars
<1> QED
  BY <1>4, <1>5, <1>6, RequestView, WaveView DEF Next, vars

LEMMA ViewInit == Init => ViewInv
BY DEF Init, MirrorInit, ViewInv, LogsBegun, RowsBegun, SentBegun, CountInv, Exists,
       NoRows, Unlocked, Closed

LEMMA ViewStep == TypeOK /\ ViewInv /\ [Next]_vars => ViewInv'
BY LogsBegunStep, RowsBegunStep, SentBegunStep DEF ViewInv

\* The offset counts the rows, whoever reads and whatever is forgotten.
LEMMA OffsetStep == TypeOK /\ OffsetInv /\ [Next]_vars => OffsetInv'
<1> SUFFICES ASSUME TypeOK, OffsetInv, [Next]_vars PROVE OffsetInv'
  OBVIOUS
<1>1. NoRows.offset = Len(NoRows.rows) /\ Unlocked.consumed = Len(Unlocked.rows)
  BY DEF NoRows, Unlocked
<1>2. ASSUME reading' = reading,
             \A q \in Runs : mirror'[q] \in {mirror[q], NoRows}
      PROVE  OffsetInv'
  BY <1>1, <1>2 DEF OffsetInv
<1>3. CASE Missions
  <2>1. UNCHANGED <<mirror, reading>>
    BY <1>3 DEF Missions, StartLog, Write, Complete, Return, Exit, Raise, Notify,
                mirrorVars
  <2> QED
    BY <1>2, <2>1
<1>4. CASE Requests \/ Waves
  BY <1>2, <1>4, RequestView, WaveView
<1>5. CASE MirrorCommit
  <2> DEFINE r == reading.run
             new == mirror[r].rows \o reading.rows
  <2>1. /\ mirror[r].rows \in Seq(Rows) /\ reading.rows \in Seq(Rows)
        /\ r \in Runs /\ reading' = Unlocked
    BY <1>5, Committed, RowTypes
  <2>2. Len(new) = Len(mirror[r].rows) + Len(reading.rows)
    BY <2>1, ConcatProperties
  <2>3. mirror'[r].offset = Len(mirror'[r].rows)
    <3>1. CASE reading.reset
      BY <1>5, <3>1, Committed DEF OffsetInv
    <3>2. CASE ~reading.reset
      <4>1. mirror'[r].rows = new
        BY <1>5, <3>2, Committed
      <4>2. mirror'[r].offset = mirror[r].offset + reading.consumed
        BY <1>5, <3>2, Committed
      <4> QED
        BY <2>1, <2>2, <4>1, <4>2 DEF OffsetInv
    <3> QED
      BY <3>1, <3>2
  <2>4. \A q \in Runs : q # r => mirror'[q] = mirror[q]
    BY <1>5, Committed
  <2> QED
    BY <1>1, <2>1, <2>3, <2>4 DEF OffsetInv
<1>6. CASE Mirroring
  BY <1>1, <1>2, <1>5, <1>6, MirrorSteps, ReadRows DEF OffsetInv
<1> QED
  BY <1>2, <1>3, <1>4, <1>6 DEF Next, vars

\* A stream of the log that is there leaves "mirror" by reading it; a log is
\* made anew only by a thread that no stream was opened on.
LEMMA LookedMirroring ==
  ASSUME TypeOK, LookedInv, Mirroring PROVE LookedInv'
<1> SUFFICES ASSUME NEW c \in Clients, NEW r \in Runs, stream'[c].run = r,
                    stream'[c].at # "mirror", Exists(r)',
                    stream'[c].of = log'[r].by
             PROVE  remade'[r] # "unseen"
  BY DEF LookedInv
<1>1. /\ stream \in [Clients -> Streaming \cup {Closed}] /\ Closed.run \notin Runs
      /\ log' = log
  BY MirrorSteps, ConsoleAssumption DEF TypeOK, MirrorTypeOK, Closed
<1>2. remade[r] # "unseen" => remade'[r] # "unseen"
  BY MirrorSteps, ReadRows DEF MirrorCommit
<1>3. ASSUME stream'[c].run = stream[c].run, stream'[c].of = stream[c].of,
             stream[c].at # "mirror"
      PROVE  remade'[r] # "unseen"
  BY <1>1, <1>2, <1>3 DEF LookedInv, Exists
<1>4. ASSUME NEW at, StreamTo(c, at)
      PROVE  stream'[c].run = stream[c].run /\ stream'[c].of = stream[c].of
             /\ stream'[c].at = at
  BY <1>1, <1>4 DEF StreamTo, Streaming, Closed
<1>5. ASSUME NEW d \in Clients, d # c,
             \/ \E at : StreamTo(d, at)
             \/ EndsStream(d)
             \/ \E q \in Runs : OpenStream(d, q)
             \/ SendEvents(d)
      PROVE  remade'[r] # "unseen"
  <2>0. d # c
    BY <1>5
  <2>1. ASSUME NEW at, StreamTo(d, at) PROVE stream'[c] = stream[c]
    BY <1>1, <2>0, <2>1 DEF StreamTo
  <2>2. ASSUME EndsStream(d) PROVE stream'[c] = stream[c]
    BY <1>1, <2>0, <2>2 DEF EndsStream
  <2>3. ASSUME NEW q \in Runs, OpenStream(d, q) PROVE stream'[c] = stream[c]
    BY <1>1, <2>0, <2>3 DEF OpenStream
  <2>4. ASSUME SendEvents(d) PROVE stream'[c] = stream[c]
    BY <1>1, <2>0, <2>4 DEF SendEvents
  <2>5. stream'[c] = stream[c]
    BY <1>5, <2>1, <2>2, <2>3, <2>4
  <2>6. stream[c].at # "mirror"
    BY <2>5
  <2> QED
    BY <1>3, <2>5, <2>6
<1>6. ~EndsStream(c)
  BY <1>1 DEF EndsStream
<1>7. ASSUME NEW q \in Runs, OpenStream(c, q) PROVE FALSE
  <2>1. stream[c] = Closed
    BY <1>1, <1>7 DEF OpenStream, Streams, Streaming
  <2> QED
    BY <1>1, <1>7, <2>1 DEF OpenStream, Closed
<1>8. ASSUME NEW d \in Clients, SendEvents(d) PROVE remade'[r] # "unseen"
  <2>1. CASE d = c
    BY <1>3, <1>8, <2>1, SentRows DEF SendEvents, Streams
  <2> QED
    BY <1>5, <1>8, <2>1
<1>9. ASSUME NEW d \in Clients, NEW alive, CheckStatus(d, alive)
      PROVE  remade'[r] # "unseen"
  BY <1>4, <1>5, <1>6, <1>9 DEF CheckStatus
<1>10. ASSUME NEW d \in Clients, StreamRead(d) PROVE remade'[r] # "unseen"
  <2>1. CASE d = c
    <3>1. stream[c].run = r
      BY <1>4, <1>10, <2>1 DEF StreamRead
    <3>2. CASE MirrorRead(c, r)
      BY <3>2, ReadRows
    <3>3. CASE ~Exists(r)
      BY <1>1, <3>3 DEF Exists
    <3> QED
      BY <1>10, <2>1, <3>1, <3>2, <3>3 DEF StreamRead
  <2> QED
    BY <1>5, <1>10, <2>1 DEF StreamRead
<1>11. ASSUME NEW d \in Clients, StreamCommit(d) PROVE remade'[r] # "unseen"
  BY <1>3, <1>4, <1>5, <1>11 DEF StreamCommit, Streams
<1>12. ASSUME NEW d \in Clients, StreamRaises(d) \/ LeaveStream(d)
       PROVE  remade'[r] # "unseen"
  BY <1>5, <1>6, <1>12 DEF StreamRaises, LeaveStream
<1>13. ASSUME UNCHANGED stream PROVE remade'[r] # "unseen"
  BY <1>3, <1>13
<1>14. ASSUME NEW q \in Runs, PollRead(q) \/ PollCommit \/ PollRaises
       PROVE  remade'[r] # "unseen"
  BY <1>13, <1>14 DEF PollRead, PollCommit, PollRaises
<1>15. ASSUME NEW d \in Clients, NEW q \in Runs, OpenStream(d, q)
       PROVE  remade'[r] # "unseen"
  BY <1>5, <1>7, <1>15
<1> QED
  BY <1>8, <1>9, <1>10, <1>11, <1>12, <1>13, <1>14, <1>15
     DEF Mirroring, PollCommit, PollRaises

LEMMA LookedStep ==
  TypeOK /\ ViewInv /\ LookedInv /\ [Next]_vars => LookedInv'
<1> SUFFICES ASSUME TypeOK, ViewInv, LookedInv, [Next]_vars PROVE LookedInv'
  OBVIOUS
<1>1. ASSUME UNCHANGED stream,
             \A r \in Runs : Exists(r)' =>
               \/ \A c \in Clients : stream[c].of # log'[r].by
               \/ /\ log'[r].by = log[r].by /\ Exists(r)
                  /\ remade[r] # "unseen" => remade'[r] # "unseen"
      PROVE  LookedInv'
  BY <1>1 DEF LookedInv
<1>2. CASE Missions
  <2>1. PICK t \in Started, status \in Ends :
          \/ StartLog(t) \/ Write(t) \/ Complete(t, status) \/ Return(t)
          \/ Exit(t) \/ Raise(t) \/ Notify(t)
    <3>1. "failed" \in Ends
      BY DEF Ends
    <3> QED
      BY <1>2, <3>1 DEF Missions
  <2>2. ASSUME NEW r \in Runs, Exists(r)'
        PROVE  \/ \A c \in Clients : stream[c].of # log'[r].by
               \/ /\ log'[r].by = log[r].by /\ Exists(r)
                  /\ remade'[r] = remade[r]
    <3>1. CASE StartLog(t) /\ threads[t].run = r
      <4>1. log'[r].by = t
        BY <2>1, <3>1, MissionKeepsLogs
      <4>2. t # 0
        BY DEF TypeOK, Started
      <4>3. ~Begun(t)
        BY <3>1 DEF StartLog, Stage, Begun
      <4>4. ASSUME NEW c \in Clients, stream[c].of = t PROVE FALSE
        <5>1. stream[c].of # 0 => Begun(stream[c].of)
          BY DEF ViewInv, SentBegun
        <5> QED
          BY <4>2, <4>3, <4>4, <5>1
      <4> QED
        BY <4>1, <4>4
    <3>2. CASE ~(StartLog(t) /\ threads[t].run = r)
      <4>1. log'[r].by = log[r].by
        BY <2>1, <3>2, MissionKeepsLogs
      <4>2. remade'[r] = remade[r] /\ (log'[r] = log[r] \/ log[r].by = t)
        <5>1. CASE threads[t].run # r
          BY <2>1, <5>1, MissionLog
        <5>2. CASE threads[t].run = r
          <6>1. remade' = remade
            BY <2>1, <3>2, <5>2, MissionLog
          <6> QED
            BY <2>1, <3>2, <5>2, <6>1, MissionLog
        <5> QED
          BY <5>1, <5>2
      <4>3. Exists(r)
        BY <2>2, <4>2 DEF Exists, NoLog, TypeOK, Started
      <4> QED
        BY <4>1, <4>2, <4>3
    <3> QED
      BY <3>1, <3>2
  <2>3. UNCHANGED stream
    BY <2>1, MissionLog
  <2> QED
    BY <1>1, <2>2, <2>3
<1>3. CASE Requests
  <2>1. ASSUME NEW r \in Runs, Exists(r)'
        PROVE  /\ log'[r].by = log[r].by /\ Exists(r)
               /\ remade[r] # "unseen" => remade'[r] # "unseen"
    BY <1>3, <2>1, RequestView DEF Exists
  <2> QED
    BY <1>1, <1>3, <2>1, RequestView
<1>4. CASE Waves \/ UNCHANGED vars
  BY <1>1, <1>4, WaveView DEF vars, Exists
<1> QED
  BY <1>2, <1>3, <1>4, LookedMirroring DEF Next

-----------------------------------------------------------------------------
(***************************************************************************)
(* A mission that nobody races begins where there is no log, and no rows,  *)
(* unless it is a wave.                                                    *)
(***************************************************************************)
LEMMA FreshMission ==
  ASSUME TypeOK, FreshInv, AloneInv, NEW t \in Started, NEW status \in Ends,
         \/ StartLog(t) \/ Write(t) \/ Complete(t, status) \/ Return(t)
         \/ Exit(t) \/ Raise(t) \/ Notify(t)
  PROVE  FreshInv'
<1>1. /\ Started' = Started /\ Moves(threads[t], threads'[t])
      /\ \A u \in Started : u # t => threads'[u] = threads[u]
      /\ UNCHANGED <<table, call, raced>>
  BY MissionKeepsThreads
<1>2. ASSUME NEW r \in Runs \ raced, ~Exists(r),
             StartLog(t) => threads[t].run # r
      PROVE  ~Exists(r)'
  <2>1. t # 0 /\ log[r].by = 0
    BY <1>2 DEF TypeOK, Started, Exists, NoLog
  <2>2. log'[r] = log[r]
    BY <1>2, <2>1, MissionLog
  <2> QED
    BY <1>2, <2>2 DEF Exists
<1>3. ASSUME NEW r \in Runs \ raced', NEW h \in Handlers,
             call'[h].run = r, IsAdmitted(h)'
      PROVE  ~Exists(r)'
  <2>1. call[h].run = r /\ IsAdmitted(h) /\ r \in Runs \ raced
    BY <1>1, <1>3 DEF IsAdmitted
  <2>2. StartLog(t) => threads[t].run # r
    BY <2>1 DEF AloneInv, OneParty, StartLog, Stage, Alive
  <2> QED
    BY <1>2, <2>1, <2>2 DEF FreshInv
<1>4. ASSUME NEW r \in Runs \ raced', NEW u \in Started',
             threads'[u].run = r, threads'[u].stage = "starting", ~IsWave(u)'
      PROVE  ~Exists(r)'
  <2>1. /\ u \in Started /\ r \in Runs \ raced /\ ~IsWave(u)
        /\ threads[u].run = r /\ threads[u].stage = "starting"
    BY <1>1, <1>4 DEF Moves, IsWave
  <2>2. ASSUME StartLog(t), threads[t].run = r PROVE FALSE
    <3>1. u = t
      BY <2>1, <2>2 DEF AloneInv, OneParty, Alive, StartLog, Stage
    <3>2. threads'[t].stage = "writing"
      BY <2>2, MissionFields
    <3> QED
      BY <1>4, <3>1, <3>2
  <2> QED
    BY <1>2, <2>1, <2>2 DEF FreshInv
<1> QED
  BY <1>3, <1>4 DEF FreshInv

LEMMA FreshStep ==
  TypeOK /\ FreshInv /\ AloneInv /\ [Next]_vars => FreshInv'
<1> SUFFICES ASSUME TypeOK, FreshInv, AloneInv, [Next]_vars PROVE FreshInv'
  OBVIOUS
<1>1. ASSUME UNCHANGED <<log, threads, call, raced>> PROVE FreshInv'
  BY <1>1 DEF FreshInv, IsAdmitted, IsWave, Exists, Started
<1>2. CASE Missions
  <2>1. "failed" \in Ends
    BY DEF Ends
  <2> QED
    BY <1>2, <2>1, FreshMission DEF Missions
<1>3. ASSUME Requests, NEW r \in Runs \ raced', ~Exists(r) PROVE ~Exists(r)'
  BY <1>3, RequestView DEF Exists
<1>4. ASSUME Requests, NEW h \in Handlers,
             \A g \in Handlers : g # h => call'[g] = call[g],
             \A r \in Runs \ raced' :
               call'[h].run = r /\ IsAdmitted(h)' => ~Exists(r),
             \A u \in Started' \ Started, r \in Runs \ raced' :
               threads'[u].run = r => ~Exists(r)
      PROVE  FreshInv'
  <2>1. /\ raced \subseteq raced'
        /\ \A u \in Started : threads'[u] = threads[u]
    BY <1>4, RequestView
  <2>2. ASSUME NEW r \in Runs \ raced', NEW g \in Handlers,
               call'[g].run = r, IsAdmitted(g)'
        PROVE  ~Exists(r)
    BY <1>4, <2>1, <2>2 DEF FreshInv, IsAdmitted
  <2>3. ASSUME NEW r \in Runs \ raced', NEW u \in Started',
               threads'[u].run = r, threads'[u].stage = "starting", ~IsWave(u)'
        PROVE  ~Exists(r)
    BY <1>4, <2>1, <2>3 DEF FreshInv, IsWave
  <2> QED
    BY <1>3, <1>4, <2>2, <2>3 DEF FreshInv
<1>5. ASSUME Requests, NEW h \in Handlers, NEW r \in Runs,
             NEW at \in {"launching", "deriving", "removing"}, Asks(h, r, at),
             at # "removing" => IsFreshSlug(r)
      PROVE  FreshInv'
  <2>1. /\ call'[h] = [run |-> r, at |-> at]
        /\ \A g \in Handlers : g # h => call'[g] = call[g]
    BY <1>5 DEF Asks, Sets, TypeOK
  <2>2. Started' = Started
    BY <1>5 DEF Asks, Started
  <2> QED
    BY <1>4, <1>5, <2>1, <2>2 DEF IsFreshSlug, IsAdmitted
<1>6. ASSUME Requests, NEW h \in Handlers,
             \/ TurnDown(h) \/ RemoveDirectory(h) \/ DeleteRows(h) \/ PopEntry(h)
      PROVE  FreshInv'
  <2>1. /\ ~IsAdmitted(h)'
        /\ \A g \in Handlers : g # h => call'[g] = call[g]
    BY <1>6 DEF TurnDown, RemoveDirectory, DeleteRows, PopEntry, Sets, Drops, Idle,
                TypeOK, IsAdmitted
  <2>2. Started' = Started
    BY <1>6 DEF TurnDown, RemoveDirectory, DeleteRows, PopEntry, Started
  <2> QED
    BY <1>4, <1>6, <2>1, <2>2
<1>7. ASSUME Requests, NEW h \in Handlers, Register(h) PROVE FreshInv'
  <2>1. NewThread(call[h].run, call[h].at) \in Threads
    BY <1>7 DEF Register, IsAdmitted, Idle, TypeOK, Calls, NewThread, Threads
  <2>2. /\ Started' = Started \cup {Len(threads) + 1}
        /\ threads'[Len(threads) + 1].run = call[h].run
    BY <1>7, <2>1, ThreadAppended DEF Register, TypeOK, NewThread
  <2>3. /\ ~IsAdmitted(h)' /\ IsAdmitted(h) /\ raced' = raced
        /\ \A g \in Handlers : g # h => call'[g] = call[g]
    BY <1>7 DEF Register, Drops, Idle, TypeOK, IsAdmitted
  <2>4. ASSUME NEW r \in Runs \ raced', call[h].run = r PROVE ~Exists(r)
    BY <2>3, <2>4 DEF FreshInv
  <2> QED
    BY <1>4, <1>7, <2>2, <2>3, <2>4
<1>8. CASE Requests
  BY <1>5, <1>6, <1>7, <1>8, AskIsOne DEF Requests
<1>9. CASE Mirroring \/ UNCHANGED vars
  BY <1>1, <1>9, MirrorSteps DEF vars, consoleVars
<1>10. CASE Waves
  <2>1. /\ UNCHANGED <<log, call>> /\ raced \subseteq raced'
        /\ \A u \in Started : threads'[u] = threads[u]
        /\ \A u \in Started' \ Started : threads'[u].as = "wave"
    BY <1>10, WaveView
  <2> QED
    BY <2>1 DEF FreshInv, IsAdmitted, IsWave, Exists
<1> QED
  BY <1>2, <1>8, <1>9, <1>10 DEF Next

\* What a mission of the console finds when it starts its log.
LEMMA StartsAlone ==
  ASSUME TypeOK, FreshInv, AloneInv, GhostInv, NEW t \in Started, StartLog(t),
         NEW r \in Runs \ raced, threads[t].run = r, ~IsWave(t)
  PROVE  mirror[r] = NoRows /\ reading.run # r
<1>1. ~Exists(r) /\ ~BeingDeleted(r)
  BY DEF FreshInv, AloneInv, OneParty, BeingDeleted, StartLog, Stage, Alive
<1>2. Nobody \notin Runs
  BY ConsoleAssumption
<1> QED
  BY <1>1, <1>2 DEF GhostInv, NoGhostRows, ReaderInv, Kept, Free, Unlocked

LEMMA WaveStep ==
  /\ TypeOK /\ FreshInv /\ AloneInv /\ GhostInv /\ WaveInv /\ [Next]_vars
  => WaveInv'
<1> SUFFICES ASSUME TypeOK, FreshInv, AloneInv, GhostInv, WaveInv, [Next]_vars,
                    NEW r \in Runs \ raced', remade'[r] # "no"
             PROVE  \E t \in Started' : threads'[t].run = r /\ IsWave(t)'
  BY DEF WaveInv
<1>1. ASSUME r \notin raced, remade[r] # "no", Started \subseteq Started',
             \A t \in Started : /\ threads'[t].run = threads[t].run
                                /\ threads'[t].as = threads[t].as
      PROVE  \E t \in Started' : threads'[t].run = r /\ IsWave(t)'
  <2>1. PICK t \in Started : threads[t].run = r /\ IsWave(t)
    BY <1>1 DEF WaveInv
  <2> QED
    BY <1>1, <2>1 DEF IsWave
<1>2. CASE Missions
  <2>1. PICK t \in Started, status \in Ends :
          \/ StartLog(t) \/ Write(t) \/ Complete(t, status) \/ Return(t)
          \/ Exit(t) \/ Raise(t) \/ Notify(t)
    <3>1. "failed" \in Ends
      BY DEF Ends
    <3> QED
      BY <1>2, <3>1 DEF Missions
  <2>2. /\ Started' = Started /\ raced' = raced
        /\ \A u \in Started : /\ threads'[u].run = threads[u].run
                               /\ threads'[u].as = threads[u].as
    BY <2>1, MissionKeepsThreads DEF Moves
  <2>3. CASE StartLog(t) /\ threads[t].run = r
    <3>1. CASE IsWave(t)
      BY <2>2, <2>3, <3>1 DEF IsWave
    <3>2. CASE ~IsWave(t)
      <4>1. mirror[r] = NoRows /\ reading.run # r
        BY <2>2, <2>3, <3>2, StartsAlone
      <4> QED
        BY <2>1, <2>3, <4>1, MissionLog
    <3> QED
      BY <3>1, <3>2
  <2>4. CASE ~(StartLog(t) /\ threads[t].run = r)
    <3>1. remade'[r] = remade[r]
      BY <2>1, <2>4, MissionLog
    <3> QED
      BY <1>1, <2>2, <3>1
  <2> QED
    BY <2>3, <2>4
<1>3. CASE Requests
  <2>1. remade[r] # "no" /\ r \notin raced
    BY <1>3, RequestView
  <2> QED
    BY <1>1, <1>3, <2>1, RequestView
<1>4. CASE Waves
  <2>1. /\ r \notin raced /\ remade' = remade /\ Started \subseteq Started'
        /\ \A t \in Started : threads'[t] = threads[t]
    BY <1>4, WaveView
  <2> QED
    BY <1>1, <2>1
<1>5. CASE Mirroring
  <2>1. UNCHANGED <<threads, raced>>
    BY <1>5, MirrorSteps DEF consoleVars
  <2>2. remade[r] # "no"
    BY <1>5, MirrorSteps, ReadRows
  <2> QED
    BY <1>1, <2>1, <2>2 DEF Started
<1>6. CASE UNCHANGED vars
  BY <1>1, <1>6 DEF vars, Started
<1> QED
  BY <1>2, <1>3, <1>4, <1>5, <1>6 DEF Next

-----------------------------------------------------------------------------
(***************************************************************************)
(* Rows, and what was sent of them, are the beginning of the log, or all   *)
(* of earlier ones.  A mission that starts its log has begun none before,  *)
(* so whatever is there, on its way or sent is another's; whoever reads    *)
(* next and finds a log shorter than the offset reads all of it.           *)
(***************************************************************************)
PrefixContext ==
  /\ TypeOK /\ ViewInv /\ FreshInv /\ AloneInv /\ GhostInv
  /\ OffsetInv /\ LookedInv /\ PrefixInv

LEMMA PrefixMission ==
  ASSUME PrefixContext, NEW t \in Started, NEW status \in Ends,
         \/ StartLog(t) \/ Write(t) \/ Complete(t, status) \/ Return(t)
         \/ Exit(t) \/ Raise(t) \/ Notify(t),
         NEW r \in Runs \ raced, Followed(r)'
  PROVE  RunGood(r)'
<1>1. TypeOK /\ UNCHANGED <<mirror, reading, stream>>
  BY MissionLog DEF PrefixContext
<1>2. CASE log'[r] = log[r] /\ remade'[r] = remade[r]
  <2>1. RunGood(r)
    BY <1>2 DEF PrefixContext, PrefixInv, Followed, Exists
  <2> QED
    BY <1>1, <1>2, <2>1
       DEF RunGood, RowsGood, Outlived, Replaced, Mirrored, SentGood
<1>3. CASE StartLog(t) /\ threads[t].run = r
  <2>1. /\ log'[r] = [by |-> t, lines |-> <<>>]
        /\ remade'[r] = IF mirror[r] # NoRows \/ reading.run = r THEN "unseen"
                                                               ELSE "no"
    BY <1>1, <1>3, MissionLog
  <2>2. t # 0 /\ ~Begun(t)
    BY <1>1, <1>3 DEF TypeOK, Started, StartLog, Stage, Begun
  <2>3. ASSUME NEW c \in Clients
        PROVE  /\ stream[c].of # t
               /\ Foreign(stream[c].sent, log'[r]) \/ Shows(stream[c].sent, log'[r])
    <3>1. stream[c].sent \in Seq(Rows) /\ Len(stream[c].sent) \in Nat
      BY <1>1, RowTypes
    <3>2. ASSUME Len(stream[c].sent) # 0
          PROVE  Foreign(stream[c].sent, log'[r])
      <4>1. 1 \in 1..Len(stream[c].sent)
        BY <3>1, <3>2
      <4>2. Begun(stream[c].sent[1].by)
        BY <4>1 DEF PrefixContext, ViewInv, SentBegun
      <4> QED
        BY <2>1, <2>2, <4>1, <4>2 DEF Foreign
    <3>3. ASSUME Len(stream[c].sent) = 0 PROVE Shows(stream[c].sent, log'[r])
      BY <2>1, <3>3 DEF Shows
    <3>4. stream[c].of # t
      BY <2>2 DEF PrefixContext, ViewInv, SentBegun
    <3> QED
      BY <3>2, <3>3, <3>4
  <2>4. Older(mirror[r].rows, log'[r]) /\ Older(reading.rows, log'[r])
    BY <2>1, <2>2 DEF PrefixContext, ViewInv, RowsBegun, Older
  <2>5. RowsGood(r)'
    <3>1. CASE remade'[r] = "unseen"
      BY <1>1, <2>4, <3>1 DEF RowsGood, Outlived
    <3>2. CASE remade'[r] # "unseen"
      <4>1. mirror'[r] = NoRows /\ reading'.run # r
        BY <1>1, <2>1, <3>2
      <4> QED
        BY <2>1, <3>2, <4>1 DEF RowsGood, Mirrored, NoRows, Shows
    <3> QED
      BY <3>1, <3>2
  <2>6. SentGood(r)'
    BY <1>1, <2>1, <2>3 DEF SentGood
  <2> QED
    BY <2>5, <2>6 DEF RunGood
<1>4. ASSUME NEW type \in LineTypes, log[r].by = t, remade'[r] = remade[r],
             log'[r] = [by |-> t, lines |-> Append(log[r].lines, type)]
      PROVE  RunGood(r)'
  <2>1. Followed(r) /\ log[r] \in Logs /\ log[r].lines \in Seq(LineTypes)
    BY <1>1, <1>4, RowTypes DEF TypeOK, Started, Followed, Exists, NoLog, Logs
  <2>2. RunGood(r)
    BY <2>1 DEF PrefixContext, PrefixInv
  <2>3. ASSUME NEW rows \in Seq(Rows), Shows(rows, log[r])
        PROVE  Shows(rows, log'[r])
    BY <1>4, <2>1, <2>3, ShowsGrows
  <2>4. mirror[r].rows \in Seq(Rows) /\ reading.rows \in Seq(Rows)
    BY <1>1, RowTypes
  <2>5. mirror[r].rows \o reading.rows \in Seq(Rows)
    BY <2>4, ConcatProperties
  <2>6. log'[r].by = log[r].by
    BY <1>4
  <2>7. RowsGood(r)'
    BY <1>1, <1>4, <2>2, <2>3, <2>4, <2>5, <2>6
       DEF RunGood, RowsGood, Outlived, Replaced, Mirrored, Older
  <2>8. SentGood(r)'
    <3>1. \A c \in Clients : stream[c].sent \in Seq(Rows)
      BY <1>1, RowTypes
    <3> QED
      BY <1>1, <2>2, <2>3, <2>6, <3>1 DEF RunGood, SentGood, Foreign
  <2> QED
    BY <2>7, <2>8 DEF RunGood
<1>5. \/ log'[r] = log[r] /\ remade'[r] = remade[r]
      \/ StartLog(t) /\ threads[t].run = r
      \/ /\ log[r].by = t /\ remade'[r] = remade[r]
         /\ \E type \in LineTypes :
              log'[r] = [by |-> t, lines |-> Append(log[r].lines, type)]
  <2>1. CASE threads[t].run # r
    BY <1>1, <2>1, MissionLog
  <2>2. CASE threads[t].run = r
    BY <1>1, <2>2, MissionLog
  <2> QED
    BY <2>1, <2>2
<1> QED
  BY <1>2, <1>3, <1>4, <1>5

LEMMA PrefixRequest ==
  ASSUME PrefixContext, Requests, NEW r \in Runs \ raced', Followed(r)'
  PROVE  RunGood(r)'
<1>1. TypeOK
  BY DEF PrefixContext
<1>2. /\ UNCHANGED <<reading, stream>> /\ r \notin raced
      /\ log'[r] = log[r] /\ Followed(r)
      /\ \/ mirror'[r] = mirror[r] /\ remade'[r] = remade[r]
         \/ mirror'[r] = NoRows /\ Free /\ remade'[r] = "no"
  BY <1>1, RequestView DEF Followed, Exists
<1>3. RunGood(r)
  BY <1>2 DEF PrefixContext, PrefixInv
<1>4. SentGood(r)'
  BY <1>2, <1>3 DEF RunGood, SentGood
<1>5. CASE mirror'[r] = mirror[r] /\ remade'[r] = remade[r]
  BY <1>2, <1>3, <1>4, <1>5 DEF RunGood, RowsGood, Outlived, Replaced, Mirrored
<1>6. CASE mirror'[r] = NoRows /\ Free /\ remade'[r] = "no"
  <2>1. Len(log[r].lines) \in Nat
    BY <1>1 DEF TypeOK, MirrorTypeOK
  <2>2. reading'.run # r
    BY <1>2, <1>6, ConsoleAssumption DEF Free, Unlocked
  <2>3. Mirrored(r)'
    BY <1>2, <1>6, <2>1, <2>2 DEF Mirrored, NoRows, Shows
  <2> QED
    BY <1>4, <1>6, <2>3 DEF RunGood, RowsGood
<1> QED
  BY <1>2, <1>5, <1>6

\* A reader takes the lock of run r.
LEMMA PrefixRead ==
  ASSUME PrefixContext, NEW who, NEW r \in Runs \ raced, MirrorRead(who, r),
         UNCHANGED <<log, mirror>>, Followed(r)', RowsGood(r),
         reading'.rows \in Seq(Rows)
  PROVE  RowsGood(r)'
<1>1. /\ TypeOK /\ Free /\ Exists(r) /\ reading'.run = r
      /\ remade'[r] = "no"
      /\ remade[r] # "unseen" => remade'[r] = remade[r]
  BY ReadRows DEF PrefixContext, Followed
<1>2. /\ log[r] \in Logs /\ mirror[r].rows \in Seq(Rows)
      /\ Len(log[r].lines) \in Nat /\ Len(mirror[r].rows) \in Nat
      /\ mirror[r].offset = Len(mirror[r].rows)
  BY <1>1, RowTypes DEF PrefixContext, OffsetInv, Logs
<1>3. CASE Shows(mirror[r].rows, log[r])
  <2> DEFINE past == Len(log[r].lines) - Len(mirror[r].rows)
  <2>1. /\ mirror[r].offset <= Len(log[r].lines) /\ past \in Nat
        /\ past = Len(log[r].lines) - Len(mirror[r].rows)
    BY <1>2, <1>3 DEF Shows
  <2>2. reading'.reset = FALSE /\ reading'.rows = RowsPast(r, mirror[r].offset)
    BY <1>1, <2>1, ReadRows
  <2>3. reading'.rows =
          [k \in 1..past |->
             [by |-> log[r].by, type |-> log[r].lines[Len(mirror[r].rows) + k]]]
    BY <1>2, <2>2 DEF RowsPast
  <2>4. Shows(mirror[r].rows \o reading'.rows, log[r])
    <3> HIDE DEF past
    <3> QED
      BY <1>2, <1>3, <2>1, <2>3, ShowsRead
  <2> QED
    BY <1>1, <1>3, <2>2, <2>4 DEF RowsGood, Mirrored
<1>6. CASE ~Shows(mirror[r].rows, log[r])
  <2>1. reading.run # r
    BY <1>1, ConsoleAssumption DEF Free, Unlocked
  <2>2. remade[r] = "unseen" /\ Older(mirror[r].rows, log[r])
    BY <1>6, <2>1 DEF RowsGood, Mirrored, Replaced, Outlived
  <2>3. mirror[r].offset # 0
    BY <1>2, <1>6 DEF Shows
  <2>4. reading'.reset = TRUE /\ reading'.rows = RowsPast(r, 0)
    BY <1>1, <2>2, <2>3, ReadRows
  <2>5. reading'.rows = [k \in 1..Len(log[r].lines) |->
                           [by |-> log[r].by, type |-> log[r].lines[0 + k]]]
    <3>1. Len(log[r].lines) - 0 = Len(log[r].lines)
      BY <1>2
    <3> QED
      BY <2>4, <3>1 DEF RowsPast
  <2>6. Len(reading'.rows) = Len(log[r].lines)
    BY <1>2, <2>5, LenProperties
  <2>7. ASSUME NEW k \in 1..Len(log[r].lines)
        PROVE  reading'.rows[k] = [by |-> log[r].by, type |-> log[r].lines[k]]
    <3>1. 0 + k = k
      BY <1>2
    <3> QED
      BY <2>5, <3>1
  <2>8. Shows(reading'.rows, log[r])
    BY <1>2, <2>6, <2>7 DEF Shows
  <2> QED
    BY <1>1, <2>2, <2>4, <2>8 DEF RowsGood, Replaced
<1> QED
  BY <1>3, <1>6

\* A reader commits what it holds of run r.
LEMMA PrefixCommit ==
  ASSUME PrefixContext, MirrorCommit, UNCHANGED <<log, remade>>,
         NEW r \in Runs, r = reading.run, RowsGood(r)
  PROVE  RowsGood(r)'
<1> DEFINE old == mirror[r].rows
           new == reading.rows
<1>1. /\ TypeOK /\ old \in Seq(Rows) /\ new \in Seq(Rows)
      /\ reading'.run # r
      /\ mirror'[r].rows = IF reading.reset THEN new ELSE old \o new
  BY Committed, RowTypes, ConsoleAssumption DEF PrefixContext, Unlocked
<1>2. CASE remade[r] = "unseen"
  <2>1. Older(old, log[r]) /\ Older(new, log[r])
    BY <1>2 DEF RowsGood, Outlived
  <2>2. ASSUME NEW k \in 1..Len(old \o new) PROVE (old \o new)[k].by # log[r].by
    <3>1. \/ \E j \in 1..Len(old) : (old \o new)[k] = old[j]
          \/ \E j \in 1..Len(new) : (old \o new)[k] = new[j]
      <4> HIDE DEF old, new
      <4> QED
        BY <1>1, <2>2, ConcatElement
    <3> QED
      BY <2>1, <3>1 DEF Older
  <2>3. Older(mirror'[r].rows, log[r])
    <3> HIDE DEF old, new
    <3> QED
      BY <1>1, <2>1, <2>2 DEF Older
  <2> QED
    BY <1>1, <1>2, <2>3 DEF RowsGood, Outlived
<1>3. CASE remade[r] # "unseen"
  <2>1. Shows(mirror'[r].rows, log[r])
    BY <1>1, <1>3 DEF RowsGood, Replaced, Mirrored
  <2> QED
    BY <1>1, <1>3, <2>1 DEF RowsGood, Mirrored
<1> QED
  BY <1>2, <1>3

\* A stream sends what the mirror has beyond what it has sent.
LEMMA PrefixSend ==
  ASSUME PrefixContext, NEW c \in Clients, SendEvents(c),
         NEW r \in Runs \ raced, stream[c].run = r, Exists(r), RunGood(r)
  PROVE  /\ \/ Foreign(stream'[c].sent, log[r])
            \/ Shows(stream'[c].sent, log[r])
         /\ stream'[c].of = log[r].by => Shows(stream'[c].sent, log[r])
<1> DEFINE sent == stream[c].sent
           new == NewRows(c)
<1>1. /\ stream'[c].sent = sent \o new /\ stream'[c].of = stream[c].of
      /\ sent \in Seq(Rows) /\ new \in Seq(Rows) /\ Free
      /\ log[r] \in Logs /\ mirror[r].rows \in Seq(Rows)
      /\ \A k \in 1..Len(new) :
           \E j \in 1..Len(mirror[r].rows) : new[k] = mirror[r].rows[j]
  BY SentRows, RowTypes DEF PrefixContext
<1>2. new = SubSeq(mirror[r].rows, Len(sent) + 1, Len(mirror[r].rows))
  BY DEF NewRows, PrefixContext, ViewInv, CountInv
<1>3. reading.run # r
  BY <1>1, ConsoleAssumption DEF Free, Unlocked
<1>4. stream[c].of = log[r].by => remade[r] # "unseen"
  BY DEF PrefixContext, LookedInv, SendEvents, Streams
<1>5. /\ Foreign(sent, log[r]) \/ Shows(sent, log[r])
      /\ stream[c].of = log[r].by => Shows(sent, log[r])
  BY DEF RunGood, SentGood
<1>6. remade[r] # "unseen" => Shows(mirror[r].rows, log[r])
  BY <1>3 DEF RunGood, RowsGood, Replaced, Mirrored
<1>7. Shows(sent, log[r]) /\ remade[r] # "unseen" => Shows(sent \o new, log[r])
  BY <1>1, <1>2, <1>6, ShowsSent
<1>8. /\ Len(sent) \in Nat /\ Len(new) \in Nat /\ Len(sent \o new) = Len(sent) + Len(new)
      /\ \A k \in 1..Len(sent) : (sent \o new)[k] = sent[k]
      /\ Len(new) # 0 => (sent \o new)[Len(sent) + 1] = new[1]
  <2> HIDE DEF sent, new
  <2>1. /\ Len(sent) \in Nat /\ Len(new) \in Nat
        /\ Len(sent \o new) = Len(sent) + Len(new)
        /\ \A j \in 1..(Len(sent) + Len(new)) :
             (sent \o new)[j] = IF j <= Len(sent) THEN sent[j]
                                                  ELSE new[j - Len(sent)]
    BY <1>1, ConcatProperties
  <2>2. Len(new) # 0 => /\ Len(sent) + 1 \in 1..(Len(sent) + Len(new))
                        /\ ~(Len(sent) + 1 <= Len(sent))
                        /\ Len(sent) + 1 - Len(sent) = 1
    BY <2>1
  <2>3. \A k \in 1..Len(sent) : k \in 1..(Len(sent) + Len(new)) /\ k <= Len(sent)
    BY <2>1
  <2> QED
    BY <2>1, <2>2, <2>3
<1> HIDE DEF sent, new
<1>9. CASE Foreign(sent, log[r])
  <2>1. PICK k \in 1..Len(sent) : sent[k].by # log[r].by
    BY <1>9 DEF Foreign
  <2>2. k \in 1..Len(sent \o new) /\ (sent \o new)[k] = sent[k]
    BY <1>8
  <2>3. Foreign(sent \o new, log[r])
    BY <2>1, <2>2 DEF Foreign
  <2>4. ASSUME Shows(sent, log[r]) PROVE FALSE
    <3>1. sent[k] = [by |-> log[r].by, type |-> log[r].lines[k]]
      BY <2>4 DEF Shows
    <3> QED
      BY <2>1, <3>1
  <2> QED
    BY <1>1, <1>5, <2>3, <2>4
<1>10. CASE Shows(sent, log[r]) /\ remade[r] # "unseen"
  BY <1>1, <1>7, <1>10
<1>11. CASE Shows(sent, log[r]) /\ remade[r] = "unseen"
  <2>1. stream'[c].of # log[r].by
    BY <1>1, <1>4, <1>11
  <2>2. CASE Len(new) = 0
    <3>1. Len(sent \o new) = Len(sent)
          /\ \A k \in 1..Len(sent) : (sent \o new)[k] = sent[k]
      BY <1>8, <2>2
    <3>2. Shows(sent \o new, log[r])
      BY <1>11, <3>1 DEF Shows
    <3> QED
      BY <1>1, <2>1, <3>2
  <2>3. CASE Len(new) # 0
    <3>1. 1 \in 1..Len(new) /\ Len(sent) + 1 \in 1..Len(sent \o new)
      BY <1>8, <2>3
    <3>2. new[1].by # log[r].by
      BY <1>1, <1>11, <3>1 DEF RunGood, RowsGood, Outlived, Older
    <3>3. Foreign(sent \o new, log[r])
      BY <1>8, <2>3, <3>1, <3>2 DEF Foreign
    <3> QED
      BY <1>1, <2>1, <3>3
  <2> QED
    BY <2>2, <2>3
<1> QED
  BY <1>5, <1>9, <1>10, <1>11

LEMMA PrefixMirroring ==
  ASSUME PrefixContext, Mirroring, NEW r \in Runs \ raced', Followed(r)'
  PROVE  RunGood(r)'
<1>1. /\ TypeOK /\ log' = log /\ raced' = raced /\ Exists(r)
      /\ r \in Runs \ raced
  BY MirrorSteps DEF PrefixContext, consoleVars, Followed, Exists
<1>2. RunGood(r)
  <2>1. remade[r] # "missed"
    BY <1>1, MirrorSteps, ReadRows DEF Followed
  <2> QED
    BY <1>1, <2>1 DEF PrefixContext, PrefixInv, Followed
<1>3. log[r] \in Logs /\ reading'.rows \in Seq(Rows)
  <2>1. TypeOK'
    BY <1>1, TypeStep DEF Next
  <2> QED
    BY <1>1, <2>1, RowTypes, RowTypesNext
<1>4. RowsGood(r)'
  <2>1. ASSUME remade'[r] = remade[r], mirror'[r] = mirror[r],
               reading' = reading \/ reading'.run # r,
               reading.run = r => reading' = reading \/ ~reading.reset
        PROVE  RowsGood(r)'
    BY <1>1, <1>2, <2>1 DEF RunGood, RowsGood, Outlived, Replaced, Mirrored
  <2>2. CASE UNCHANGED <<mirror, reading, remade>>
    BY <2>1, <2>2
  <2>3. ASSUME NEW who, NEW q \in Runs, MirrorRead(who, q), UNCHANGED mirror
        PROVE  RowsGood(r)'
    <3>1. CASE q # r
      <4>1. Free /\ reading'.run = q /\ remade'[r] = remade[r]
        BY <1>1, <2>3, <3>1, ReadRows
      <4>2. reading'.run # r /\ reading.run # r
        BY <3>1, <4>1, ConsoleAssumption DEF Free, Unlocked
      <4> QED
        BY <2>1, <2>3, <4>1, <4>2
    <3>2. CASE q = r
      BY <1>1, <1>2, <1>3, <2>3, <3>2, PrefixRead DEF RunGood
    <3> QED
      BY <3>1, <3>2
  <2>4. CASE MirrorCommit /\ UNCHANGED remade
    <3>1. CASE reading.run # r
      <4>1. mirror'[r] = mirror[r] /\ reading' = Unlocked
        BY <1>1, <2>4, <3>1, Committed
      <4> QED
        BY <2>1, <2>4, <3>1, <4>1, ConsoleAssumption DEF Unlocked
    <3>2. CASE reading.run = r
      BY <1>1, <1>2, <2>4, <3>2, PrefixCommit DEF RunGood
    <3> QED
      BY <3>1, <3>2
  <2>5. CASE UNCHANGED <<mirror, remade>> /\ reading' = Unlocked /\ ~reading.reset
    BY <2>1, <2>5, ConsoleAssumption DEF Unlocked
  <2> QED
    BY <1>1, <2>2, <2>3, <2>4, <2>5, MirrorSteps
<1>5. SentGood(r)'
  <2> SUFFICES ASSUME NEW c \in Clients, stream'[c].run = r
               PROVE  /\ \/ Foreign(stream'[c].sent, log[r])
                         \/ Shows(stream'[c].sent, log[r])
                      /\ stream'[c].of = log[r].by => Shows(stream'[c].sent, log[r])
    BY <1>1 DEF SentGood
  <2>1. CASE Keeps(c)
    BY <1>2, <2>1 DEF Keeps, RunGood, SentGood
  <2>2. CASE Restarts(c)
    BY <1>3, <2>2 DEF Restarts, Shows, Logs
  <2>3. CASE SendEvents(c)
    <3>1. stream[c].run = r
      BY <1>1, <2>3, SentRows
    <3> QED
      BY <1>1, <1>2, <2>3, <3>1, PrefixSend
  <2> QED
    BY <1>1, <2>1, <2>2, <2>3, StreamSteps
<1> QED
  BY <1>4, <1>5 DEF RunGood

LEMMA PrefixStep == PrefixContext /\ [Next]_vars => PrefixInv'
<1> SUFFICES ASSUME PrefixContext, [Next]_vars, NEW r \in Runs \ raced',
                    Followed(r)'
             PROVE  RunGood(r)'
  BY DEF PrefixInv
<1>1. CASE Missions
  <2>1. raced' = raced /\ "failed" \in Ends
    BY <1>1 DEF Missions, StartLog, Write, Complete, Return, Exit, Raise, Notify, Ends
  <2> QED
    BY <1>1, <2>1, PrefixMission DEF Missions
<1>2. CASE Waves \/ UNCHANGED vars
  <2>1. UNCHANGED <<log, mirror, reading, stream, remade>> /\ raced \subseteq raced'
    BY <1>2, WaveView DEF vars, PrefixContext
  <2>2. RunGood(r)
    BY <2>1 DEF PrefixContext, PrefixInv, Followed, Exists
  <2> QED
    BY <2>1, <2>2 DEF RunGood, RowsGood, Outlived, Replaced, Mirrored, SentGood
<1> QED
  BY <1>1, <1>2, PrefixRequest, PrefixMirroring DEF Next

-----------------------------------------------------------------------------
(***************************************************************************)
(* What the subscribers are told.  A mission completes once and then       *)
(* writes no more, so the last line of a log that is still its own is the  *)
(* end it recorded; between its death and the notice nobody starts the log *)
(* again (there is one) nor deletes it (a deletion then counts as a race). *)
(***************************************************************************)
LEMMA StageStep == TypeOK /\ StageInv /\ [Next]_vars => StageInv'
<1> SUFFICES ASSUME TypeOK, StageInv, [Next]_vars PROVE StageInv'
  OBVIOUS
<1>1. ASSUME UNCHANGED threads PROVE StageInv'
  BY <1>1 DEF StageInv, Stages, Started
<1>2. ASSUME NEW t \in Started, NEW status \in Ends,
             \/ StartLog(t) \/ Write(t) \/ Complete(t, status) \/ Return(t)
             \/ Exit(t) \/ Raise(t) \/ Notify(t)
      PROVE  StageInv'
  <2>1. /\ Started' = Started
        /\ \A u \in Started : u # t => threads'[u] = threads[u]
    BY <1>2, MissionKeepsThreads
  <2>2. threads[t] \in Threads /\ Stages(threads[t]) /\ status # "none"
    BY <1>2, ThreadHasRun DEF StageInv, Ends
  <2>3. FinalStatus(threads[t].run) \in Ends
    BY DEF FinalStatus, Ends
  <2>4. Stages(threads'[t])
    <3>1. ASSUME NEW m, m = threads[t] PROVE Stages(threads'[t])
      <4>1. Stages(m) /\ "pending" \notin Ends /\ "error" \notin Ends
            /\ "none" \notin Ends
        BY <2>2, <3>1 DEF Ends
      <4> QED
        BY <1>2, <2>2, <2>3, <3>1, <4>1, MissionFields DEF Stages
    <3> QED
      BY <3>1
  <2> QED
    BY <2>1, <2>4 DEF StageInv
<1>3. CASE Missions
  <2>1. "failed" \in Ends
    BY DEF Ends
  <2> QED
    BY <1>2, <1>3, <2>1 DEF Missions
<1>4. ASSUME NEW h \in Handlers, Register(h) PROVE StageInv'
  <2>1. /\ NewThread(call[h].run, call[h].at) \in Threads
        /\ Stages(NewThread(call[h].run, call[h].at))
    BY <1>4 DEF Register, IsAdmitted, Idle, TypeOK, Calls, NewThread, Threads,
                Stages, Ends
  <2>2. /\ Started' = Started \cup {Len(threads) + 1}
        /\ threads'[Len(threads) + 1] = NewThread(call[h].run, call[h].at)
        /\ \A u \in Started : threads'[u] = threads[u]
    BY <1>4, <2>1, ThreadAppended DEF Register, TypeOK
  <2> QED
    BY <2>1, <2>2 DEF StageInv
<1>5. CASE Requests
  <2>1. PICK h \in Handlers : Register(h) \/ UNCHANGED threads
    BY <1>5, AskIsOne
       DEF Requests, Asks, TurnDown, RemoveDirectory, DeleteRows, PopEntry
  <2> QED
    BY <1>1, <1>4, <2>1
<1>6. CASE Waves
  BY <1>6, WaveView DEF StageInv, Stages, Ends
<1> QED
  BY <1>1, <1>3, <1>5, <1>6, MirrorSteps DEF Next, vars, consoleVars

LEMMA FinalMission ==
  ASSUME TypeOK, StageInv, FinalInv, NEW t \in Started, NEW status \in Ends,
         \/ StartLog(t) \/ Write(t) \/ Complete(t, status) \/ Return(t)
         \/ Exit(t) \/ Raise(t) \/ Notify(t)
  PROVE  FinalInv'
<1>0. \/ StartLog(t) \/ Write(t) \/ Complete(t, status) \/ Return(t)
      \/ Exit(t) \/ Raise(t) \/ Notify(t)
  OBVIOUS
<1>1. /\ Started' = Started
      /\ \A u \in Started : u # t => threads'[u] = threads[u]
      /\ threads'[t].run = threads[t].run
  BY MissionKeepsThreads DEF Moves
<1>2. ASSUME NEW u \in Started, u # t,
             log'[threads[u].run].by = u, threads[u].final # "none"
      PROVE  EndsWith(log'[threads[u].run].lines, threads[u].final)
  <2>1. log'[threads[u].run] = log[threads[u].run]
    <3>1. threads[u].run \in Runs
      BY ThreadHasRun
    <3>2. threads[u].run = threads[t].run => ~StartLog(t) /\ log[threads[t].run].by # t
      BY <1>2, <3>1, MissionKeepsLogs
    <3> QED
      BY <3>1, <3>2, MissionLog
  <2> QED
    BY <1>2, <2>1 DEF FinalInv
<1>3. threads[t] \in Threads /\ threads[t].run \in Runs /\ Stages(threads[t])
  BY ThreadHasRun DEF StageInv
<1>4. ASSUME log'[threads[t].run].by = t, threads'[t].final # "none"
      PROVE  EndsWith(log'[threads[t].run].lines, threads'[t].final)
  <2>1. CASE StartLog(t) \/ Write(t)
    BY <1>3, <1>4, <2>1, MissionFields DEF Stages
  <2>3. CASE Complete(t, status)
    <3>1. threads'[t].final = status
      BY <2>3, MissionFields
    <3>2. log \in [Runs -> Logs] /\ log[threads[t].run].lines \in Seq(LineTypes)
      BY <1>3 DEF TypeOK, MirrorTypeOK, Logs
    <3>3. log'[threads[t].run].lines = Append(log[threads[t].run].lines, status)
      <4>1. log[threads[t].run].by = t
        BY <1>3, <1>4, <2>3, MissionKeepsLogs DEF Complete, StartLog, Stage
      <4> QED
        BY <1>3, <2>3, <3>2, <4>1 DEF Complete, AppendLine, Logs
    <3>4. status \in LineTypes
      BY DEF LineTypes
    <3> DEFINE lines == log[threads[t].run].lines
    <3>5. /\ Len(Append(lines, status)) = Len(lines) + 1 /\ Len(lines) \in Nat
          /\ Append(lines, status)[Len(lines) + 1] = status
      <4>1. lines \in Seq(LineTypes)
        BY <3>2
      <4> HIDE DEF lines
      <4> QED
        BY <3>4, <4>1
    <3> QED
      BY <3>1, <3>3, <3>5 DEF EndsWith
  <2>4. CASE Return(t) \/ Exit(t) \/ Raise(t) \/ Notify(t)
    <3>1. log' = log /\ threads'[t].final = threads[t].final
      BY <2>4, MissionFields DEF Return, Exit, Raise, Notify, mirrorVars
    <3> QED
      BY <1>4, <3>1 DEF FinalInv
  <2> QED
    BY <1>0, <2>1, <2>3, <2>4
<1> QED
  BY <1>1, <1>2, <1>4 DEF FinalInv

LEMMA FinalStep == TypeOK /\ StageInv /\ FinalInv /\ [Next]_vars => FinalInv'
<1> SUFFICES ASSUME TypeOK, StageInv, FinalInv, [Next]_vars PROVE FinalInv'
  OBVIOUS
<1>1. ASSUME UNCHANGED <<log, threads>> PROVE FinalInv'
  BY <1>1 DEF FinalInv, Started
<1>2. CASE Missions
  <2>1. "failed" \in Ends
    BY DEF Ends
  <2> QED
    BY <1>2, <2>1, FinalMission DEF Missions
<1>3. CASE Requests
  <2> SUFFICES ASSUME NEW u \in Started', log'[threads'[u].run].by = u,
                      threads'[u].final # "none"
               PROVE  EndsWith(log'[threads'[u].run].lines, threads'[u].final)
    BY DEF FinalInv
  <2>1. u \in Started /\ threads'[u] = threads[u]
    <3>1. \A v \in Started : threads'[v] = threads[v]
      BY <1>3, RequestView
    <3>2. PICK h \in Handlers : Register(h) \/ UNCHANGED threads
      BY <1>3, AskIsOne
         DEF Requests, Asks, TurnDown, RemoveDirectory, DeleteRows, PopEntry
    <3>3. CASE UNCHANGED threads
      BY <3>1, <3>3 DEF Started
    <3>4. CASE Register(h)
      <4>1. NewThread(call[h].run, call[h].at) \in Threads
        BY <3>4 DEF Register, IsAdmitted, Idle, TypeOK, Calls, NewThread, Threads
      <4>2. /\ Started' = Started \cup {Len(threads) + 1}
            /\ threads'[Len(threads) + 1].final = "none"
        BY <3>4, <4>1, ThreadAppended DEF Register, TypeOK, NewThread
      <4> QED
        BY <3>1, <4>2
    <3> QED
      BY <3>2, <3>3, <3>4
  <2>2. threads[u].run \in Runs /\ u # 0
    BY <2>1, ThreadHasRun DEF TypeOK, Started
  <2>3. log'[threads[u].run] = log[threads[u].run]
    BY <1>3, <2>1, <2>2, RequestView DEF Exists, NoLog
  <2> QED
    BY <2>1, <2>3 DEF FinalInv
<1>4. CASE Waves
  BY <1>4, WaveView DEF FinalInv
<1> QED
  BY <1>1, <1>2, <1>3, <1>4, MirrorSteps DEF Next, vars, consoleVars

\* An end that is the last line is the status that is read from the log.
LEMMA StatusOfEnd ==
  ASSUME TypeOK, NEW r \in Runs, NEW final \in Ends,
         EndsWith(log[r].lines, final)
  PROVE  FinalStatus(r) = final
<1> DEFINE lines == log[r].lines
<1>1. lines \in Seq(LineTypes) /\ Len(lines) \in Nat
  BY DEF TypeOK, MirrorTypeOK
<1>2. Len(lines) \in 1..Len(lines) /\ lines[Len(lines)] = final
  BY <1>1 DEF EndsWith
<1> HIDE DEF lines
<1>3. CASE final = "completed"
  <2>1. Len(lines) + 1..Len(lines) = {}
    BY <1>1
  <2>2. EndedAs(lines, "completed")
    BY <1>2, <1>3, <2>1 DEF EndedAs
  <2> QED
    BY <1>3, <2>2 DEF FinalStatus, lines
<1>4. CASE final = "failed"
  <2>1. ASSUME NEW k \in 1..Len(lines), lines[k] = "completed"
        PROVE  \E j \in k + 1..Len(lines) : lines[j] \in Ends
    <3>1. k # Len(lines)
      BY <1>2, <1>4, <2>1
    <3>2. Len(lines) \in k + 1..Len(lines)
      BY <1>1, <3>1
    <3> QED
      BY <1>2, <3>2
  <2>2. ~EndedAs(lines, "completed")
    BY <2>1 DEF EndedAs
  <2> QED
    BY <1>4, <2>2 DEF FinalStatus, lines
<1> QED
  BY <1>3, <1>4 DEF Ends

ToldContext ==
  /\ TypeOK /\ FreshInv /\ AloneInv /\ StageInv /\ FinalInv /\ ToldInv

LEMMA ToldMission ==
  ASSUME ToldContext, NEW t \in Started, NEW status \in Ends,
         \/ StartLog(t) \/ Write(t) \/ Complete(t, status) \/ Return(t)
         \/ Exit(t) \/ Raise(t) \/ Notify(t),
         NEW u \in Started, threads[u].run \notin raced
  PROVE  Told(u)'
<1>0. \/ StartLog(t) \/ Write(t) \/ Complete(t, status) \/ Return(t)
      \/ Exit(t) \/ Raise(t) \/ Notify(t)
  OBVIOUS
<1>1. /\ TypeOK /\ Started' = Started
      /\ \A v \in Started : v # t => threads'[v] = threads[v]
      /\ threads'[t].run = threads[t].run
      /\ UNCHANGED <<table, call, raced>>
  BY MissionKeepsThreads DEF Moves, ToldContext
<1>2. Told(u) /\ Stages(threads[u]) /\ threads[u].run \in Runs
  BY <1>1, ThreadHasRun DEF ToldContext, ToldInv, StageInv
<1>3. ASSUME threads[u].notice = "pending"
      PROVE  /\ Exists(threads[u].run)' /\ log'[threads[u].run].by = u
             /\ \A h \in Handlers : call'[h].run # threads[u].run
             /\ \A v \in Started' : threads'[v].run = threads[u].run => ~Alive(v)'
  <2>1. /\ Exists(threads[u].run) /\ log[threads[u].run].by = u
        /\ \A h \in Handlers : call[h].run # threads[u].run
        /\ \A v \in Started : threads[v].run = threads[u].run => ~Alive(v)
    BY <1>2, <1>3 DEF Told
  <2>2. StartLog(t) => threads[t].run # threads[u].run
    BY <2>1 DEF StartLog, Stage, Alive
  <2>3. Alive(t)' => Alive(t)
    BY <1>1, MissionKeepsThreads DEF Moves, Alive
  <2>4. \A v \in Started' : threads'[v].run = threads[u].run => ~Alive(v)'
    BY <1>1, <2>1, <2>3 DEF Alive
  <2> QED
    BY <1>1, <1>2, <2>1, <2>2, <2>4, MissionKeepsLogs
<1>4. CASE u # t
  BY <1>1, <1>2, <1>3, <1>4 DEF Told
<1>5. CASE u = t
  <2>1. ASSUME NEW m, m = threads[t] PROVE Told(u)'
    <3>1. "pending" \notin Ends /\ "error" \notin Ends
      BY DEF Ends
    <3>2. CASE StartLog(t) \/ Write(t) \/ Return(t) \/ Raise(t)
      <4>1. threads'[t].final = m.final
            /\ threads'[t].notice \in {m.notice, "error"}
        BY <1>1, <2>1, <3>2, MissionFields
      <4> QED
        BY <1>1, <1>2, <1>3, <1>5, <2>1, <3>1, <4>1 DEF Told
    <3>3. CASE Complete(t, status)
      <4>1. m.notice \notin {"pending"} \cup Ends /\ threads'[t].notice = m.notice
        BY <1>1, <1>2, <1>5, <2>1, <3>3, MissionFields DEF Stages
      <4> QED
        BY <1>5, <4>1 DEF Told
    <3>4. CASE Exit(t)
      <4>1. /\ m.stage = "returned" /\ threads'[t].final = m.final
            /\ threads'[t].notice = IF m.notice = "due" THEN "pending"
                                                        ELSE m.notice
        BY <1>1, <2>1, <3>4, MissionFields
      <4>2. m.notice \notin Ends
        BY <1>2, <1>5, <2>1, <4>1 DEF Stages
      <4>3. Exists(threads[u].run) /\ log[threads[u].run].by = u
        BY <1>5, <2>1, <4>1 DEF ToldContext, AloneInv, Owns, Alive
      <4>4. \A h \in Handlers : call[h].run # threads[u].run
        BY <1>2, <1>5, <2>1, <4>1 DEF ToldContext, AloneInv, OneParty, Alive
      <4>5. log' = log
        BY <3>4 DEF Exit, mirrorVars
      <4>6. ASSUME NEW v \in Started', threads'[v].run = threads[u].run
            PROVE  ~Alive(v)'
        <5>1. CASE v = t
          BY <1>1, <2>1, <3>4, <5>1, MissionFields DEF Alive
        <5>2. CASE v # t
          BY <1>1, <1>2, <1>5, <2>1, <4>1, <4>6, <5>2
             DEF ToldContext, AloneInv, OneParty, Alive
        <5> QED
          BY <5>1, <5>2
      <4> QED
        BY <1>1, <1>5, <3>1, <4>1, <4>2, <4>3, <4>4, <4>5, <4>6 DEF Told, Exists
    <3>5. CASE Notify(t)
      <4>1. /\ m.notice = "pending" /\ threads'[t].final = m.final
            /\ threads'[t].notice = FinalStatus(m.run)
        BY <1>1, <2>1, <3>5, MissionFields
      <4>2. log[m.run].by = t /\ m.final # "none" /\ m.final \in Ends
        BY <1>1, <1>2, <1>5, <2>1, <4>1, ThreadHasRun DEF Told, Stages, Threads
      <4>3. FinalStatus(m.run) = m.final
        BY <1>1, <1>2, <1>5, <2>1, <4>2, StatusOfEnd DEF ToldContext, FinalInv
      <4> QED
        BY <1>5, <3>1, <4>1, <4>2, <4>3 DEF Told
    <3> QED
      BY <1>0, <3>2, <3>3, <3>4, <3>5
  <2> QED
    BY <2>1
<1> QED
  BY <1>4, <1>5

LEMMA ToldStep == ToldContext /\ [Next]_vars => ToldInv'
<1> SUFFICES ASSUME ToldContext, [Next]_vars PROVE ToldInv'
  OBVIOUS
<1>1. TypeOK /\ ToldInv
  BY DEF ToldContext
<1>2. CASE Missions
  <2>1. PICK t \in Started, status \in Ends :
          \/ StartLog(t) \/ Write(t) \/ Complete(t, status) \/ Return(t)
          \/ Exit(t) \/ Raise(t) \/ Notify(t)
    <3>1. "failed" \in Ends
      BY DEF Ends
    <3> QED
      BY <1>2, <3>1 DEF Missions
  <2>2. /\ Started' = Started /\ raced' = raced
        /\ \A v \in Started : threads'[v].run = threads[v].run
    BY <1>1, <2>1, MissionKeepsThreads DEF Moves
  <2> QED
    BY <2>1, <2>2, ToldMission DEF ToldInv
<1>3. ASSUME Requests, NEW h \in Handlers,
             \A g \in Handlers : g # h => call'[g] = call[g],
             \/ call'[h].run = call[h].run \/ call'[h].run = Nobody
             \/ call'[h].run \in raced'
             \/ call'[h].run \in Runs /\ ~Exists(call'[h].run),
             \A q \in Runs : call[h].run # q => log'[q] = log[q],
             \A u \in Started' \ Started :
               /\ threads'[u].notice \notin {"pending"} \cup Ends
               /\ threads'[u].run = call[h].run
      PROVE  ToldInv'
  <2> SUFFICES ASSUME NEW u \in Started', threads'[u].run \notin raced'
               PROVE  Told(u)'
    BY DEF ToldInv
  <2>1. CASE u \notin Started
    BY <1>3, <2>1 DEF Told
  <2>2. CASE u \in Started
    <3>1. /\ threads'[u] = threads[u] /\ threads[u].run \notin raced
          /\ threads[u].run \in Runs /\ Told(u)
      BY <1>1, <1>3, <2>2, RequestView, ThreadHasRun DEF ToldInv
    <3>2. ASSUME threads[u].notice = "pending"
          PROVE  /\ log'[threads[u].run] = log[threads[u].run]
                 /\ \A g \in Handlers : call'[g].run # threads[u].run
                 /\ \A v \in Started' :
                      threads'[v].run = threads[u].run => ~Alive(v)'
      <4>1. /\ Exists(threads[u].run)
            /\ \A g \in Handlers : call[g].run # threads[u].run
            /\ \A v \in Started : threads[v].run = threads[u].run => ~Alive(v)
        BY <3>1, <3>2 DEF Told
      <4>2. \A v \in Started : threads'[v] = threads[v]
        BY <1>1, <1>3, RequestView
      <4> QED
        BY <1>3, <3>1, <4>1, <4>2, ConsoleAssumption DEF Alive
    <3> QED
      BY <3>1, <3>2 DEF Told, Exists
  <2> QED
    BY <2>1, <2>2
<1>4. ASSUME Requests, NEW h \in Handlers, NEW r \in Runs,
             NEW at \in {"launching", "deriving", "removing"}, Asks(h, r, at),
             at # "removing" => IsFreshSlug(r),
             at = "removing" => Enter(r, AtWork(r) \/ ToBeTold(r))
      PROVE  ToldInv'
  <2>1. /\ call'[h] = [run |-> r, at |-> at]
        /\ \A g \in Handlers : g # h => call'[g] = call[g]
        /\ UNCHANGED <<log, threads>> /\ Started' = Started
    BY <1>1, <1>4 DEF Asks, Sets, TypeOK, Started
  <2>2. CASE at # "removing" \/ r \in raced'
    BY <1>3, <1>4, <2>1, <2>2 DEF IsFreshSlug
  <2>3. CASE at = "removing" /\ r \notin raced'
    <3>1. \A t \in Started : threads[t].run = r => threads[t].notice # "pending"
      BY <1>4, <2>3 DEF Enter, ToBeTold
    <3>2. raced \subseteq raced'
      BY <1>1, <1>4, RequestView
    <3> QED
      BY <1>1, <2>1, <3>1, <3>2 DEF ToldInv, Told, Exists, Alive
  <2> QED
    BY <2>2, <2>3
<1>5. ASSUME Requests, NEW h \in Handlers,
             \/ TurnDown(h) \/ RemoveDirectory(h) \/ DeleteRows(h) \/ PopEntry(h)
      PROVE  ToldInv'
  <2>1. /\ call'[h].run \in {call[h].run, Nobody}
        /\ \A g \in Handlers : g # h => call'[g] = call[g]
    BY <1>1, <1>5
       DEF TurnDown, RemoveDirectory, DeleteRows, PopEntry, Sets, Drops, Idle,
           TypeOK
  <2>2. Started' = Started
    BY <1>5 DEF TurnDown, RemoveDirectory, DeleteRows, PopEntry, Started
  <2>3. \A q \in Runs : call[h].run # q => log'[q] = log[q]
    BY <1>1, <1>5
       DEF TurnDown, RemoveDirectory, DeleteRows, PopEntry, RemoveLog, TypeOK,
           MirrorTypeOK, mirrorVars
  <2> QED
    BY <1>3, <1>5, <2>1, <2>2, <2>3
<1>6. ASSUME Requests, NEW h \in Handlers, Register(h) PROVE ToldInv'
  <2>1. NewThread(call[h].run, call[h].at) \in Threads
    BY <1>1, <1>6 DEF Register, IsAdmitted, Idle, TypeOK, Calls, NewThread, Threads
  <2>2. /\ Started' = Started \cup {Len(threads) + 1}
        /\ threads'[Len(threads) + 1].notice \in {"due", "none"}
        /\ threads'[Len(threads) + 1].run = call[h].run
    BY <1>1, <1>6, <2>1, ThreadAppended DEF Register, TypeOK, NewThread
  <2>3. /\ call'[h].run = Nobody /\ log' = log
        /\ \A g \in Handlers : g # h => call'[g] = call[g]
    BY <1>1, <1>6 DEF Register, Drops, Idle, TypeOK, mirrorVars
  <2> QED
    BY <1>3, <1>6, <2>2, <2>3 DEF Ends
<1>7. CASE Requests
  BY <1>4, <1>5, <1>6, <1>7, AskIsOne DEF Requests
<1>8. CASE Mirroring \/ UNCHANGED vars
  <2>1. UNCHANGED <<log, threads, call, raced>>
    BY <1>1, <1>8, MirrorSteps DEF vars, consoleVars
  <2> QED
    BY <1>1, <2>1 DEF ToldInv, Told, Exists, Alive, Started
<1>9. CASE Waves
  <2> SUFFICES ASSUME NEW u \in Started', threads'[u].run \notin raced'
               PROVE  Told(u)'
    BY DEF ToldInv
  <2>1. CASE u \notin Started
    BY <1>1, <1>9, <2>1, WaveView DEF Told, Ends
  <2>2. CASE u \in Started
    <3>1. /\ threads'[u] = threads[u] /\ Told(u)
          /\ UNCHANGED <<log, call>>
      BY <1>1, <1>9, <2>2, WaveView DEF ToldInv
    <3>2. ASSUME threads[u].notice = "pending", NEW v \in Started',
                 threads'[v].run = threads[u].run
          PROVE  ~Alive(v)'
      <4>1. v \in Started /\ threads'[v] = threads[v]
        BY <1>1, <1>9, <2>2, <3>1, <3>2, WaveView
      <4> QED
        BY <3>1, <3>2, <4>1 DEF Told, Alive
    <3> QED
      BY <3>1, <3>2 DEF Told, Exists
  <2> QED
    BY <2>1, <2>2
<1> QED
  BY <1>2, <1>7, <1>8, <1>9 DEF Next

-----------------------------------------------------------------------------
(***************************************************************************)
(* The theorems.                                                           *)
(***************************************************************************)
Seen ==
  /\ TypeOK /\ GhostInv /\ AloneInv /\ ViewInv /\ FreshInv /\ WaveInv
  /\ OffsetInv /\ LookedInv /\ PrefixInv
  /\ StageInv /\ FinalInv /\ ToldInv

LEMMA SeenInit == Init => Seen
<1> SUFFICES ASSUME Init PROVE Seen
  OBVIOUS
<1>1. /\ TypeOK /\ ViewInv /\ Started = {}
      /\ \A r \in Runs : ~Exists(r) /\ remade[r] = "no"
      /\ \A h \in Handlers : call[h].run \notin Runs
  BY TypeInit, ViewInit, ConsoleAssumption
     DEF Init, MirrorInit, Started, Exists, Idle
<1>2. GhostInv
  BY DEF Init, MirrorInit, GhostInv, NoGhostRows, ReaderInv, Free
<1>3. OffsetInv
  BY DEF Init, MirrorInit, OffsetInv, NoRows, Unlocked
<1> QED
  BY <1>1, <1>2, <1>3
     DEF Seen, AloneInv, OneParty, FreshInv, WaveInv, LookedInv, PrefixInv, Followed,
         StageInv, FinalInv, ToldInv

LEMMA SeenStep == Seen /\ [Next]_vars => Seen'
<1> SUFFICES ASSUME Seen, [Next]_vars PROVE Seen'
  OBVIOUS
<1>1. TypeOK' /\ GhostInv' /\ AloneInv'
  BY TypeStep, GhostStep, AloneStep DEF Seen
<1>2. ViewInv' /\ FreshInv' /\ WaveInv' /\ OffsetInv' /\ LookedInv'
  BY ViewStep, FreshStep, WaveStep, OffsetStep, LookedStep DEF Seen
<1>3. PrefixInv'
  BY PrefixStep DEF Seen, PrefixContext
<1>4. StageInv' /\ FinalInv' /\ ToldInv'
  BY StageStep, FinalStep, ToldStep DEF Seen, ToldContext
<1> QED
  BY <1>1, <1>2, <1>3, <1>4 DEF Seen

\* The rows of a run are those of a prefix of its log whatever mission, reader
\* or deletion comes between a reader's two steps, and, when a wave makes the
\* log anew under them, of an earlier log until a reader notices; not when two
\* parties worked on the run at one time, and not once the new log had outgrown
\* the old offset before anyone looked (sqlite_sink.py, mirror_log_file).
THEOREM RowsArePrefix == Spec => []MirrorIsPrefix
<1>1. Seen => MirrorIsPrefix
  <2> DEFINE Good(r) == Exists(r) /\ ~BeingDeleted(r) /\ remade[r] # "missed" =>
                          /\ mirror[r].offset = Len(mirror[r].rows)
                          /\ RowsFollow(r) \/ RowsOutlived(r)
             Made(r) == remade[r] # "no" =>
                          \E t \in Started : threads[t].run = r /\ IsWave(t)
  <2>0. (\A r \in Runs \ raced : Good(r) /\ Made(r)) => MirrorIsPrefix
    BY Zenon DEF MirrorIsPrefix
  <2> SUFFICES ASSUME Seen, NEW r \in Runs \ raced PROVE Good(r) /\ Made(r)
    BY <2>0
  <2>1. remade[r] # "no" => \E t \in Started : threads[t].run = r /\ IsWave(t)
    BY DEF Seen, WaveInv
  <2>2. ASSUME Exists(r), remade[r] # "missed"
        PROVE  RowsFollow(r) \/ RowsOutlived(r)
    <3>1. RowsGood(r)
      BY <2>2 DEF Seen, PrefixInv, Followed, RunGood
    <3>2. CASE Outlived(r) /\ remade[r] = "unseen"
      BY <3>2 DEF Outlived, Older, RowsOutlived
    <3>3. CASE Replaced(r)
      BY <3>3 DEF Replaced, Older, RowsOutlived
    <3>4. CASE Mirrored(r)
      BY <3>4 DEF Mirrored, Shows, RowsFollow, Row
    <3> QED
      BY <3>1, <3>2, <3>3, <3>4 DEF RowsGood
  <2>3. mirror[r].offset = Len(mirror[r].rows)
    BY DEF Seen, OffsetInv
  <2> QED
    BY <2>1, <2>2, <2>3
<1> QED
  BY <1>1, SeenInit, SeenStep, PTL DEF Spec

\* A stream that was opened on the log that is there, or has shown lines of no
\* other, has shown the beginning of that log, in order and without a gap, for
\* any number of streams, with a factory that makes the log anew under them
\* (app.py, stream_run_events).
THEOREM StreamsFollow == Spec => []StreamFollows
<1>1. Seen => StreamFollows
  <2> SUFFICES ASSUME Seen, NEW c \in Clients, NEW r \in Runs \ raced,
                      r = stream[c].run, Exists(r), remade[r] # "missed",
                      stream[c].of = log[r].by \/ ShowsOnly(c, log[r].by)
               PROVE  /\ Len(stream[c].sent) <= Len(log[r].lines)
                      /\ \A k \in 1..Len(stream[c].sent) :
                           stream[c].sent[k] = Row(r, k)
    BY DEF StreamFollows
  <2>1. Shows(stream[c].sent, log[r])
    BY DEF Seen, PrefixInv, Followed, RunGood, SentGood, Foreign, ShowsOnly
  <2> QED
    BY <2>1 DEF Shows, Row
<1> QED
  BY <1>1, SeenInit, SeenStep, PTL DEF Spec

\* run.completed and run.failed say how the mission ended, although the status
\* is read from the log after its thread has died (app.py, notify_run_finished).
THEOREM ToldIsTrue == Spec => []ToldTheTruth
<1>1. Seen => ToldTheTruth
  BY DEF Seen, ToldInv, Told, ToldTheTruth
<1> QED
  BY <1>1, SeenInit, SeenStep, PTL DEF Spec

\* No stream is ended as stale under a mission of the console that is alive,
\* however long its log has been quiet: the mission is in the table, where
\* effective_status looks.  (A factory's waves are in no table.)
THEOREM StaleIsDead == Spec => StaleMeansDead
<1> DEFINE A(c) ==
      /\ stream[c].at = "status" /\ stream'[c].at = "closed"
      /\ mirror[stream[c].run].status = "running"
      => \A t \in Started :
           /\ threads[t].run = stream[c].run /\ threads[t].run \notin raced
           /\ ~IsWave(t)
           => ~Alive(t)
<1>1. Seen /\ [Next]_vars => [\A c \in Clients : A(c)]_vars
  <2> SUFFICES ASSUME Seen, [Next]_vars, NEW c \in Clients,
                      stream[c].at = "status", stream'[c].at = "closed",
                      mirror[stream[c].run].status = "running",
                      NEW t \in Started,
                      threads[t].run = stream[c].run, threads[t].run \notin raced,
                      ~IsWave(t), Alive(t)
               PROVE  FALSE
    OBVIOUS
  <2>1. ManagedAndAlive(stream[c].run) /\ stream[c].run \in Runs
    BY ThreadHasRun DEF Seen, AloneInv, Owns, ManagedAndAlive
  <2>2. stream \in [Clients -> Streaming \cup {Closed}]
    BY DEF Seen, TypeOK, MirrorTypeOK
  <2>3. ASSUME NEW d \in Clients, NEW at, at # "closed", StreamTo(d, at)
        PROVE  FALSE
    BY <2>2, <2>3 DEF StreamTo, Streaming, Closed
  <2>4. ASSUME NEW d \in Clients, EndsStream(d) PROVE d = c
    BY <2>2, <2>4 DEF EndsStream
  <2>5. ASSUME NEW d \in Clients,
               CheckStatus(d, stream[d].run \in Runs
                                /\ ManagedAndAlive(stream[d].run))
        PROVE  FALSE
    <3>1. EndsStream(d) /\ d = c
      BY <2>3, <2>4, <2>5 DEF CheckStatus
    <3>2. EffectiveStatus(stream[c].run, TRUE) = {"running"}
      BY DEF EffectiveStatus
    <3> QED
      BY <2>1, <2>3, <2>5, <3>1, <3>2 DEF CheckStatus, Ends
  <2>6. ASSUME NEW d \in Clients, LeaveStream(d) PROVE FALSE
    BY <2>4, <2>6 DEF LeaveStream, Streams
  <2>7. stream' # stream
    OBVIOUS
  <2>8. Mirroring
    <3>1. ~Missions
      BY <2>7 DEF Missions, StartLog, Write, Complete, Return, Exit, Raise, Notify,
                  mirrorVars
    <3>2. ~Requests /\ ~Waves
      BY <2>7, RequestView, WaveView DEF Seen
    <3> QED
      BY <2>7, <3>1, <3>2 DEF Next, vars
  <2>9. ASSUME NEW d \in Clients, NEW r \in Runs, OpenStream(d, r) PROVE FALSE
    <3>1. d # c
      BY <2>9 DEF OpenStream, Streams
    <3> QED
      BY <2>2, <2>9, <3>1 DEF OpenStream
  <2>10. ASSUME NEW d \in Clients, SendEvents(d) PROVE FALSE
    <3>1. d # c
      BY <2>10 DEF SendEvents, Streams
    <3> QED
      BY <2>2, <2>10, <3>1 DEF SendEvents
  <2>11. ASSUME NEW d \in Clients, StreamRead(d) \/ StreamCommit(d) PROVE FALSE
    BY <2>3, <2>11 DEF StreamRead, StreamCommit
  <2>12. ASSUME NEW d \in Clients, StreamRaises(d) PROVE FALSE
    BY <2>4, <2>12 DEF StreamRaises, Streams
  <2>13. ASSUME NEW r \in Runs, PollRead(r) PROVE FALSE
    BY <2>7, <2>13 DEF PollRead
  <2>14. ~PollCommit /\ ~PollRaises
    BY <2>7 DEF PollCommit, PollRaises
  <2> QED
    BY <2>5, <2>6, <2>8, <2>9, <2>10, <2>11, <2>12, <2>13, <2>14 DEF Mirroring
<1> QED
  BY <1>1, SeenInit, SeenStep, PTL DEF Spec, StaleMeansDead

=============================================================================
