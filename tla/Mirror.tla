-------------------------------- MODULE Mirror --------------------------------
(***************************************************************************)
(* The SQLite mirror of the run logs (agentgraph/sqlite_sink.py) and the   *)
(* event streams that read it (app.py, stream_run_events).  Any request    *)
(* may bring the mirror of a run up to date: it takes the mirror lock,     *)
(* reads the lines past the stored offset and commits their rows, while    *)
(* the mission appends, a deletion removes the directory, or the wave of a *)
(* factory makes the log anew under the rows of its predecessor.           *)
(*                                                                         *)
(* A log is written by one thread, and the seq of a line is its position.  *)
(* Lengths count lines, not bytes.  Of the tables only `events`, the       *)
(* status in `runs` and `mirror_state` are kept.                           *)
(***************************************************************************)
EXTENDS Naturals, Sequences

CONSTANTS
  Runs,      \* run ids (the slugs of one repository)
  Watched,   \* bound: runs that anyone looks at, deletes or makes anew
  Clients,   \* bound: streams that are opened
  Nobody     \* no run, no client

VARIABLES
  log,       \* run.jsonl of each run, and the thread that writes it
  mirror,    \* the rows of each run and its offset
  reading,   \* who holds mirror_lock, with what it read
  stream,    \* the streams
  remade     \* history: whether a log was made anew under the rows of its
             \* run, and whether the first look at it could see that

mirrorVars == <<log, mirror, reading, stream, remade>>

Ends == {"completed", "failed"}
LineTypes == {"mission.started", "event"} \cup Ends
NoLog == [by |-> 0, lines |-> <<>>]
NoRows == [offset |-> 0, rows |-> <<>>, status |-> "none"]
Unlocked == [who |-> Nobody, run |-> Nobody, reset |-> FALSE, rows |-> <<>>,
             consumed |-> 0]
Closed == [run |-> Nobody, of |-> 0, at |-> "closed", sent |-> <<>>, last |-> 0]

Rows == [by : Nat, type : LineTypes]
Streaming ==
  [run : Runs, of : Nat,
   at : {"mirror", "committing", "events", "busy", "status"},
   sent : Seq(Rows), last : Nat]
MirrorTypeOK ==
  /\ log \in [Runs -> [by : Nat, lines : Seq(LineTypes)]]
  /\ mirror \in [Runs -> [offset : Nat, rows : Seq(Rows),
                         status : {"none", "running"} \cup Ends]]
  /\ \/ reading = Unlocked
     \/ reading \in [who : Clients \cup {"poll"}, run : Runs, reset : BOOLEAN,
                     rows : Seq(Rows), consumed : Nat]
  /\ stream \in [Clients -> Streaming \cup {Closed}]
  /\ remade \in [Runs -> {"no", "unseen", "missed"}]

Exists(r) == log[r] # NoLog
EndedAs(types, status) ==
  \E k \in 1..Len(types) : /\ types[k] = status
                           /\ \A j \in k + 1..Len(types) : types[j] \notin Ends
Free == reading = Unlocked
Row(r, k) == [by |-> log[r].by, type |-> log[r].lines[k]]

MirrorInit ==
  /\ log = [r \in Runs |-> NoLog]
  /\ mirror = [r \in Runs |-> NoRows]
  /\ reading = Unlocked
  /\ stream = [c \in Clients |-> Closed]
  /\ remade = [r \in Runs |-> "no"]

-----------------------------------------------------------------------------
(***************************************************************************)
(* The writers.                                                            *)
(***************************************************************************)
\* Mission._execute unlinks what is there and opens a file of its own; the
\* rows of the old one, mirrored or on their way, stay.
CreateLog(r, t) ==
  /\ log' = [log EXCEPT ![r] = [by |-> t, lines |-> <<>>]]
  /\ remade' = [remade EXCEPT ![r] =
       IF mirror[r] # NoRows \/ reading.run = r THEN "unseen" ELSE "no"]

\* A writer whose file was unlinked appends to a file without a name.
AppendLine(r, t, type) ==
  log' = [log EXCEPT ![r].lines = IF log[r].by = t THEN Append(@, type) ELSE @]

\* rmtree with ignore_errors: a file in use may stay.
RemoveLog(r) == log' = [log EXCEPT ![r] = NoLog] \/ UNCHANGED log

-----------------------------------------------------------------------------
(***************************************************************************)
(* mirror_log_file, in the two steps other threads can come between.       *)
(***************************************************************************)
\* The last line may be torn while its mission has not completed.
Torn(r) == {FALSE} \cup {b \in {TRUE} : \A k \in 1..Len(log[r].lines) :
                                           log[r].lines[k] \notin Ends}
Size(r, torn) == Len(log[r].lines) + (IF torn THEN 1 ELSE 0)

\* A torn line is left for the next call.
Consumed(rows, torn) == Len(rows)

\* Only a file shorter than the offset is taken for a new one.
NeverReset(r, torn) == FALSE \* mutant
IsReset(r, torn) == Size(r, torn) < mirror[r].offset

\* A new log that has grown past the offset of the old one is not noticed.
Noticed(r, torn) ==
  IF remade[r] # "unseen" THEN remade[r]
  ELSE IF mirror[r].offset \in 1..Size(r, torn) THEN "missed" ELSE "no"

MirrorRead(who, r) ==
  /\ Free /\ Exists(r) /\ r \in Watched
  /\ \E torn \in Torn(r) :
       LET from == IF IsReset(r, torn) THEN 0 ELSE mirror[r].offset
           past == IF from < Len(log[r].lines) THEN Len(log[r].lines) - from
                                               ELSE 0
           rows == [k \in 1..past |-> Row(r, from + k)]
       IN  /\ reading' = [who |-> who, run |-> r, reset |-> IsReset(r, torn),
                          rows |-> rows, consumed |-> Consumed(rows, torn)]
           /\ remade' = [remade EXCEPT ![r] = Noticed(r, torn)]

\* The status row: `started` never overwrites one, an end does.
StatusAfter(old, rows) ==
  LET types == [k \in 1..Len(rows) |-> rows[k].type]
  IN  IF EndedAs(types, "completed") THEN "completed"
      ELSE IF EndedAs(types, "failed") THEN "failed"
      ELSE IF old = "none" /\ "mission.started" \in {types[k] : k \in 1..Len(rows)}
             THEN "running" ELSE old

\* INSERT OR REPLACE finds nothing to replace: the offset is the last seq.
MirrorCommit ==
  LET r == reading.run
      old == IF reading.reset THEN NoRows ELSE mirror[r]
  IN  /\ ~Free
      /\ mirror' = [mirror EXCEPT ![r] =
           [offset |-> old.offset + reading.consumed,
            rows |-> old.rows \o reading.rows,
            status |-> StatusAfter(old.status, reading.rows)]]
      /\ reading' = Unlocked

\* json.loads raises, and nothing is committed, when the rows were read from
\* the offset of another log and that lies inside a line of this one.
OffsetIsOf(rows) == rows[Len(rows)].by
MirrorRaises ==
  /\ ~Free /\ ~reading.reset
  /\ reading.rows # <<>> /\ mirror[reading.run].rows # <<>>
  /\ OffsetIsOf(mirror[reading.run].rows) # reading.rows[1].by
  /\ reading' = Unlocked

ForgetRowsUnlocked(r) == \* mutant
  /\ mirror' = [mirror EXCEPT ![r] = NoRows]
  /\ remade' = [remade EXCEPT ![r] = IF @ = "missed" THEN @ ELSE "no"]

\* SqliteMirror.delete_run, which waits for the lock as well.
ForgetRows(r) ==
  /\ Free
  /\ mirror' = [mirror EXCEPT ![r] = NoRows]
  /\ remade' = [remade EXCEPT ![r] = IF @ = "missed" THEN @ ELSE "no"]

-----------------------------------------------------------------------------
(***************************************************************************)
(* A stream: mirror, send the new events, look at the status, sleep.       *)
(***************************************************************************)
Streams(c, at) == stream[c].at = at
StreamTo(c, at) == stream' = [stream EXCEPT ![c].at = at]
EndsStream(c) == stream' = [stream EXCEPT ![c] = Closed]

OpenStream(c, r) ==
  /\ Streams(c, "closed") /\ Exists(r) /\ r \in Watched
  /\ stream' = [stream EXCEPT ![c].run = r, ![c].of = log[r].by,
                             ![c].at = "mirror"]
  /\ UNCHANGED <<log, mirror, reading, remade>>

StreamRead(c) ==
  /\ Streams(c, "mirror")
  /\ \/ ~Exists(stream[c].run) /\ Free /\ StreamTo(c, "events")
        /\ UNCHANGED <<reading, remade>>
     \/ MirrorRead(c, stream[c].run) /\ StreamTo(c, "committing")
  /\ UNCHANGED <<log, mirror>>

StreamCommit(c) ==
  /\ Streams(c, "committing")
  /\ MirrorCommit
  /\ StreamTo(c, "events")
  /\ UNCHANGED <<log, remade>>

\* The handler raises, and the client's connection is closed.
StreamRaises(c) ==
  /\ Streams(c, "committing")
  /\ MirrorRaises
  /\ EndsStream(c)
  /\ UNCHANGED <<log, mirror, remade>>

SkipsOne(c) == \* mutant
   SubSeq(mirror[stream[c].run].rows, stream[c].last + 2,
         Len(mirror[stream[c].run].rows))

\* The rows past the last seq sent, as they are when the lock is taken.
NewRows(c) == SubSeq(mirror[stream[c].run].rows, stream[c].last + 1,
                     Len(mirror[stream[c].run].rows))

SendEvents(c) ==
  /\ Streams(c, "events") /\ Free
  /\ stream' = [stream EXCEPT
       ![c].at = IF NewRows(c) = <<>> THEN "status" ELSE "busy",
       ![c].sent = @ \o NewRows(c),
       ![c].last = IF @ < Len(mirror[stream[c].run].rows)
                     THEN Len(mirror[stream[c].run].rows) ELSE @]
  /\ UNCHANGED <<log, mirror, reading, remade>>

IgnoresThread(r, alive) == \* mutant
  IF mirror[r].status # "running" THEN {mirror[r].status}
  ELSE {"stale", mirror[r].status}

\* effective_status; a log is old after STALE_RUN_SECONDS without a line.
EffectiveStatus(r, alive) ==
  LET recorded == mirror[r].status
  IN  IF recorded # "running" \/ alive THEN {recorded}
      ELSE IF ~Exists(r) THEN {"stale"} ELSE {"stale", recorded}

\* The stream ends on a terminal status in a round without new events.
CheckStatus(c, alive) ==
  /\ Streams(c, "busy") \/ Streams(c, "status")
  /\ Free
  /\ \E status \in EffectiveStatus(stream[c].run, alive) :
       IF Streams(c, "status") /\ status \in Ends \cup {"stale"}
         THEN EndsStream(c)
         ELSE StreamTo(c, "mirror")
  /\ UNCHANGED <<log, mirror, reading, remade>>

\* The client is gone, or two hours have passed.
LeaveStream(c) ==
  /\ Streams(c, "mirror")
  /\ EndsStream(c)
  /\ UNCHANGED <<log, mirror, reading, remade>>

-----------------------------------------------------------------------------
(***************************************************************************)
(* Any other request that mirrors (mirror_single_run, mirror_all_runs).    *)
(***************************************************************************)
PollRead(r) ==
  /\ MirrorRead("poll", r)
  /\ UNCHANGED <<log, mirror, stream>>

PollCommit ==
  /\ reading.who = "poll"
  /\ MirrorCommit
  /\ UNCHANGED <<log, stream, remade>>

PollRaises ==
  /\ reading.who = "poll"
  /\ MirrorRaises
  /\ UNCHANGED <<log, mirror, stream, remade>>
=============================================================================
