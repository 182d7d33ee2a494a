---------------------------- MODULE FactoryProofs ----------------------------
(***************************************************************************)
(* Theorems about Factory, for any number of runs, threads, requests and   *)
(* waves: what state.json says is earned, no wave runs before the ones     *)
(* ahead of it passed, none that passed is bought twice, and an interrupt  *)
(* stops a run within a wave.                                              *)
(*                                                                         *)
(* The first three hold while the factory's spec is not edited (OneSpec):  *)
(* the waves of a run are then the same in every state.json, and a resume  *)
(* may take the place to go on from as a number.                           *)
(***************************************************************************)
EXTENDS Factory, FiniteSetTheorems, TLAPS

OneSpec == \A s, t \in Specs : s = t

\* With one spec, the wave passed in the run.
Earns(i, w, E) == OneSpec => <<i, w>> \in E

Good == {"passed", "skipped"}
NotBegun == {"load", "fresh"}
BetweenWaves == NotBegun \cup {"next"}

\* The marks of a run's waves, good ones earned in E.
MarksInv(i, slugs, waves, E) ==
  /\ Len(waves) = Len(slugs)
  /\ \A k \in 1..Len(slugs) : waves[k] \in Good => Earns(i, slugs[k], E)

FileInv(i, f, E) ==
  /\ f.slugs \in Specs \cup {<<>>}
  /\ MarksInv(i, f.slugs, f.waves, E)
  /\ f.status = "completed" => \A k \in 1..Len(f.waves) : f.waves[k] \in Good

\* Where a thread is in its spec.
PlaceInv(t) ==
  /\ t.status = "running" /\ t.start <= Len(t.spec) /\ t.at <= Len(t.spec) + 1
  /\ t.pc \in NotBegun => t.at = 1
  /\ t.pc \notin BetweenWaves => t.at <= Len(t.spec)

\* What it has behind it was earned in E.
EarnedInv(t, E) ==
  /\ \A w \in t.prior : Earns(t.id, w, E)
  /\ \A k \in 1..(t.start - 1) : Earns(t.id, t.spec[k], E)
  /\ t.pc \notin NotBegun => /\ MarksInv(t.id, t.spec, t.waves, E)
                             /\ \A k \in 1..(t.at - 1) : t.waves[k] \in Good
  /\ t.pc \in {"pass", "passed"} => Earns(t.id, t.spec[t.at], E)
  /\ t.pc = "passed" => t.waves[t.at] = "passed"

\* It starts at most one mission after an interrupt.
LateInv(t) ==
  /\ t.late <= 1 /\ (t.late = 1 => t.stop)
  /\ t.pc \in BetweenWaves \cup {"wave"} => t.late = 0

ThreadInv(t, E) == PlaceInv(t) /\ EarnedInv(t, E) /\ LateInv(t)

\* The place a resume goes on from has everything before it behind it.
CallInv(c, E) ==
  /\ c.kind \in {"resume", "restart"} => c.id \in Ids
  /\ c.kind = "restart" =>
       \A s \in Specs : \A k \in 1..(c.start - 1) : k <= Len(s) => Earns(c.id, s[k], E)

IInv ==
  /\ TypeOK
  /\ \A i \in Ids : FileInv(i, files[i], earned)
  /\ \A r \in Runners : Busy(r) => ThreadInv(runners[r], earned)
  /\ \A h \in Handlers : CallInv(calls[h], earned)

USE FactoryAssumption

-----------------------------------------------------------------------------
(***************************************************************************)
(* Where a resume goes on.                                                 *)
(***************************************************************************)
\* The waves before the one a resume starts from all passed.
LEMMA Prefix ==
  ASSUME NEW f \in Files
  PROVE  /\ Cardinality(UpToUnpassed(f)) \in Nat \ {0}
         /\ \A k \in 1..(Cardinality(UpToUnpassed(f)) - 1) :
              k \in 1..Len(f.waves) /\ f.waves[k] = "passed"
<1> DEFINE U == UpToUnpassed(f)
           n == Len(f.waves)
<1>1. n \in Nat
  BY DEF Files
<1>2. U \subseteq 1..(n + 1) /\ 1 \in U
  BY <1>1 DEF UpToUnpassed
<1>3. IsFiniteSet(1..(n + 1)) /\ Cardinality(1..(n + 1)) = n + 1
  <2>1. 1 \in Int /\ n + 1 \in Int /\ ~(1 > n + 1) /\ (n + 1) - 1 + 1 = n + 1
    BY <1>1
  <2> HIDE DEF n
  <2> QED BY <2>1, FS_Interval
<1>4. IsFiniteSet(U) /\ Cardinality(U) \in Nat /\ Cardinality(U) <= n + 1
  BY <1>2, <1>3, FS_Subset, FS_CardinalityType
<1>5. Cardinality(U) # 0
  BY <1>2, <1>4, FS_EmptySet
<1>6. ASSUME NEW k \in 1..(Cardinality(U) - 1), f.waves[k] # "passed"
      PROVE  FALSE
  <2>1. k \in 1..n
    BY <1>1, <1>4
  <2>2. U \subseteq 1..k
    BY <1>1, <1>6, <2>1 DEF UpToUnpassed
  <2>3. IsFiniteSet(1..k) /\ Cardinality(1..k) = k
    BY <2>1, <1>1, FS_Interval
  <2>4. Cardinality(U) <= k
    BY <2>2, <2>3, FS_Subset
  <2> QED BY <2>1, <2>4, <1>1, <1>4
<1> HIDE DEF U, n
<1>7. \A k \in 1..(Cardinality(U) - 1) : k \in 1..n /\ f.waves[k] = "passed"
  BY <1>1, <1>4, <1>6
<1> QED BY <1>4, <1>5, <1>7 DEF U, n

\* A mark is set and nothing else.
LEMMA Mark ==
  ASSUME NEW t \in Threads, NEW m \in Marks, Len(t.waves) = Len(t.spec),
         t.at \in 1..Len(t.spec)
  PROVE  /\ Marked(t, m) = [t EXCEPT !.waves = [t.waves EXCEPT ![t.at] = m]]
         /\ [t.waves EXCEPT ![t.at] = m] \in Seq(Marks)
         /\ Len([t.waves EXCEPT ![t.at] = m]) = Len(t.spec)
         /\ \A k \in 1..Len(t.spec) :
              [t.waves EXCEPT ![t.at] = m][k] = IF k = t.at THEN m ELSE t.waves[k]
<1>1. t.waves \in Seq(Marks)
  BY DEF Threads
<1>2. t.spec \in Seq(STRING)
  BY DEF Threads
<1> QED BY <1>1, <1>2 DEF Marked

\* A file or a thread that was good stays so when more is earned.
LEMMA MoreEarned ==
  ASSUME NEW E, NEW F, E \subseteq F
  PROVE  /\ \A i, f : FileInv(i, f, E) => FileInv(i, f, F)
         /\ \A t : ThreadInv(t, E) => ThreadInv(t, F)
         /\ \A c : CallInv(c, E) => CallInv(c, F)
<1>1. \A i, f : FileInv(i, f, E) => FileInv(i, f, F)
  BY DEF FileInv, MarksInv, Earns
<1>2. \A t : EarnedInv(t, E) => EarnedInv(t, F)
  BY DEF EarnedInv, MarksInv, Earns
<1>3. \A c : CallInv(c, E) => CallInv(c, F)
  BY DEF CallInv, Earns
<1> QED BY <1>1, <1>2, <1>3 DEF ThreadInv

\* What state.json gets is a good file if it is taken of a good thread.
LEMMA SnapshotIsGood ==
  ASSUME NEW t \in Threads, t.spec \in Specs, MarksInv(t.id, t.spec, t.waves, earned),
         NEW v \in Statuses,
         v = "completed" => \A k \in 1..Len(t.waves) : t.waves[k] \in Good
  PROVE  /\ Snapshot([t EXCEPT !.status = v]) \in Files
         /\ FileInv(t.id, Snapshot([t EXCEPT !.status = v]), earned)
<1>1. Snapshot([t EXCEPT !.status = v]) = [status |-> v, slugs |-> t.spec, waves |-> t.waves]
  BY DEF Snapshot, Threads
<1>2. t.spec \in Seq(STRING) /\ t.waves \in Seq(Marks)
  BY DEF Threads
<1> DEFINE f == Snapshot([t EXCEPT !.status = v])
<1>3. f.status = v /\ f.slugs = t.spec /\ f.waves = t.waves
  BY <1>1
<1>4. f \in Files
  BY <1>1, <1>2 DEF Files
<1> HIDE DEF f
<1>5. FileInv(t.id, f, earned)
  BY <1>3 DEF FileInv
<1> QED BY <1>4, <1>5 DEF f

\* A thread moves on, or ends.
LEMMA Moves ==
  ASSUME IInv, NEW r \in Runners, NEW t \in Threads \cup {None}, Becomes(r, t),
         t # None => ThreadInv(t, earned),
         UNCHANGED <<files, calls, tracked, started, disturbed, earned>>,
         logs' \in SUBSET Waves
  PROVE  IInv'
<1>1. TypeOK'
  BY DEF IInv, TypeOK, Becomes
<1>2. \A i \in Ids : FileInv(i, files'[i], earned')
  BY DEF IInv
<1>3. \A q \in Runners : runners'[q] # None => ThreadInv(runners'[q], earned')
  <2>1. runners \in [Runners -> Threads \cup {None}]
    BY DEF IInv, TypeOK
  <2>2. \A q \in Runners : runners'[q] = IF q = r THEN t ELSE runners[q]
    BY <2>1 DEF Becomes
  <2> QED BY <2>2 DEF IInv, Busy
<1>4. \A h \in Handlers : CallInv(calls'[h], earned')
  BY DEF IInv
<1> QED BY <1>1, <1>2, <1>3, <1>4 DEF IInv, Busy

\* A thread writes its state and moves on, or ends.
LEMMA Writes ==
  ASSUME IInv, NEW r \in Runners, NEW t \in Threads \cup {None}, Becomes(r, t),
         t # None => ThreadInv(t, earned),
         NEW i \in Ids, NEW f \in Files, FileInv(i, f, earned),
         files' = [files EXCEPT ![i] = f],
         UNCHANGED <<logs, calls, tracked, started, disturbed, earned>>
  PROVE  IInv'
<1>1. TypeOK'
  BY DEF IInv, TypeOK, Becomes
<1>2. \A j \in Ids : FileInv(j, files'[j], earned')
  BY DEF IInv, TypeOK
<1>3. \A q \in Runners : runners'[q] # None => ThreadInv(runners'[q], earned')
  <2>1. runners \in [Runners -> Threads \cup {None}]
    BY DEF IInv, TypeOK
  <2>2. \A q \in Runners : runners'[q] = IF q = r THEN t ELSE runners[q]
    BY <2>1 DEF Becomes
  <2> QED BY <2>2 DEF IInv, Busy
<1>4. \A h \in Handlers : CallInv(calls'[h], earned')
  BY DEF IInv
<1> QED BY <1>1, <1>2, <1>3, <1>4 DEF IInv, Busy

-----------------------------------------------------------------------------
(***************************************************************************)
(* The steps of a thread.                                                  *)
(***************************************************************************)
LEMMA LoadStep == ASSUME IInv, NEW r \in Runners, Load(r) PROVE IInv'
<1> DEFINE t == runners[r]
           u == [t EXCEPT !.prior = PassedIn(files[t.id]), !.pc = "fresh"]
<1>1. t \in Threads /\ ThreadInv(t, earned) /\ t.id \in Ids
  BY DEF Load, At, Busy, IInv, TypeOK, Threads
<1>2. /\ files[t.id] \in Files /\ FileInv(t.id, files[t.id], earned)
  BY <1>1 DEF IInv, TypeOK
<1>3. \A w \in PassedIn(files[t.id]) : w \in Waves /\ Earns(t.id, w, earned)
  BY <1>2 DEF PassedIn, FileInv, MarksInv, Good, Waves, Files
<1>4. u \in Threads
  BY <1>1, <1>3 DEF Threads
<1>5. ThreadInv(u, earned)
  BY <1>1, <1>3 DEF Load, At, ThreadInv, PlaceInv, EarnedInv, LateInv, NotBegun, BetweenWaves, Threads
<1> QED BY <1>4, <1>5, Moves DEF Load, console, past, IInv, TypeOK

LEMMA FreshStep == ASSUME IInv, NEW r \in Runners, Fresh(r) PROVE IInv'
<1> DEFINE t == runners[r]
           w == [k \in 1..Len(t.spec) |-> "pending"]
           u == [t EXCEPT !.waves = w, !.status = "running", !.pc = "next"]
<1>1. t \in Threads /\ ThreadInv(t, earned) /\ t.id \in Ids /\ t.pc = "fresh"
  BY DEF Fresh, At, Busy, IInv, TypeOK, Threads
<1>2. w \in Seq(Marks) /\ Len(w) = Len(t.spec)
  BY <1>1 DEF Threads, Marks
<1>3. u \in Threads /\ u.id = t.id /\ u.spec = t.spec /\ u.waves = w
  BY <1>1, <1>2 DEF Threads, Statuses
<1>4. MarksInv(u.id, u.spec, u.waves, earned)
  BY <1>2, <1>3 DEF MarksInv, Good
<1>5. ThreadInv(u, earned)
  <2>1. /\ u.pc = "next" /\ u.status = "running" /\ u.at = t.at /\ u.start = t.start
        /\ u.prior = t.prior /\ u.late = t.late /\ u.stop = t.stop
    BY <1>1 DEF Threads
  <2>2. PlaceInv(u) /\ LateInv(u)
    BY <1>1, <1>3, <2>1 DEF ThreadInv, PlaceInv, LateInv, NotBegun, BetweenWaves
  <2>3. t.at = 1
    BY <1>1 DEF ThreadInv, PlaceInv, NotBegun
  <2>4. EarnedInv(u, earned)
    <3> HIDE DEF u
    <3> QED BY <1>1, <1>3, <1>4, <2>1, <2>3 DEF ThreadInv, EarnedInv, NotBegun
  <2> QED BY <2>2, <2>4 DEF ThreadInv
<1>6. u = [u EXCEPT !.status = "running"]
  BY <1>1 DEF Threads
<1>7. Snapshot(u) \in Files /\ FileInv(u.id, Snapshot(u), earned)
  BY <1>3, <1>4, <1>6, SnapshotIsGood DEF Threads, Statuses
<1> QED BY <1>1, <1>3, <1>5, <1>7, Writes DEF Fresh, Persists, console, past

LEMMA GoOnStep == ASSUME IInv, NEW r \in Runners, GoOn(r) PROVE IInv'
<1> DEFINE t == runners[r]
           u == [t EXCEPT !.at = @ + 1, !.pc = "next"]
<1>1. t \in Threads /\ ThreadInv(t, earned) /\ t.pc = "passed" /\ ~t.stop
  BY DEF GoOn, MayGoOn, At, Busy, IInv, TypeOK, Threads
<1>2. u \in Threads
  <2>1. t.at \in Nat \ {0} /\ t.at + 1 \in Nat \ {0}
    BY <1>1 DEF Threads
  <2> QED BY <1>1, <2>1 DEF Threads
<1>3. PlaceInv(u) /\ LateInv(u)
  BY <1>1 DEF ThreadInv, PlaceInv, LateInv, NotBegun, BetweenWaves, Threads
<1>4. EarnedInv(u, earned)
  BY <1>1 DEF ThreadInv, EarnedInv, PlaceInv, NotBegun, BetweenWaves, Threads, Good
<1> QED BY <1>2, <1>3, <1>4, Moves DEF ThreadInv, GoOn, console, past, IInv, TypeOK

LEMMA MissionStep ==
  ASSUME IInv, NEW r \in Runners, StartMission(r) PROVE IInv'
<1> DEFINE t == runners[r]
           u == [t EXCEPT !.pc = "mission", !.late = IF t.stop THEN @ + 1 ELSE @]
<1>1. t \in Threads /\ ThreadInv(t, earned) /\ t.pc = "wave"
  BY DEF StartMission, At, Busy, IInv, TypeOK, Threads
<1>2. u \in Threads
  <2>1. t.late \in Nat /\ t.late + 1 \in Nat
    BY <1>1 DEF Threads
  <2> QED BY <1>1, <2>1 DEF Threads
<1>3. PlaceInv(u) /\ LateInv(u)
  BY <1>1 DEF ThreadInv, PlaceInv, LateInv, NotBegun, BetweenWaves, Threads
<1>4. EarnedInv(u, earned)
  BY <1>1 DEF ThreadInv, EarnedInv, NotBegun, Threads
<1>5. t.spec[t.at] \in Waves
  BY <1>1 DEF ThreadInv, PlaceInv, BetweenWaves, NotBegun, Threads, Waves
<1> QED BY <1>2, <1>3, <1>4, <1>5, Moves
        DEF ThreadInv, StartMission, console, past, IInv, TypeOK

\* A mission that passed has earned its wave.
LEMMA MissionEndStep ==
  ASSUME IInv, NEW r \in Runners, NEW ok \in BOOLEAN, EndMission(r, ok)
  PROVE  IInv'
<1> DEFINE t == runners[r]
           u == [t EXCEPT !.pc = IF ok THEN "pass" ELSE "fail"]
<1>1. /\ t \in Threads /\ ThreadInv(t, earned) /\ t.pc = "mission"
      /\ t.id \in Ids /\ t.spec[t.at] \in Waves
  <2>1. t \in Threads /\ ThreadInv(t, earned) /\ t.pc = "mission"
    BY DEF EndMission, At, Busy, IInv, TypeOK
  <2> QED BY <2>1 DEF ThreadInv, PlaceInv, BetweenWaves, NotBegun, Threads, Waves
<1>2. u \in Threads
  BY <1>1 DEF Threads
<1>3. PlaceInv(u) /\ LateInv(u)
  BY <1>1 DEF ThreadInv, PlaceInv, LateInv, NotBegun, BetweenWaves, Threads
<1>4. earned \subseteq earned' /\ earned' \in SUBSET (Ids \X Waves)
  BY <1>1 DEF EndMission, IInv, TypeOK
<1>6. EarnedInv(u, earned')
  <2>1. EarnedInv(t, earned')
    BY <1>1, <1>4, MoreEarned DEF ThreadInv
  <2>2. ok => Earns(t.id, t.spec[t.at], earned')
    BY DEF EndMission, Earns
  <2> QED BY <1>1, <2>1, <2>2 DEF EarnedInv, NotBegun, Threads
<1>7. TypeOK'
  BY <1>2, <1>4 DEF EndMission, Becomes, console, IInv, TypeOK
<1>8. \A i \in Ids : FileInv(i, files'[i], earned')
  BY <1>4, MoreEarned DEF EndMission, IInv
<1>9. \A q \in Runners : runners'[q] # None => ThreadInv(runners'[q], earned')
  <2>1. \A q \in Runners : runners'[q] = IF q = r THEN u ELSE runners[q]
    BY DEF EndMission, Becomes, IInv, TypeOK
  <2>2. \A q \in Runners : runners[q] # None => ThreadInv(runners[q], earned')
    BY <1>4, MoreEarned DEF IInv, Busy
  <2>3. ThreadInv(u, earned')
    BY <1>3, <1>6 DEF ThreadInv
  <2> HIDE DEF u
  <2> QED BY <2>1, <2>2, <2>3
<1>10. \A h \in Handlers : CallInv(calls'[h], earned')
  BY <1>4, MoreEarned DEF EndMission, console, IInv
<1> QED BY <1>7, <1>8, <1>9, <1>10 DEF IInv, Busy

\* A wave is marked m, the state written, and the thread goes on as u.
Marking(r, m, u) ==
  /\ Busy(r) /\ runners[r].pc \notin NotBegun /\ runners[r].at <= Len(runners[r].spec)
  /\ m \in Good => Earns(runners[r].id, runners[r].spec[runners[r].at], earned)
  /\ u = [runners[r] EXCEPT !.waves = [runners[r].waves EXCEPT ![runners[r].at] = m],
                            !.at = u.at, !.pc = u.pc]
  /\ u.pc \in {"next", "wave", "passed", "failed"}
  /\ u.pc = "passed" => m = "passed" /\ u.at = runners[r].at
  /\ u.pc \in {"next", "wave"} => runners[r].late = 0
  /\ u.at <= Len(runners[r].spec) \/ u.pc = "next"
  /\ u.at = runners[r].at \/ (u.at = runners[r].at + 1 /\ m \in Good)
  /\ Becomes(r, u) /\ files' = [files EXCEPT ![u.id] = Snapshot(u)]
  /\ UNCHANGED <<logs, console, past>>

LEMMA MarkStep ==
  ASSUME IInv, NEW r \in Runners, NEW m \in Marks, NEW u \in Threads, Marking(r, m, u)
  PROVE  IInv'
<1> DEFINE t == runners[r]
           w == [t.waves EXCEPT ![t.at] = m]
           a == u.at
<1>1. t \in Threads /\ ThreadInv(t, earned) /\ t.id \in Ids
  BY DEF Marking, Busy, IInv, TypeOK, Threads
<1>2. Len(t.waves) = Len(t.spec) /\ t.at \in 1..Len(t.spec)
  BY <1>1 DEF Marking, ThreadInv, EarnedInv, MarksInv, Threads
<1>3. /\ w \in Seq(Marks) /\ Len(w) = Len(t.spec)
      /\ \A k \in 1..Len(t.spec) : w[k] = IF k = t.at THEN m ELSE t.waves[k]
      /\ Marked(t, m) = [t EXCEPT !.waves = w]
  BY <1>1, <1>2, Mark
<1>4. u = [t EXCEPT !.waves = w, !.at = u.at, !.pc = u.pc]
  BY DEF Marking
<1>5. /\ u.id = t.id /\ u.spec = t.spec /\ u.start = t.start /\ u.prior = t.prior
      /\ u.stop = t.stop /\ u.late = t.late /\ u.status = t.status
      /\ u.waves = w
  <2> HIDE DEF t, w
  <2> QED BY <1>1, <1>4 DEF Threads
<1>6. /\ m \in Good => Earns(t.id, t.spec[t.at], earned)
      /\ t.pc \notin NotBegun
      /\ u.pc \in {"next", "wave", "passed", "failed"}
      /\ u.pc = "passed" => m = "passed" /\ a = t.at
      /\ u.pc \in {"next", "wave"} => t.late = 0
      /\ a <= Len(t.spec) \/ u.pc = "next"
      /\ a = t.at \/ (a = t.at + 1 /\ m \in Good)
  BY DEF Marking
<1> HIDE DEF w
<1>7. MarksInv(u.id, u.spec, u.waves, earned)
  BY <1>1, <1>2, <1>3, <1>5, <1>6 DEF ThreadInv, EarnedInv, MarksInv
<1>8. PlaceInv(u) /\ LateInv(u)
  BY <1>1, <1>2, <1>5, <1>6 DEF ThreadInv, PlaceInv, LateInv, NotBegun, BetweenWaves, Threads
<1>9. EarnedInv(u, earned)
  <2>1. \A k \in 1..(a - 1) : w[k] \in Good
    <3>0. t.at \in Nat /\ Len(t.spec) \in Nat
      BY <1>1 DEF Threads
    <3>1. \A k \in 1..(t.at - 1) : w[k] \in Good
      <4>1. \A k \in 1..(t.at - 1) : t.waves[k] \in Good
        BY <1>1, <1>6 DEF ThreadInv, EarnedInv
      <4>2. \A k \in 1..(t.at - 1) : k \in 1..Len(t.spec) /\ k # t.at
        BY <3>0, <1>2
      <4> HIDE DEF t
      <4> QED BY <1>3, <4>1, <4>2
    <3>2. m \in Good => w[t.at] \in Good
      BY <1>2, <1>3
    <3> QED BY <3>0, <3>1, <3>2, <1>6
  <2> QED BY <1>1, <1>2, <1>3, <1>5, <1>6, <1>7, <2>1 DEF ThreadInv, EarnedInv, NotBegun, Good
<1>10. u.status = "running" /\ u = [u EXCEPT !.status = "running"]
  BY <1>1, <1>5 DEF ThreadInv, PlaceInv, Threads
<1>11. Snapshot(u) \in Files /\ FileInv(u.id, Snapshot(u), earned)
  BY <1>5, <1>7, <1>10, SnapshotIsGood DEF Threads, Statuses
<1>12. /\ Becomes(r, u) /\ files' = [files EXCEPT ![u.id] = Snapshot(u)]
       /\ UNCHANGED <<logs, console, past>>
  BY DEF Marking
<1> QED BY <1>1, <1>5, <1>8, <1>9, <1>11, <1>12, Writes DEF ThreadInv, console, past

LEMMA SkipMarks ==
  ASSUME IInv, NEW r \in Runners, Skip(r)
  PROVE  \E u \in Threads : /\ Marking(r, "skipped", u) /\ u.pc = "next"
                            /\ u.at = runners[r].at + 1
<1> DEFINE t == runners[r]
           u == [Marked(t, "skipped") EXCEPT !.at = t.at + 1]
<1>1. t \in Threads /\ ThreadInv(t, earned)
  BY DEF Skip, MoreWaves, At, Busy, IInv, TypeOK
<1>2. Len(t.waves) = Len(t.spec) /\ t.at \in 1..Len(t.spec) /\ t.pc \notin NotBegun
  BY <1>1 DEF Skip, MoreWaves, At, ThreadInv, PlaceInv, EarnedInv, MarksInv, NotBegun, BetweenWaves, Threads
<1>3. "skipped" \in Marks
  BY DEF Marks
<1>4. "skipped" \in Good => Earns(t.id, t.spec[t.at], earned)
  BY <1>1, <1>2 DEF Skip, Skips, PassedBefore, ThreadInv, EarnedInv, Threads
<1>5. Marked(t, "skipped") = [t EXCEPT !.waves = [t.waves EXCEPT ![t.at] = "skipped"]]
      /\ [t.waves EXCEPT ![t.at] = "skipped"] \in Seq(Marks)
  BY <1>1, <1>2, <1>3, Mark
<1>6. t.pc = "next" /\ t.late = 0 /\ t.at + 1 \in Nat \ {0}
  BY <1>1 DEF Skip, MoreWaves, At, ThreadInv, LateInv, BetweenWaves, Threads
<1>7. /\ u \in Threads /\ u.pc = "next" /\ u.at = t.at + 1 /\ u.id = t.id
      /\ u = [Marked(t, "skipped") EXCEPT !.at = u.at, !.pc = u.pc]
      /\ Snapshot(u) = Snapshot(Marked(t, "skipped")) /\ Marked(t, "skipped").id = t.id
      /\ Marked(t, "skipped").at = t.at
  BY <1>1, <1>5, <1>6 DEF Threads, Snapshot
<1>8. Becomes(r, u) /\ files' = [files EXCEPT ![u.id] = Snapshot(u)] /\ Busy(r)
  BY <1>7 DEF Skip, MoreWaves, At, Persists
<1>9. u = [t EXCEPT !.waves = [t.waves EXCEPT ![t.at] = "skipped"],
                    !.at = u.at, !.pc = u.pc]
  <2> HIDE DEF t
  <2> QED BY <1>1, <1>5 DEF Threads
<1>10. UNCHANGED <<logs, console, past>>
  BY DEF Skip
<1> HIDE DEF u
<1>11. Marking(r, "skipped", u)
  BY <1>1, <1>2, <1>4, <1>6, <1>7, <1>8, <1>9, <1>10 DEF Marking, Good, Threads
<1> QED BY <1>6, <1>7, <1>11

LEMMA SkipStep == ASSUME IInv, NEW r \in Runners, Skip(r) PROVE IInv'
<1>1. "skipped" \in Marks
  BY DEF Marks
<1> QED BY <1>1, SkipMarks, MarkStep

LEMMA EnterMarks ==
  ASSUME IInv, NEW r \in Runners, Enter(r)
  PROVE  \E u \in Threads : /\ Marking(r, "running", u) /\ u.pc = "wave"
                            /\ u.at = runners[r].at
<1> DEFINE t == runners[r]
           u == [Marked(t, "running") EXCEPT !.pc = "wave"]
<1>1. t \in Threads /\ ThreadInv(t, earned)
  BY DEF Enter, MoreWaves, At, Busy, IInv, TypeOK
<1>2. Len(t.waves) = Len(t.spec) /\ t.at \in 1..Len(t.spec) /\ t.pc \notin NotBegun
  BY <1>1 DEF Enter, MoreWaves, At, ThreadInv, PlaceInv, EarnedInv, MarksInv, NotBegun, BetweenWaves, Threads
<1>3. "running" \in Marks
  BY DEF Marks
<1>4. t.late = 0
  BY <1>1, <1>2 DEF Enter, MoreWaves, At, ThreadInv, LateInv, BetweenWaves
<1>5. Marked(t, "running") = [t EXCEPT !.waves = [t.waves EXCEPT ![t.at] = "running"]]
      /\ [t.waves EXCEPT ![t.at] = "running"] \in Seq(Marks)
  BY <1>1, <1>2, <1>3, Mark
<1>6. /\ u \in Threads /\ u.pc = "wave" /\ u.at = t.at /\ u.id = t.id
      /\ u = [Marked(t, "running") EXCEPT !.at = u.at, !.pc = u.pc]
  BY <1>1, <1>5 DEF Threads
<1>7. Becomes(r, u) /\ files' = [files EXCEPT ![u.id] = Snapshot(u)] /\ Busy(r)
  BY <1>6 DEF Enter, MoreWaves, At, Persists
<1>9. u = [t EXCEPT !.waves = [t.waves EXCEPT ![t.at] = "running"],
                    !.at = u.at, !.pc = u.pc]
  <2> HIDE DEF t
  <2> QED BY <1>1, <1>5 DEF Threads
<1>10. UNCHANGED <<logs, console, past>>
  BY DEF Enter
<1> HIDE DEF u
<1>11. Marking(r, "running", u)
  BY <1>1, <1>2, <1>4, <1>6, <1>7, <1>9, <1>10 DEF Marking, Good, Threads
<1> QED BY <1>6, <1>7, <1>11

LEMMA EnterStep == ASSUME IInv, NEW r \in Runners, Enter(r) PROVE IInv'
<1>1. "running" \in Marks
  BY DEF Marks
<1> QED BY <1>1, EnterMarks, MarkStep

LEMMA RecordPassMarks ==
  ASSUME IInv, NEW r \in Runners, RecordPass(r)
  PROVE  \E u \in Threads : /\ Marking(r, "passed", u) /\ u.pc = "passed"
                            /\ u.at = runners[r].at
<1> DEFINE t == runners[r]
           u == [Marked(t, "passed") EXCEPT !.pc = "passed"]
<1>1. t \in Threads /\ ThreadInv(t, earned)
  BY DEF RecordPass, At, Busy, IInv, TypeOK
<1>2. Len(t.waves) = Len(t.spec) /\ t.at \in 1..Len(t.spec) /\ t.pc \notin NotBegun
  BY <1>1 DEF RecordPass, At, ThreadInv, PlaceInv, EarnedInv, MarksInv, NotBegun, BetweenWaves, Threads
<1>3. "passed" \in Marks
  BY DEF Marks
<1>4. Earns(t.id, t.spec[t.at], earned)
  BY <1>1, <1>2 DEF RecordPass, At, ThreadInv, EarnedInv
<1>5. Marked(t, "passed") = [t EXCEPT !.waves = [t.waves EXCEPT ![t.at] = "passed"]]
      /\ [t.waves EXCEPT ![t.at] = "passed"] \in Seq(Marks)
  BY <1>1, <1>2, <1>3, Mark
<1>6. /\ u \in Threads /\ u.pc = "passed" /\ u.at = t.at /\ u.id = t.id
      /\ u = [Marked(t, "passed") EXCEPT !.at = u.at, !.pc = u.pc]
  BY <1>1, <1>5 DEF Threads
<1>7. Becomes(r, u) /\ files' = [files EXCEPT ![u.id] = Snapshot(u)] /\ Busy(r)
  BY <1>6 DEF RecordPass, At, Persists
<1>9. u = [t EXCEPT !.waves = [t.waves EXCEPT ![t.at] = "passed"],
                    !.at = u.at, !.pc = u.pc]
  <2> HIDE DEF t
  <2> QED BY <1>1, <1>5 DEF Threads
<1>10. UNCHANGED <<logs, console, past>>
  BY DEF RecordPass
<1> HIDE DEF u
<1>11. Marking(r, "passed", u)
  BY <1>1, <1>2, <1>4, <1>6, <1>7, <1>9, <1>10 DEF Marking, Good, Threads
<1> QED BY <1>6, <1>7, <1>11

LEMMA RecordPassStep == ASSUME IInv, NEW r \in Runners, RecordPass(r) PROVE IInv'
<1>1. "passed" \in Marks
  BY DEF Marks
<1> QED BY <1>1, RecordPassMarks, MarkStep

LEMMA RecordFailMarks ==
  ASSUME IInv, NEW r \in Runners, RecordFail(r)
  PROVE  \E u \in Threads : /\ Marking(r, "failed", u) /\ u.pc = "failed"
                            /\ u.at = runners[r].at
<1> DEFINE t == runners[r]
           u == [Marked(t, "failed") EXCEPT !.pc = "failed"]
<1>1. t \in Threads /\ ThreadInv(t, earned)
  BY DEF RecordFail, At, Busy, IInv, TypeOK
<1>2. Len(t.waves) = Len(t.spec) /\ t.at \in 1..Len(t.spec) /\ t.pc \notin NotBegun
  BY <1>1 DEF RecordFail, At, ThreadInv, PlaceInv, EarnedInv, MarksInv, NotBegun, BetweenWaves, Threads
<1>3. "failed" \in Marks
  BY DEF Marks
<1>4. t.at \in Nat
  BY <1>1, <1>2 DEF RecordFail, Threads
<1>5. Marked(t, "failed") = [t EXCEPT !.waves = [t.waves EXCEPT ![t.at] = "failed"]]
      /\ [t.waves EXCEPT ![t.at] = "failed"] \in Seq(Marks)
  BY <1>1, <1>2, <1>3, Mark
<1>6. /\ u \in Threads /\ u.pc = "failed" /\ u.at = t.at /\ u.id = t.id
      /\ u = [Marked(t, "failed") EXCEPT !.at = u.at, !.pc = u.pc]
  BY <1>1, <1>5 DEF Threads
<1>7. Becomes(r, u) /\ files' = [files EXCEPT ![u.id] = Snapshot(u)] /\ Busy(r)
  BY <1>6 DEF RecordFail, At, Persists
<1>9. u = [t EXCEPT !.waves = [t.waves EXCEPT ![t.at] = "failed"],
                    !.at = u.at, !.pc = u.pc]
  <2> HIDE DEF t
  <2> QED BY <1>1, <1>5 DEF Threads
<1>10. UNCHANGED <<logs, console, past>>
  BY DEF RecordFail
<1> HIDE DEF u
<1>11. Marking(r, "failed", u)
  BY <1>1, <1>2, <1>4, <1>6, <1>7, <1>9, <1>10 DEF Marking, Good, Threads
<1> QED BY <1>6, <1>7, <1>11

LEMMA RecordFailStep == ASSUME IInv, NEW r \in Runners, RecordFail(r) PROVE IInv'
<1>1. "failed" \in Marks
  BY DEF Marks
<1> QED BY <1>1, RecordFailMarks, MarkStep

\* A run that completes has every wave behind it.
LEMMA EndStep == ASSUME IInv, NEW r \in Runners, End(r) PROVE IInv'
<1> DEFINE t == runners[r]
           v == Verdict(r)
           u == [t EXCEPT !.status = v]
<1>1. v \in {"failed", "interrupted", "completed"}
  BY DEF End, Verdict
<1>2. /\ Busy(r) /\ t.pc \in {"failed", "passed", "next"}
      /\ v = "completed" => t.pc = "next" /\ ~(t.at <= Len(t.spec))
  BY DEF End, Verdict, MoreWaves, At
<1> HIDE DEF v
<1>3. t \in Threads /\ ThreadInv(t, earned) /\ t.id \in Ids /\ t.spec \in Specs
  BY <1>2 DEF Busy, IInv, TypeOK, Threads
<1>4. MarksInv(t.id, t.spec, t.waves, earned)
  BY <1>2, <1>3 DEF ThreadInv, EarnedInv, NotBegun
<1>5. v = "completed" => \A k \in 1..Len(t.waves) : t.waves[k] \in Good
  BY <1>2, <1>3, <1>4 DEF ThreadInv, EarnedInv, MarksInv, NotBegun, Threads
<1>6. v \in Statuses
  BY <1>1 DEF Statuses
<1>7. Snapshot(u) \in Files /\ FileInv(t.id, Snapshot(u), earned) /\ u.id = t.id
  BY <1>3, <1>4, <1>5, <1>6, SnapshotIsGood DEF Threads
<1>8. /\ Becomes(r, None) /\ files' = [files EXCEPT ![u.id] = Snapshot(u)]
      /\ UNCHANGED <<logs, console, past>>
  BY DEF End, Persists, v
<1> HIDE DEF u
<1> QED BY <1>3, <1>7, <1>8, Writes DEF console, past

LEMMA RaiseStep == ASSUME IInv, NEW r \in Runners, Raise(r) PROVE IInv'
BY Moves DEF Raise, console, past, IInv, TypeOK

\* No step of a thread breaks the invariant.
LEMMA RunStep == ASSUME IInv, NEW r \in Runners, Run(r) PROVE IInv'
BY LoadStep, FreshStep, SkipStep, EnterStep, MissionStep, MissionEndStep,
   RecordPassStep, RecordFailStep, GoOnStep, EndStep, RaiseStep DEF Run

-----------------------------------------------------------------------------
(***************************************************************************)
(* The steps of the console and of the environment.                        *)
(***************************************************************************)
\* A handler goes on and touches nothing.
LEMMA CallMoves ==
  ASSUME IInv, NEW h \in Handlers, NEW c, calls' = [calls EXCEPT ![h] = c],
         c \in [kind : {"free", "launch", "resume", "restart"},
                id : Ids \cup {None}, start : Nat \ {0}],
         CallInv(c, earned),
         UNCHANGED <<started, files, logs, runners, tracked, past>>
  PROVE  IInv'
<1>1. TypeOK'
  BY DEF IInv, TypeOK, past
<1>2. \A g \in Handlers : CallInv(calls'[g], earned')
  BY DEF IInv, TypeOK, past
<1>3. \A i \in Ids : FileInv(i, files'[i], earned')
  BY DEF IInv, past
<1>4. \A r \in Runners : runners'[r] # None => ThreadInv(runners'[r], earned')
  BY DEF IInv, Busy, past
<1> QED BY <1>1, <1>2, <1>3, <1>4 DEF IInv, Busy

\* A new request, of a run that is listed if it is a resume.
LEMMA AskStep ==
  ASSUME IInv, NEW h \in Handlers, NEW kind \in {"launch", "resume"}, NEW i \in Ids \cup {None},
         kind = "resume" => i \in Ids, Asks(h, kind, i)
  PROVE  IInv'
<1> DEFINE c == [kind |-> kind, id |-> i, start |-> 1]
<1>1. /\ c \in [kind : {"free", "launch", "resume", "restart"},
                id : Ids \cup {None}, start : Nat \ {0}]
      /\ CallInv(c, earned)
  BY DEF CallInv
<1>2. /\ calls' = [calls EXCEPT ![h] = c]
      /\ UNCHANGED <<started, files, logs, runners, tracked, past>>
  BY DEF Asks
<1> HIDE DEF c
<1> QED BY <1>1, <1>2, CallMoves

\* Everything before the first wave that did not pass, passed.
LEMMA ReadStateStep == ASSUME IInv, NEW h \in Handlers, ReadState(h) PROVE IInv'
<1> DEFINE i == calls[h].id
           f == files[i]
           n == Cardinality(UpToUnpassed(f))
           c == [calls[h] EXCEPT !.kind = "restart", !.start = n]
<1>1. /\ calls[h] \in [kind : {"free", "launch", "resume", "restart"},
                       id : Ids \cup {None}, start : Nat \ {0}]
      /\ i \in Ids
  BY DEF ReadState, IInv, TypeOK, CallInv
<1>2. f \in Files /\ FileInv(i, f, earned)
  BY <1>1 DEF IInv, TypeOK
<1>3. n \in Nat \ {0} /\ \A k \in 1..(n - 1) : k \in 1..Len(f.waves) /\ f.waves[k] = "passed"
  BY <1>2, Prefix
<1> HIDE DEF n
<1>4. ASSUME NEW s \in Specs, NEW k \in 1..(n - 1)
      PROVE  Earns(i, s[k], earned)
  <2>1. k \in 1..Len(f.slugs) /\ f.waves[k] \in Good
    BY <1>2, <1>3 DEF FileInv, MarksInv, Good
  <2>2. f.slugs # <<>>
    BY <2>1
  <2>3. OneSpec => f.slugs = s
    BY <1>2, <2>2 DEF FileInv, OneSpec
  <2>4. Earns(i, f.slugs[k], earned)
    BY <1>2, <2>1 DEF FileInv, MarksInv
  <2> QED BY <2>3, <2>4 DEF Earns
<1>5. c.id = i /\ c.kind = "restart" /\ c.start = n
  BY <1>1
<1>6. c \in [kind : {"free", "launch", "resume", "restart"},
             id : Ids \cup {None}, start : Nat \ {0}]
  BY <1>1, <1>3
<1>7. /\ calls' = [calls EXCEPT ![h] = c]
      /\ UNCHANGED <<started, files, logs, runners, tracked, past>>
  <2>1. calls' = [calls EXCEPT ![h].kind = "restart", ![h].start = n]
    BY DEF ReadState, n
  <2>2. DOMAIN calls = Handlers
    BY DEF IInv, TypeOK
  <2> QED BY <2>1, <2>2 DEF ReadState
<1> HIDE DEF c
<1>8. CallInv(c, earned)
  BY <1>1, <1>4, <1>5 DEF CallInv
<1> QED BY <1>6, <1>7, <1>8, CallMoves

\* A thread starts with every wave before its start behind it.
LEMMA StartStep ==
  ASSUME IInv, NEW h \in Handlers, NEW i \in Ids, NEW k \in Nat \ {0}, NEW spec \in Specs,
         k <= Len(spec), \A j \in 1..(k - 1) : Earns(i, spec[j], earned),
         StartThread(h, i, k, spec)
  PROVE  IInv'
<1> DEFINE t == Thread(i, k, spec)
<1>1. PICK r \in Runners : /\ runners' = [runners EXCEPT ![r] = t]
                           /\ tracked' = [tracked EXCEPT ![i] = r]
  BY DEF StartThread, Becomes
<1>2. t \in Threads
  <2>1. <<>> \in Seq(Marks) /\ 1 \in Nat \ {0} /\ 0 \in Nat /\ {} \in SUBSET Waves
    OBVIOUS
  <2> QED BY <2>1 DEF Thread, Threads, Statuses
<1>3. ThreadInv(t, earned)
  <2>1. Len(spec) \in Nat
    OBVIOUS
  <2> QED BY <2>1 DEF Thread, ThreadInv, PlaceInv, EarnedInv, LateInv, NotBegun, BetweenWaves
<1> HIDE DEF t
<1>4. UNCHANGED <<files, logs, earned>> /\ calls' = [calls EXCEPT ![h] = Free]
  BY DEF StartThread
<1>5. TypeOK'
  <2>1. started' \in Nat /\ disturbed' \in SUBSET Ids
    BY DEF StartThread, IInv, TypeOK
  <2>2. calls' \in [Handlers -> [kind : {"free", "launch", "resume", "restart"},
                                 id : Ids \cup {None}, start : Nat \ {0}]]
    BY <1>4 DEF IInv, TypeOK, Free
  <2>3. runners' \in [Runners -> Threads \cup {None}] /\ tracked' \in [Ids -> Runners \cup {None}]
    BY <1>1, <1>2 DEF IInv, TypeOK
  <2> QED BY <1>4, <2>1, <2>2, <2>3 DEF IInv, TypeOK
<1>6. \A g \in Handlers : CallInv(calls'[g], earned')
  BY <1>4 DEF IInv, TypeOK, CallInv, Free
<1>7. \A j \in Ids : FileInv(j, files'[j], earned')
  BY <1>4 DEF IInv
<1>8. \A q \in Runners : runners'[q] # None => ThreadInv(runners'[q], earned')
  <2>1. \A q \in Runners : runners'[q] = IF q = r THEN t ELSE runners[q]
    BY <1>1 DEF IInv, TypeOK
  <2> QED BY <1>3, <1>4, <2>1 DEF IInv, Busy
<1> QED BY <1>5, <1>6, <1>7, <1>8 DEF IInv, Busy

LEMMA LaunchStep ==
  ASSUME IInv, NEW h \in Handlers, NEW i \in Ids, NEW spec \in Specs, Launch(h, i, spec)
  PROVE  IInv'
<1>1. 1 <= Len(spec)
  OBVIOUS
<1> QED BY <1>1, StartStep DEF Launch

LEMMA RestartStep ==
  ASSUME IInv, NEW h \in Handlers, NEW spec \in Specs, Restart(h, spec)
  PROVE  IInv'
<1> DEFINE i == calls[h].id
           k == calls[h].start
           n == IF k > Len(spec) THEN Len(spec) ELSE k
<1>1. i \in Ids /\ k \in Nat \ {0} /\ Len(spec) \in Nat \ {0}
  BY DEF Restart, IInv, TypeOK, CallInv
<1>2. \A j \in 1..(k - 1) : j <= Len(spec) => Earns(i, spec[j], earned)
  BY DEF Restart, IInv, CallInv
<1>3. n \in Nat \ {0} /\ n <= Len(spec) /\ n <= k
  BY <1>1
<1>4. StartThread(h, i, n, spec)
  BY DEF Restart
<1> HIDE DEF n
<1>5. \A j \in 1..(n - 1) : Earns(i, spec[j], earned)
  BY <1>1, <1>2, <1>3
<1> QED BY <1>1, <1>3, <1>4, <1>5, StartStep

\* No step of a handler breaks the invariant.
LEMMA HandleStep == ASSUME IInv, NEW h \in Handlers, Handle(h) PROVE IInv'
<1>1. CASE AskLaunch(h) \/ AskSchedule(h)
  BY <1>1, AskStep DEF AskLaunch, AskSchedule
<1>2. CASE \E i \in Ids : AskResume(h, i)
  BY <1>2, AskStep DEF AskResume
<1> QED BY <1>1, <1>2, ReadStateStep, LaunchStep, RestartStep DEF Handle

LEMMA InterruptStep == ASSUME IInv, NEW i \in Ids, Interrupt(i) PROVE IInv'
<1> DEFINE r == tracked[i]
           t == runners[r]
           u == [t EXCEPT !.stop = TRUE]
<1>1. r \in Runners /\ t \in Threads /\ ThreadInv(t, earned)
  BY DEF Interrupt, IsAlive, Works, Busy, IInv, TypeOK
<1>2. u \in Threads
  BY <1>1 DEF Threads
<1>3. ThreadInv(u, earned)
  BY <1>1 DEF ThreadInv, PlaceInv, EarnedInv, LateInv, Threads
<1> QED BY <1>1, <1>2, <1>3, Moves DEF Interrupt, console, past, IInv, TypeOK

LEMMA DeleteRunStep == ASSUME IInv, NEW w \in Waves, DeleteRun(w) PROVE IInv'
<1>1. TypeOK'
  BY DEF DeleteRun, console, IInv, TypeOK
<1> QED BY <1>1 DEF DeleteRun, console, IInv, Busy

LEMMA CrashStep == ASSUME IInv, Crash PROVE IInv'
<1>1. disturbed' \in SUBSET Ids
  BY DEF Crash, IInv, TypeOK, Threads, Busy
<1>2. TypeOK'
  BY <1>1 DEF Crash, IInv, TypeOK, Free
<1>3. /\ \A i \in Ids : FileInv(i, files'[i], earned')
      /\ \A r \in Runners : runners'[r] = None
  BY DEF Crash, IInv
<1>4. \A h \in Handlers : CallInv(calls'[h], earned')
  BY DEF Crash, CallInv, Free
<1> QED BY <1>2, <1>3, <1>4 DEF IInv, Busy

-----------------------------------------------------------------------------
\* The first state is a good one.
LEMMA InitInv == Init => IInv
<1> SUFFICES ASSUME Init PROVE IInv
  OBVIOUS
<1>1. NoFile \in Files /\ Free \in [kind : {"free", "launch", "resume", "restart"},
                                    id : Ids \cup {None}, start : Nat \ {0}]
  <2>1. <<>> \in Seq(STRING) /\ <<>> \in Seq(Marks)
    OBVIOUS
  <2> QED BY <2>1 DEF NoFile, Free, Files, Statuses
<1>2. TypeOK
  BY <1>1 DEF Init, TypeOK
<1>3. \A i \in Ids : FileInv(i, files[i], earned)
  BY DEF Init, NoFile, FileInv, MarksInv
<1>4. \A h \in Handlers : CallInv(calls[h], earned)
  BY DEF Init, Free, CallInv
<1> QED BY <1>2, <1>3, <1>4 DEF Init, IInv, Busy

\* Every step of threads, requests, interrupts, deletions and crashes keeps
\* the inductive invariant of factory runs.
THEOREM Invariance == Spec => []IInv
<1>1. IInv /\ [Next]_vars => IInv'
  <2> SUFFICES ASSUME IInv, [Next]_vars PROVE IInv'
    OBVIOUS
  <2>1. CASE UNCHANGED vars
    BY <2>1 DEF vars, IInv, TypeOK, Busy
  <2>2. CASE Next
    BY <2>2, RunStep, HandleStep, InterruptStep, DeleteRunStep, CrashStep DEF Next
  <2> QED BY <2>1, <2>2
<1> QED BY InitInv, <1>1, PTL DEF Spec

\* Every variable of the factory has its type.
THEOREM TypeCorrect == Spec => []TypeOK
<1>1. IInv => TypeOK
  BY DEF IInv
<1> QED BY <1>1, Invariance, PTL

\* interrupt_factory stops a run after at most one more mission, whatever else
\* the console, the scheduler and the spec's editor do.
THEOREM StopsWithinAWave == Spec => []InterruptStops
<1>1. IInv => InterruptStops
  BY DEF IInv, InterruptStops, ThreadInv, LateInv
<1> QED BY <1>1, Invariance, PTL

\* While the spec is not edited, a wave state.json calls passed or skipped did
\* pass in that run, and a completed run left out none.
THEOREM EarnedState == OneSpec => (Spec => []StateIsEarned)
<1> SUFFICES ASSUME OneSpec PROVE Spec => []StateIsEarned
  OBVIOUS
<1>1. IInv => StateIsEarned
  BY DEF IInv, FileInv, MarksInv, Earns, Good, StateIsEarned
<1> QED BY <1>1, Invariance, PTL

\* While the spec is not edited, a wave runs only after every wave before it
\* has passed in that run.
THEOREM WavesInOrder == OneSpec => (Spec => []WaveAfterWave)
<1> SUFFICES ASSUME OneSpec PROVE Spec => []WaveAfterWave
  OBVIOUS
<1>1. IInv => WaveAfterWave
  <2> SUFFICES ASSUME IInv, NEW r \in Runners, At(r, "mission"),
                      NEW k \in 1..(runners[r].at - 1)
               PROVE  <<runners[r].id, runners[r].spec[k]>> \in earned
    BY DEF WaveAfterWave
  <2> DEFINE t == runners[r]
  <2>1. t \in Threads /\ ThreadInv(t, earned) /\ t.pc = "mission"
    BY DEF At, Busy, IInv, TypeOK
  <2>2. k \in 1..Len(t.spec) /\ t.waves[k] \in Good
    BY <2>1 DEF ThreadInv, PlaceInv, EarnedInv, NotBegun, BetweenWaves, Threads
  <2>3. Earns(t.id, t.spec[k], earned)
    BY <2>1, <2>2 DEF ThreadInv, EarnedInv, MarksInv, NotBegun
  <2> QED BY <2>3 DEF Earns
<1> QED BY <1>1, Invariance, PTL

-----------------------------------------------------------------------------
(***************************************************************************)
(* A wave that passed is not bought again.  While nothing disturbs a run,  *)
(* it has one thread, every wave it earned has its log, and is known where *)
(* the run goes on from: in state.json before a thread has read it, in the *)
(* thread's prior waves or behind its place afterwards.                    *)
(***************************************************************************)
Knows(i, S, E) == \A w \in Waves : <<i, w>> \in E => w \in S
Behind(t, n) == {t.spec[k] : k \in 1..n}

\* What an undisturbed thread knows to be earned in E, its file being f.
KnowsInv(t, f, L, E) ==
  /\ t.pc = "load" => Knows(t.id, PassedIn(f), E)
  /\ t.pc = "fresh" => Knows(t.id, t.prior, E)
  /\ t.pc = "next" => Knows(t.id, t.prior \cup Behind(t, t.at - 1), E)
  /\ t.pc \in {"wave", "mission", "fail", "failed"} => Knows(t.id, Behind(t, t.at - 1), E)
  /\ t.pc \in {"pass", "passed"} => Knows(t.id, Behind(t, t.at), E)
  /\ t.pc = "mission" => t.spec[t.at] \in L
  /\ t.pc \notin NotBegun => f = Snapshot(t)

Quiet(i) ==
  /\ Knows(i, logs, earned)
  /\ \A q, r \in Works(i) : q = r
  /\ Works(i) = {} => Knows(i, PassedIn(files[i]), earned)
  /\ \A r \in Works(i) : KnowsInv(runners[r], files[i], logs, earned)

\* Waves are earned in their order.
Ordered(E) ==
  \A i \in Ids, s \in Specs : \A k \in 1..Len(s) :
    <<i, s[k]>> \in E => \A j \in 1..(k - 1) : <<i, s[j]>> \in E

QuietInv == Ordered(earned) /\ \A i \in Ids \ disturbed : Quiet(i)

\* What an undisturbed thread has to itself.
LEMMA QuietThread ==
  ASSUME IInv, QuietInv, NEW r \in Runners, Busy(r), runners[r].id \notin disturbed
  PROVE  /\ runners[r].id \in Ids /\ Works(runners[r].id) = {r}
         /\ Knows(runners[r].id, logs, earned)
         /\ KnowsInv(runners[r], files[runners[r].id], logs, earned)
<1>1. runners[r].id \in Ids
  BY DEF IInv, TypeOK, Busy, Threads
<1>2. r \in Works(runners[r].id)
  BY DEF Works
<1> QED BY <1>1, <1>2 DEF QuietInv, Quiet

\* A thread moves on, or ends, and disturbs nobody.
LEMMA QuietMoves ==
  ASSUME IInv, QuietInv, NEW r \in Runners, Busy(r), NEW i, i = runners[r].id,
         NEW u \in Threads \cup {None}, Becomes(r, u), u # None => u.id = i,
         \A j \in Ids : j # i => files'[j] = files[j],
         logs \subseteq logs', disturbed' = disturbed, Ordered(earned'),
         \A j \in Ids, w \in Waves : j # i /\ <<j, w>> \in earned' => <<j, w>> \in earned,
         i \notin disturbed =>
           /\ Knows(i, logs', earned')
           /\ u # None => KnowsInv(u, files'[i], logs', earned')
           /\ u = None => Knows(i, PassedIn(files'[i]), earned')
  PROVE  QuietInv'
<1>1. \A q \in Runners : runners'[q] = IF q = r THEN u ELSE runners[q]
  BY DEF Becomes, IInv, TypeOK
<1>2. ASSUME NEW j \in Ids, j \notin disturbed, j # i
      PROVE  Quiet(j)'
  <2>1. Works(j)' = Works(j)
    BY <1>1, <1>2 DEF Works, Busy
  <2>2. files'[j] = files[j] /\ \A q \in Works(j) : runners'[q] = runners[q] /\ runners[q].id = j
    BY <1>1, <1>2 DEF Works
  <2>3. /\ Knows(j, logs, earned)
        /\ \A q, p \in Works(j) : q = p
        /\ Works(j) = {} => Knows(j, PassedIn(files[j]), earned)
        /\ \A q \in Works(j) : KnowsInv(runners[q], files[j], logs, earned)
    BY <1>2 DEF QuietInv, Quiet
  <2>4. \A S : Knows(j, S, earned) => Knows(j, S, earned')
    BY <1>2 DEF Knows
  <2>5. Knows(j, logs', earned')
    BY <2>3, <2>4 DEF Knows
  <2>6. \A q \in Works(j) : KnowsInv(runners[q], files[j], logs', earned')
    <3> SUFFICES ASSUME NEW q \in Works(j)
                 PROVE  KnowsInv(runners[q], files[j], logs', earned')
      OBVIOUS
    <3>1. runners[q].id = j /\ KnowsInv(runners[q], files[j], logs, earned)
      BY <2>2, <2>3
    <3> QED BY <2>4, <3>1, Zenon DEF KnowsInv
  <2>7. Works(j) = {} => Knows(j, PassedIn(files[j]), earned')
    BY <2>3, <2>4
  <2>8. PassedIn(files[j])' = PassedIn(files'[j])
    BY DEF PassedIn
  <2>9. Works(j)' = {} => Knows(j, PassedIn(files'[j]), earned')
    BY <2>1, <2>2, <2>7
  <2>10. \A q \in Works(j)' : KnowsInv(runners'[q], files'[j], logs', earned')
    BY <2>1, <2>2, <2>6
  <2>11. \A q, p \in Works(j)' : q = p
    BY <2>1, <2>3
  <2> QED BY <2>5, <2>9, <2>10, <2>11 DEF Quiet
<1>3. ASSUME i \in Ids \ disturbed
      PROVE  Quiet(i)'
  <2>1. Works(i) = {r}
    BY <1>3, QuietThread
  <2>2. Works(i)' = IF u = None THEN {} ELSE {r}
    BY <1>1, <2>1 DEF Works, Busy
  <2>3. runners'[r] = u
    BY <1>1
  <2>4. Knows(i, logs', earned')
    BY <1>3
  <2>5. \A q, p \in Works(i)' : q = p
    BY <2>2
  <2>6. Works(i)' = {} => Knows(i, PassedIn(files'[i]), earned')
    BY <1>3, <2>2
  <2>7. \A q \in Works(i)' : KnowsInv(runners'[q], files'[i], logs', earned')
    BY <1>3, <2>2, <2>3
  <2> QED BY <2>4, <2>5, <2>6, <2>7 DEF Quiet
<1> QED BY <1>2, <1>3 DEF QuietInv

\* The waves behind a thread are called passed or skipped where it wrote.
LEMMA BehindIsPassed ==
  ASSUME NEW t \in Threads, ThreadInv(t, earned), t.pc \notin NotBegun,
         NEW f, f.slugs = t.spec, f.waves = t.waves
  PROVE  /\ \A w \in Behind(t, t.at - 1) : w \in PassedIn(f)
         /\ t.pc = "passed" => \A w \in Behind(t, t.at) : w \in PassedIn(f)
<1>1. /\ Len(t.waves) = Len(t.spec) /\ t.at <= Len(t.spec) + 1
      /\ \A k \in 1..(t.at - 1) : t.waves[k] \in Good
  BY DEF ThreadInv, PlaceInv, EarnedInv, MarksInv
<1>2. t.pc = "passed" => t.at <= Len(t.spec) /\ t.waves[t.at] \in Good
  BY DEF ThreadInv, PlaceInv, EarnedInv, NotBegun, BetweenWaves, Good
<1>3. t.at \in Nat \ {0} /\ Len(t.spec) \in Nat
  BY DEF Threads
<1>4. \A k \in 1..Len(t.spec) : t.waves[k] \in Good => t.spec[k] \in PassedIn(f)
  BY <1>1 DEF PassedIn, Good
<1>5. \A k \in 1..(t.at - 1) : k \in 1..Len(t.spec)
  BY <1>1, <1>3
<1>6. t.pc = "passed" => \A k \in 1..t.at : k \in 1..Len(t.spec) /\ t.waves[k] \in Good
  <2> SUFFICES ASSUME t.pc = "passed", NEW k \in 1..t.at
               PROVE  k \in 1..Len(t.spec) /\ t.waves[k] \in Good
    OBVIOUS
  <2>1. k = t.at \/ k \in 1..(t.at - 1)
    BY <1>3
  <2> QED BY <2>1, <1>1, <1>2, <1>3
<1> QED BY <1>1, <1>4, <1>5, <1>6 DEF Behind

\* With one spec, an unearned wave has nothing earned ahead of it.
LEMMA Unearned ==
  ASSUME IInv, QuietInv, OneSpec, NEW r \in Runners, Busy(r),
         runners[r].at <= Len(runners[r].spec),
         <<runners[r].id, runners[r].spec[runners[r].at]>> \notin earned
  PROVE  Knows(runners[r].id, Behind(runners[r], runners[r].at - 1), earned)
<1> DEFINE t == runners[r]
<1>1. t.id \in Ids /\ t.spec \in Specs /\ t.at \in Nat \ {0} /\ Len(t.spec) \in Nat
  BY DEF Busy, IInv, TypeOK, Threads
<1> SUFFICES ASSUME NEW w \in Waves, <<t.id, w>> \in earned
             PROVE  w \in Behind(t, t.at - 1)
  BY DEF Knows
<1>2. PICK m \in 1..Len(t.spec) : w = t.spec[m]
  BY <1>1 DEF Waves, OneSpec
<1>3. CASE m < t.at
  BY <1>1, <1>2, <1>3 DEF Behind
<1>4. CASE m = t.at
  BY <1>2, <1>4
<1>5. CASE m > t.at
  <2>1. t.at \in 1..(m - 1)
    BY <1>1, <1>5
  <2> QED BY <1>1, <1>2, <2>1 DEF QuietInv, Ordered
<1> QED BY <1>1, <1>3, <1>4, <1>5

-----------------------------------------------------------------------------
LEMMA LoadQuiet ==
  ASSUME IInv, QuietInv, NEW r \in Runners, Load(r) PROVE QuietInv'
<1> DEFINE t == runners[r]
           u == [t EXCEPT !.prior = PassedIn(files[t.id]), !.pc = "fresh"]
<1>1. Busy(r) /\ t.pc = "load" /\ t \in Threads /\ t.id \in Ids
  BY DEF Load, At, Busy, IInv, TypeOK, Threads
<1>2. PassedIn(files[t.id]) \in SUBSET Waves
  <2>1. files[t.id] \in Files /\ FileInv(t.id, files[t.id], earned)
    BY <1>1 DEF IInv, TypeOK
  <2> QED BY <2>1 DEF PassedIn, FileInv, MarksInv, Waves, Files
<1>3. u \in Threads /\ u.id = t.id /\ u.pc = "fresh" /\ u.prior = PassedIn(files[t.id])
  BY <1>1, <1>2 DEF Threads
<1>4. t.id \notin disturbed => /\ Knows(t.id, logs, earned)
                               /\ Knows(t.id, PassedIn(files[t.id]), earned)
  BY <1>1, QuietThread DEF KnowsInv
<1>5. /\ Becomes(r, u)
      /\ UNCHANGED <<files, logs, earned, disturbed>>
  BY DEF Load, past
<1>6. Ordered(earned) /\ Ordered(earned')
  BY <1>5 DEF QuietInv
<1> HIDE DEF u
<1>7. t.id \notin disturbed => KnowsInv(u, files'[t.id], logs', earned')
  BY <1>3, <1>4, <1>5 DEF KnowsInv, NotBegun
<1>8. u # None
  BY <1>3, NoThread
<1> QED BY <1>1, <1>3, <1>4, <1>5, <1>6, <1>7, <1>8, QuietMoves

LEMMA FreshQuiet ==
  ASSUME IInv, QuietInv, NEW r \in Runners, Fresh(r) PROVE QuietInv'
<1> DEFINE t == runners[r]
           w == [k \in 1..Len(t.spec) |-> "pending"]
           u == [t EXCEPT !.waves = w, !.status = "running", !.pc = "next"]
<1>1. Busy(r) /\ t.pc = "fresh" /\ t \in Threads /\ t.id \in Ids
  BY DEF Fresh, At, Busy, IInv, TypeOK, Threads
<1>2. w \in Seq(Marks)
  BY <1>1 DEF Threads, Marks
<1>3. u \in Threads /\ u.id = t.id /\ u.pc = "next" /\ u.prior = t.prior /\ u.at = t.at
  BY <1>1, <1>2 DEF Threads, Statuses
<1>4. t.id \notin disturbed => Knows(t.id, logs, earned) /\ Knows(t.id, t.prior, earned)
  BY <1>1, QuietThread DEF KnowsInv
<1>5. /\ Becomes(r, u) /\ files' = [files EXCEPT ![u.id] = Snapshot(u)]
      /\ UNCHANGED <<logs, earned, disturbed>>
  BY DEF Fresh, Persists, past
<1>6. Ordered(earned) /\ Ordered(earned')
  BY <1>5 DEF QuietInv
<1> HIDE DEF u
<1>7. /\ \A j \in Ids : j # t.id => files'[j] = files[j]
      /\ files'[t.id] = Snapshot(u)
  BY <1>1, <1>3, <1>5 DEF IInv, TypeOK
<1>8. t.id \notin disturbed => KnowsInv(u, files'[t.id], logs', earned')
  BY <1>3, <1>4, <1>5, <1>7 DEF KnowsInv, Knows
<1>9. u # None
  BY <1>3, NoThread
<1> QED BY <1>1, <1>3, <1>4, <1>5, <1>6, <1>7, <1>8, <1>9, QuietMoves

LEMMA GoOnQuiet ==
  ASSUME IInv, QuietInv, NEW r \in Runners, GoOn(r) PROVE QuietInv'
<1> DEFINE t == runners[r]
           u == [t EXCEPT !.at = @ + 1, !.pc = "next"]
<1>1. Busy(r) /\ t.pc = "passed" /\ t \in Threads /\ t.id \in Ids /\ t.at \in Nat \ {0}
  BY DEF GoOn, MayGoOn, At, Busy, IInv, TypeOK, Threads
<1>2. t.at + 1 \in Nat \ {0} /\ (t.at + 1) - 1 = t.at
  BY <1>1
<1>3. /\ u \in Threads /\ u.id = t.id /\ u.pc = "next" /\ u.at = t.at + 1
      /\ u.spec = t.spec /\ Snapshot(u) = Snapshot(t)
  BY <1>1, <1>2 DEF Threads, Snapshot
<1>4. t.id \notin disturbed => /\ Knows(t.id, logs, earned)
                               /\ Knows(t.id, Behind(t, t.at), earned)
                               /\ files[t.id] = Snapshot(t)
  BY <1>1, QuietThread DEF KnowsInv, NotBegun
<1>5. Becomes(r, u) /\ UNCHANGED <<files, logs, earned, disturbed>>
  BY DEF GoOn, past
<1>6. Ordered(earned) /\ Ordered(earned')
  BY <1>5 DEF QuietInv
<1> HIDE DEF u
<1>7. Behind(u, u.at - 1) = Behind(t, t.at)
  BY <1>2, <1>3 DEF Behind
<1>8. t.id \notin disturbed => KnowsInv(u, files'[t.id], logs', earned')
  BY <1>3, <1>4, <1>5, <1>7 DEF KnowsInv, Knows
<1>9. u # None
  BY <1>3, NoThread
<1> QED BY <1>1, <1>3, <1>4, <1>5, <1>6, <1>8, <1>9, QuietMoves

LEMMA StartMissionQuiet ==
  ASSUME IInv, QuietInv, NEW r \in Runners, StartMission(r) PROVE QuietInv'
<1> DEFINE t == runners[r]
           u == [t EXCEPT !.pc = "mission", !.late = IF t.stop THEN @ + 1 ELSE @]
<1>1. Busy(r) /\ t.pc = "wave" /\ t \in Threads /\ t.id \in Ids
  BY DEF StartMission, At, Busy, IInv, TypeOK, Threads
<1>2. t.late \in Nat /\ t.late + 1 \in Nat
  BY <1>1 DEF Threads
<1>3. /\ u \in Threads /\ u.id = t.id /\ u.pc = "mission" /\ u.at = t.at
      /\ u.spec = t.spec /\ Snapshot(u) = Snapshot(t)
  BY <1>1, <1>2 DEF Threads, Snapshot
<1>4. t.id \notin disturbed => /\ Knows(t.id, logs, earned)
                               /\ Knows(t.id, Behind(t, t.at - 1), earned)
                               /\ files[t.id] = Snapshot(t)
  BY <1>1, QuietThread DEF KnowsInv, NotBegun
<1>5. /\ Becomes(r, u) /\ UNCHANGED <<files, earned, disturbed>>
      /\ logs' = logs \cup {t.spec[t.at]}
  BY DEF StartMission, past
<1>6. Ordered(earned) /\ Ordered(earned')
  BY <1>5 DEF QuietInv
<1> HIDE DEF u
<1>7. Behind(u, u.at - 1) = Behind(t, t.at - 1)
  BY <1>3 DEF Behind
<1>8. t.id \notin disturbed =>
        Knows(t.id, logs', earned') /\ KnowsInv(u, files'[t.id], logs', earned')
  BY <1>3, <1>4, <1>5, <1>7 DEF KnowsInv, Knows
<1>9. u # None
  BY <1>3, NoThread
<1> QED BY <1>1, <1>3, <1>4, <1>5, <1>6, <1>8, <1>9, QuietMoves

\* A wave is earned when those ahead of it in the spec have been.
LEMMA EndMissionQuiet ==
  ASSUME IInv, QuietInv, OneSpec, NEW r \in Runners, NEW ok \in BOOLEAN, EndMission(r, ok)
  PROVE  QuietInv'
<1> DEFINE t == runners[r]
           u == [t EXCEPT !.pc = IF ok THEN "pass" ELSE "fail"]
<1>1. /\ Busy(r) /\ t.pc = "mission" /\ t \in Threads /\ t.id \in Ids
      /\ t.at \in Nat \ {0} /\ t.spec \in Specs /\ ThreadInv(t, earned)
  BY DEF EndMission, At, Busy, IInv, TypeOK, Threads
<1>2. t.at \in 1..Len(t.spec)
  BY <1>1 DEF ThreadInv, PlaceInv, NotBegun, BetweenWaves
<1>3. /\ u \in Threads /\ u.id = t.id /\ u.pc = (IF ok THEN "pass" ELSE "fail")
      /\ u.at = t.at /\ u.spec = t.spec /\ Snapshot(u) = Snapshot(t)
  BY <1>1 DEF Threads, Snapshot
<1>4. t.id \notin disturbed => /\ Knows(t.id, logs, earned)
                               /\ Knows(t.id, Behind(t, t.at - 1), earned)
                               /\ t.spec[t.at] \in logs
                               /\ files[t.id] = Snapshot(t)
  BY <1>1, QuietThread DEF KnowsInv, NotBegun
<1>5. /\ Becomes(r, u) /\ UNCHANGED <<files, logs, disturbed>>
      /\ earned' = IF ok THEN earned \cup {<<t.id, t.spec[t.at]>>} ELSE earned
  BY DEF EndMission
<1>6. Ordered(earned')
  <2>1. \A k \in 1..(t.at - 1) : <<t.id, t.spec[k]>> \in earned
    BY <1>1, <1>2 DEF ThreadInv, EarnedInv, MarksInv, NotBegun, Earns, Threads
  <2> SUFFICES ASSUME NEW i \in Ids, NEW s \in Specs, NEW k \in 1..Len(s),
                      <<i, s[k]>> \in earned', NEW j \in 1..(k - 1)
               PROVE  <<i, s[j]>> \in earned
    BY <1>5 DEF Ordered
  <2>2. CASE <<i, s[k]>> \in earned
    BY <2>2 DEF QuietInv, Ordered
  <2>3. CASE <<i, s[k]>> = <<t.id, t.spec[t.at]>>
    <3>1. i = t.id /\ s = t.spec /\ s[k] = s[t.at]
      BY <1>1, <2>3 DEF OneSpec
    <3>2. k = t.at
      BY <1>2, <3>1
    <3> QED BY <2>1, <3>1, <3>2
  <2> QED BY <1>5, <2>2, <2>3
<1> HIDE DEF u
<1>7. Behind(u, u.at - 1) = Behind(t, t.at - 1) /\ Behind(u, u.at) = Behind(t, t.at)
  BY <1>3 DEF Behind
<1>8. \A w \in Behind(t, t.at - 1) \cup {t.spec[t.at]} : w \in Behind(t, t.at)
  BY <1>1 DEF Behind
<1>9. t.id \notin disturbed =>
        Knows(t.id, logs', earned') /\ KnowsInv(u, files'[t.id], logs', earned')
  <2> SUFFICES ASSUME t.id \notin disturbed
               PROVE  Knows(t.id, logs', earned') /\ KnowsInv(u, files'[t.id], logs', earned')
    OBVIOUS
  <2>1. Knows(t.id, logs', earned')
    BY <1>4, <1>5 DEF Knows
  <2>2. CASE ok
    <3>1. Knows(u.id, Behind(u, u.at), earned')
      BY <1>3, <1>4, <1>5, <1>7, <1>8, <2>2 DEF Knows
    <3> QED BY <1>3, <1>4, <1>5, <2>1, <2>2, <3>1 DEF KnowsInv
  <2>3. CASE ~ok
    <3>1. Knows(u.id, Behind(u, u.at - 1), earned')
      BY <1>3, <1>4, <1>5, <1>7, <2>3 DEF Knows
    <3> QED BY <1>3, <1>4, <1>5, <2>1, <2>3, <3>1 DEF KnowsInv
  <2> QED BY <2>2, <2>3, <2>1
<1>10. u # None
  BY <1>3, NoThread
<1>11. \A j \in Ids, w \in Waves : j # t.id /\ <<j, w>> \in earned' => <<j, w>> \in earned
  BY <1>5
<1> QED BY <1>1, <1>3, <1>5, <1>6, <1>9, <1>10, <1>11, QuietMoves

\* A thread that marks its wave knows on what it knew.
LEMMA MarkQuiet ==
  ASSUME IInv, QuietInv, NEW r \in Runners, NEW m \in Marks, NEW u \in Threads,
         Marking(r, m, u), NEW i, i = runners[r].id,
         i \notin disturbed =>
           /\ u.pc = "next" => Knows(i, runners[r].prior \cup Behind(runners[r], u.at - 1), earned)
           /\ u.pc \in {"wave", "failed"} => Knows(i, Behind(runners[r], u.at - 1), earned)
           /\ u.pc = "passed" => Knows(i, Behind(runners[r], u.at), earned)
  PROVE  QuietInv'
<1> DEFINE t == runners[r]
           w == [t.waves EXCEPT ![t.at] = m]
<1>1. Busy(r) /\ t \in Threads /\ i \in Ids
  BY DEF Marking, Busy, IInv, TypeOK, Threads
<1>2. /\ u = [t EXCEPT !.waves = w, !.at = u.at, !.pc = u.pc]
      /\ u.pc \in {"next", "wave", "passed", "failed"}
      /\ Becomes(r, u) /\ files' = [files EXCEPT ![u.id] = Snapshot(u)]
      /\ UNCHANGED <<logs, earned, disturbed>>
  BY DEF Marking, past
<1>3. u.id = i /\ u.spec = t.spec /\ u.prior = t.prior
  <2> HIDE DEF t, w
  <2>1. i = t.id
    BY DEF t
  <2> QED BY <1>1, <1>2, <2>1 DEF Threads
<1>4. /\ \A j \in Ids : j # i => files'[j] = files[j]
      /\ files'[i] = Snapshot(u)
  BY <1>1, <1>2, <1>3 DEF IInv, TypeOK
<1>5. Ordered(earned) /\ Ordered(earned')
  BY <1>2 DEF QuietInv
<1>6. \A n : Behind(u, n) = Behind(t, n)
  BY <1>3 DEF Behind
<1>7. i \notin disturbed => Knows(i, logs, earned)
  BY <1>1, QuietThread
<1>8. i \notin disturbed => KnowsInv(u, files'[i], logs', earned')
  BY <1>2, <1>3, <1>4, <1>6 DEF KnowsInv
<1>9. u # None
  BY NoThread
<1> QED BY <1>1, <1>2, <1>3, <1>4, <1>5, <1>7, <1>8, <1>9, QuietMoves

LEMMA SkipQuiet ==
  ASSUME IInv, QuietInv, NEW r \in Runners, Skip(r) PROVE QuietInv'
<1> DEFINE t == runners[r]
<1>1. PICK u \in Threads : Marking(r, "skipped", u) /\ u.pc = "next" /\ u.at = t.at + 1
  BY SkipMarks
<1>2. Busy(r) /\ t.pc = "next" /\ t.at \in Nat \ {0} /\ "skipped" \in Marks
  BY DEF Skip, MoreWaves, At, Busy, IInv, TypeOK, Threads, Marks
<1>3. t.id \notin disturbed => Knows(t.id, t.prior \cup Behind(t, t.at - 1), earned)
  BY <1>2, QuietThread DEF KnowsInv
<1>4. \A w \in Behind(t, t.at - 1) : w \in Behind(t, u.at - 1)
  BY <1>1, <1>2 DEF Behind
<1>5. t.id \notin disturbed => Knows(t.id, t.prior \cup Behind(t, u.at - 1), earned)
  BY <1>3, <1>4 DEF Knows
<1> QED BY <1>1, <1>2, <1>5, MarkQuiet

\* A wave is entered only if it is not earned: it would be known, and its log
\* would be there.
LEMMA EnterQuiet ==
  ASSUME IInv, QuietInv, OneSpec, NEW r \in Runners, Enter(r) PROVE QuietInv'
<1> DEFINE t == runners[r]
<1>1. PICK u \in Threads : Marking(r, "running", u) /\ u.pc = "wave" /\ u.at = t.at
  BY EnterMarks
<1>2. /\ Busy(r) /\ t.pc = "next" /\ t.at \in Nat \ {0} /\ "running" \in Marks
      /\ t.at <= Len(t.spec) /\ t.spec \in Specs /\ ~PassedBefore(t)
  BY DEF Enter, MoreWaves, Skips, At, Busy, IInv, TypeOK, Threads, Marks
<1>3. ASSUME t.id \notin disturbed
      PROVE  <<t.id, t.spec[t.at]>> \notin earned
  <2>1. /\ Knows(t.id, t.prior \cup Behind(t, t.at - 1), earned)
        /\ Knows(t.id, logs, earned)
    BY <1>2, <1>3, QuietThread DEF KnowsInv
  <2>2. t.at \in 1..Len(t.spec)
    BY <1>2
  <2>3. t.spec[t.at] \in Waves
    BY <1>2, <2>2 DEF Waves
  <2>4. ASSUME NEW k \in 1..(t.at - 1)
        PROVE  t.spec[k] # t.spec[t.at]
    <3>1. k \in 1..Len(t.spec) /\ k # t.at
      BY <1>2
    <3> QED BY <1>2, <2>2, <3>1
  <2> QED BY <1>2, <2>1, <2>3, <2>4 DEF Knows, PassedBefore, Behind
<1>4. t.id \notin disturbed => Knows(t.id, Behind(t, t.at - 1), earned)
  BY <1>2, <1>3, Unearned
<1> QED BY <1>1, <1>2, <1>4, MarkQuiet

LEMMA RecordPassQuiet ==
  ASSUME IInv, QuietInv, NEW r \in Runners, RecordPass(r) PROVE QuietInv'
<1> DEFINE t == runners[r]
<1>1. PICK u \in Threads : Marking(r, "passed", u) /\ u.pc = "passed" /\ u.at = t.at
  BY RecordPassMarks
<1>2. Busy(r) /\ t.pc = "pass" /\ "passed" \in Marks
  BY DEF RecordPass, At, Marks
<1>3. t.id \notin disturbed => Knows(t.id, Behind(t, t.at), earned)
  BY <1>2, QuietThread DEF KnowsInv
<1> QED BY <1>1, <1>2, <1>3, MarkQuiet

LEMMA RecordFailQuiet ==
  ASSUME IInv, QuietInv, NEW r \in Runners, RecordFail(r) PROVE QuietInv'
<1> DEFINE t == runners[r]
<1>1. PICK u \in Threads : Marking(r, "failed", u) /\ u.pc = "failed" /\ u.at = t.at
  BY RecordFailMarks
<1>2. Busy(r) /\ t.pc = "fail" /\ "failed" \in Marks
  BY DEF RecordFail, At, Marks
<1>3. t.id \notin disturbed => Knows(t.id, Behind(t, t.at - 1), earned)
  BY <1>2, QuietThread DEF KnowsInv
<1> QED BY <1>1, <1>2, <1>3, MarkQuiet

\* A run that ends has what it earned in its last state.json.
LEMMA EndQuiet ==
  ASSUME IInv, QuietInv, OneSpec, NEW r \in Runners, End(r) PROVE QuietInv'
<1> DEFINE t == runners[r]
           v == Verdict(r)
           f == Snapshot([t EXCEPT !.status = v])
<1>1. /\ Busy(r) /\ t.pc \in {"failed", "passed", "next"}
      /\ t.pc = "next" => ~(t.at <= Len(t.spec))
  BY DEF End, Verdict, MoreWaves, At
<1>2. t \in Threads /\ t.id \in Ids /\ t.spec \in Specs /\ ThreadInv(t, earned)
  BY <1>1 DEF Busy, IInv, TypeOK, Threads
<1>3. f.slugs = t.spec /\ f.waves = t.waves
  BY <1>2 DEF Snapshot, Threads
<1>4. /\ Becomes(r, None) /\ files' = [files EXCEPT ![t.id] = f]
      /\ UNCHANGED <<logs, earned, disturbed>>
  <2>1. [t EXCEPT !.status = v].id = t.id
    BY <1>2 DEF Threads
  <2> QED BY <2>1 DEF End, Persists, past
<1> HIDE DEF f, v
<1>5. /\ \A j \in Ids : j # t.id => files'[j] = files[j]
      /\ files'[t.id] = f
  BY <1>2, <1>4 DEF IInv, TypeOK
<1>6. Ordered(earned) /\ Ordered(earned')
  BY <1>4 DEF QuietInv
<1>7. /\ \A w \in Behind(t, t.at - 1) : w \in PassedIn(f)
      /\ t.pc = "passed" => \A w \in Behind(t, t.at) : w \in PassedIn(f)
  BY <1>1, <1>2, <1>3, BehindIsPassed DEF NotBegun
<1>8. ASSUME t.id \notin disturbed
      PROVE  Knows(t.id, logs, earned) /\ Knows(t.id, PassedIn(f), earned)
  <2>1. Knows(t.id, logs, earned) /\ KnowsInv(t, files[t.id], logs, earned)
    BY <1>1, <1>8, QuietThread
  <2>2. CASE t.pc = "next"
    <3>1. t.at = Len(t.spec) + 1
      BY <1>1, <1>2, <2>2 DEF ThreadInv, PlaceInv, Threads
    <3>2. ASSUME NEW w \in Waves, <<t.id, w>> \in earned
          PROVE  w \in PassedIn(f)
      <4>1. PICK k \in 1..Len(t.spec) : w = t.spec[k]
        BY <1>2 DEF Waves, OneSpec
      <4>2. k \in 1..(t.at - 1)
        BY <3>1, <4>1
      <4>3. w \in Behind(t, t.at - 1)
        BY <4>1, <4>2 DEF Behind
      <4> QED BY <1>7, <4>3
    <3> QED BY <2>1, <3>2 DEF Knows
  <2>3. CASE t.pc \in {"failed", "passed"}
    BY <1>7, <2>1, <2>3 DEF KnowsInv, Knows
  <2> QED BY <1>1, <2>1, <2>2, <2>3
<1> QED BY <1>1, <1>2, <1>4, <1>5, <1>6, <1>8, QuietMoves

LEMMA RaiseQuiet ==
  ASSUME IInv, QuietInv, NEW r \in Runners, Raise(r) PROVE QuietInv'
<1> DEFINE t == runners[r]
<1>1. Busy(r) /\ (t.pc = "mission" \/ Works(t.id) # {r})
  BY DEF Raise, At
<1>2. t \in Threads /\ t.id \in Ids /\ ThreadInv(t, earned)
  BY <1>1 DEF Busy, IInv, TypeOK, Threads
<1>3. Becomes(r, None) /\ UNCHANGED <<files, logs, earned, disturbed>>
  BY DEF Raise, past
<1>4. Ordered(earned) /\ Ordered(earned')
  BY <1>3 DEF QuietInv
<1>5. ASSUME t.id \notin disturbed
      PROVE  Knows(t.id, logs, earned) /\ Knows(t.id, PassedIn(files[t.id]), earned)
  <2>1. t.pc = "mission" /\ Knows(t.id, logs, earned) /\ KnowsInv(t, files[t.id], logs, earned)
    BY <1>1, <1>5, QuietThread
  <2>2. files[t.id].slugs = t.spec /\ files[t.id].waves = t.waves
    BY <2>1 DEF KnowsInv, NotBegun, Snapshot
  <2>3. \A w \in Behind(t, t.at - 1) : w \in PassedIn(files[t.id])
    BY <1>2, <2>1, <2>2, BehindIsPassed DEF NotBegun
  <2> QED BY <2>1, <2>3 DEF KnowsInv, Knows
<1> QED BY <1>1, <1>2, <1>3, <1>4, <1>5, QuietMoves

LEMMA RunQuiet ==
  ASSUME IInv, QuietInv, OneSpec, NEW r \in Runners, Run(r) PROVE QuietInv'
BY LoadQuiet, FreshQuiet, SkipQuiet, EnterQuiet, StartMissionQuiet, EndMissionQuiet,
   RecordPassQuiet, RecordFailQuiet, GoOnQuiet, EndQuiet, RaiseQuiet DEF Run

\* A new thread has its run to itself, or the run is disturbed.
LEMMA StartQuiet ==
  ASSUME IInv, QuietInv, NEW h \in Handlers, NEW i \in Ids, NEW k \in Nat \ {0},
         NEW spec \in Specs, StartThread(h, i, k, spec)
  PROVE  QuietInv'
<1> DEFINE t == Thread(i, k, spec)
<1>1. PICK r \in Runners : ~Busy(r) /\ runners' = [runners EXCEPT ![r] = t]
  BY DEF StartThread, Becomes
<1>2. /\ disturbed' = (IF Works(i) = {} THEN disturbed ELSE disturbed \cup {i})
      /\ UNCHANGED <<files, logs, earned>>
  BY DEF StartThread
<1>3. t.id = i /\ t.pc = "load"
  BY DEF Thread
<1> HIDE DEF t
<1>4. \A q \in Runners : runners'[q] = IF q = r THEN t ELSE runners[q]
  BY <1>1 DEF IInv, TypeOK
<1>5. ASSUME NEW j \in Ids \ disturbed'
      PROVE  Quiet(j)'
  <2>1. /\ Knows(j, logs, earned)
        /\ \A q, p \in Works(j) : q = p
        /\ Works(j) = {} => Knows(j, PassedIn(files[j]), earned)
        /\ \A q \in Works(j) : KnowsInv(runners[q], files[j], logs, earned)
    BY <1>2, <1>5 DEF QuietInv, Quiet
  <2>2. Knows(j, logs', earned') /\ (PassedIn(files[j])' = PassedIn(files[j]))
    BY <1>2, <2>1 DEF PassedIn
  <2>3. CASE j # i
    <3>1. Works(j)' = Works(j) /\ r \notin Works(j)
      BY <1>1, <1>3, <1>4, <2>3 DEF Works, Busy
    <3>2. \A q \in Works(j) : runners'[q] = runners[q]
      BY <1>4, <3>1 DEF Works
    <3> QED BY <1>2, <2>1, <2>2, <3>1, <3>2 DEF Quiet
  <2>4. CASE j = i
    <3>1. Works(i) = {}
      BY <1>2, <1>5, <2>4
    <3>2. Works(j)' \subseteq {r}
      BY <1>4, <2>4, <3>1 DEF Works, Busy
    <3>3. KnowsInv(t, files[j], logs, earned)
      BY <1>3, <2>1, <2>4, <3>1 DEF KnowsInv, NotBegun
    <3>4. Works(j)' = {} => Knows(j, PassedIn(files[j])', earned')
      BY <1>2, <2>1, <2>2, <2>4, <3>1
    <3> QED BY <1>2, <1>4, <2>2, <3>2, <3>3, <3>4 DEF Quiet
  <2> QED BY <2>3, <2>4
<1>6. Ordered(earned')
  BY <1>2 DEF QuietInv
<1> QED BY <1>5, <1>6 DEF QuietInv

LEMMA SameQuiet ==
  ASSUME QuietInv, UNCHANGED <<files, logs, runners, earned, disturbed>>
  PROVE  QuietInv'
BY DEF QuietInv, Quiet, Works, Busy, PassedIn, KnowsInv, Knows, Behind, Snapshot, Ordered

LEMMA HandleQuiet ==
  ASSUME IInv, QuietInv, NEW h \in Handlers, Handle(h) PROVE QuietInv'
<1>1. CASE AskLaunch(h) \/ AskSchedule(h) \/ ReadState(h) \/ \E i \in Ids : AskResume(h, i)
  BY <1>1, SameQuiet DEF AskLaunch, AskSchedule, ReadState, AskResume, Asks, past
<1>2. CASE \E i \in Ids, spec \in Specs : Launch(h, i, spec)
  BY <1>2, StartQuiet DEF Launch
<1>3. ASSUME NEW spec \in Specs, Restart(h, spec)
      PROVE  QuietInv'
  <2> DEFINE k == calls[h].start
             n == IF k > Len(spec) THEN Len(spec) ELSE k
  <2>1. calls[h].id \in Ids /\ n \in Nat \ {0}
    BY <1>3 DEF Restart, IInv, TypeOK, CallInv
  <2>2. StartThread(h, calls[h].id, n, spec)
    BY <1>3 DEF Restart
  <2> HIDE DEF n
  <2> QED BY <2>1, <2>2, StartQuiet
<1> QED BY <1>1, <1>2, <1>3 DEF Handle

LEMMA InterruptQuiet ==
  ASSUME IInv, QuietInv, NEW i \in Ids, Interrupt(i) PROVE QuietInv'
<1> DEFINE r == tracked[i]
           t == runners[r]
           u == [t EXCEPT !.stop = TRUE]
<1>1. r \in Runners /\ Busy(r) /\ t \in Threads /\ t.id \in Ids
  BY DEF Interrupt, IsAlive, Works, Busy, IInv, TypeOK, Threads
<1>2. /\ u \in Threads /\ u.id = t.id /\ u.pc = t.pc /\ u.prior = t.prior
      /\ u.at = t.at /\ u.spec = t.spec /\ Snapshot(u) = Snapshot(t)
  BY <1>1 DEF Threads, Snapshot
<1>3. Becomes(r, u) /\ UNCHANGED <<files, logs, earned, disturbed>>
  BY DEF Interrupt, past
<1>4. Ordered(earned) /\ Ordered(earned')
  BY <1>3 DEF QuietInv
<1> HIDE DEF u
<1>5. t.id \notin disturbed => /\ Knows(t.id, logs, earned)
                               /\ KnowsInv(t, files[t.id], logs, earned)
  BY <1>1, QuietThread
<1>6. \A n : Behind(u, n) = Behind(t, n)
  BY <1>2 DEF Behind
<1>7. t.id \notin disturbed => KnowsInv(u, files'[t.id], logs', earned')
  BY <1>2, <1>3, <1>5, <1>6 DEF KnowsInv
<1>8. u # None
  BY <1>2, NoThread
<1> HIDE DEF r
<1> QED BY <1>1, <1>2, <1>3, <1>4, <1>5, <1>7, <1>8, QuietMoves

LEMMA DeleteRunQuiet ==
  ASSUME IInv, QuietInv, NEW w \in Waves, DeleteRun(w) PROVE QuietInv'
BY DEF DeleteRun, console, QuietInv

LEMMA CrashQuiet == ASSUME IInv, QuietInv, Crash PROVE QuietInv'
<1>1. ASSUME NEW j \in Ids \ disturbed'
      PROVE  Quiet(j)'
  <2>1. j \notin disturbed /\ Works(j) = {}
    BY <1>1 DEF Crash, Works
  <2>2. Works(j)' = {}
    BY DEF Crash, Works, Busy
  <2>3. Knows(j, logs, earned) /\ Knows(j, PassedIn(files[j]), earned)
    BY <2>1 DEF QuietInv, Quiet
  <2>4. Knows(j, logs', earned') /\ Knows(j, PassedIn(files[j])', earned')
    BY <2>3 DEF Crash, PassedIn
  <2> QED BY <2>2, <2>4 DEF Quiet
<1>2. Ordered(earned')
  BY DEF Crash, QuietInv
<1> QED BY <1>1, <1>2 DEF QuietInv

\* A run that was disturbed stays so.
LEMMA OnceDisturbed == ASSUME TypeOK, Next PROVE disturbed \subseteq disturbed'
<1>1. ASSUME NEW r \in Runners, Run(r) PROVE UNCHANGED disturbed
  <2>1. CASE Load(r) \/ Fresh(r) \/ Skip(r) \/ Enter(r)
    BY <2>1 DEF Load, Fresh, Skip, Enter, past
  <2>2. CASE StartMission(r) \/ \E ok \in BOOLEAN : EndMission(r, ok)
    BY <2>2 DEF StartMission, EndMission, past
  <2>3. CASE RecordPass(r) \/ RecordFail(r) \/ GoOn(r)
    BY <2>3 DEF RecordPass, RecordFail, GoOn, past
  <2>4. CASE End(r) \/ Raise(r)
    BY <2>4 DEF End, Raise, past
  <2> QED
    BY <1>1, <2>1, <2>2, <2>3, <2>4 DEF Run
<1>2. ASSUME NEW h \in Handlers, Handle(h) PROVE disturbed \subseteq disturbed'
  <2>1. CASE AskLaunch(h) \/ AskSchedule(h) \/ ReadState(h) \/ \E i \in Ids : AskResume(h, i)
    BY <2>1 DEF AskLaunch, AskSchedule, ReadState, AskResume, Asks, past
  <2>2. ASSUME NEW i \in Ids, NEW spec \in Specs, Launch(h, i, spec)
        PROVE  disturbed \subseteq disturbed'
    BY <2>2 DEF Launch, StartThread
  <2>3. ASSUME NEW spec \in Specs, Restart(h, spec)
        PROVE  disturbed \subseteq disturbed'
    BY <2>3 DEF Restart, StartThread
  <2> QED
    BY <1>2, <2>1, <2>2, <2>3 DEF Handle
<1>3. CASE \E i \in Ids : Interrupt(i)
  BY <1>3 DEF Interrupt, past
<1>4. CASE \E w \in Waves : DeleteRun(w)
  BY <1>4 DEF DeleteRun, TypeOK
<1>5. CASE Crash
  BY <1>5 DEF Crash
<1> QED
  BY <1>1, <1>2, <1>3, <1>4, <1>5 DEF Next

\* While the spec is not edited, a run that no crash, deletion or second thread
\* disturbs never starts the mission of a wave that passed in it.
THEOREM NotBoughtTwice == OneSpec => (Spec => PassedIsNotRerun)
<1> SUFFICES ASSUME OneSpec PROVE Spec => PassedIsNotRerun
  OBVIOUS
<1>1. Init => QuietInv
  <2> SUFFICES ASSUME Init PROVE QuietInv
    OBVIOUS
  <2>1. earned = {} /\ \A i \in Ids : Works(i) = {}
    BY DEF Init, Works, Busy
  <2> QED BY <2>1 DEF QuietInv, Quiet, Ordered, Knows
<1>2. IInv /\ QuietInv /\ [Next]_vars => QuietInv'
  <2> SUFFICES ASSUME IInv, QuietInv, [Next]_vars PROVE QuietInv'
    OBVIOUS
  <2>1. CASE UNCHANGED vars
    BY <2>1, SameQuiet DEF vars
  <2>2. CASE Next
    BY <2>2, RunQuiet, HandleQuiet, InterruptQuiet, DeleteRunQuiet, CrashQuiet DEF Next
  <2> QED BY <2>1, <2>2
<1> DEFINE Bought(r) ==
             At(r, "wave") /\ ~At(r, "wave")' =>
               \/ <<runners[r].id, runners[r].spec[runners[r].at]>> \notin earned
               \/ runners[r].id \in disturbed'
<1>3. IInv /\ QuietInv /\ [Next]_vars => [\A r \in Runners : Bought(r)]_vars
  <2> SUFFICES ASSUME IInv, QuietInv, Next, NEW r \in Runners, At(r, "wave")
               PROVE  \/ <<runners[r].id, runners[r].spec[runners[r].at]>> \notin earned
                      \/ runners[r].id \in disturbed'
    OBVIOUS
  <2> DEFINE t == runners[r]
  <2>1. t \in Threads /\ t.id \in Ids /\ t.spec \in Specs /\ t.pc = "wave" /\ Busy(r)
        /\ ThreadInv(t, earned)
    BY DEF At, Busy, IInv, TypeOK, Threads
  <2>2. t.at \in 1..Len(t.spec)
    BY <2>1 DEF ThreadInv, PlaceInv, NotBegun, BetweenWaves, Threads
  <2>3. disturbed \subseteq disturbed'
    BY OnceDisturbed DEF IInv
  <2>4. ASSUME t.id \notin disturbed
        PROVE  <<t.id, t.spec[t.at]>> \notin earned
    <3>1. Knows(t.id, Behind(t, t.at - 1), earned)
      BY <2>1, <2>4, QuietThread DEF KnowsInv
    <3>2. t.spec[t.at] \in Waves
      BY <2>1, <2>2 DEF Waves
    <3>3. ASSUME NEW k \in 1..(t.at - 1)
          PROVE  t.spec[k] # t.spec[t.at]
      <4>1. k \in 1..Len(t.spec) /\ k # t.at
        BY <2>2
      <4> QED BY <2>1, <2>2, <4>1
    <3> QED BY <3>1, <3>2, <3>3 DEF Knows, Behind
  <2> QED BY <2>3, <2>4
<1> QED BY <1>1, <1>2, <1>3, Invariance, PTL DEF Spec, PassedIsNotRerun

=============================================================================
