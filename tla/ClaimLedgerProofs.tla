-------------------------- MODULE ClaimLedgerProofs --------------------------
(***************************************************************************)
(* Proofs about the claim ledger, for every set of workers and files and   *)
(* every bound: its types, that the ledger is the projection of the log    *)
(* whatever a resume re-emits, and that the decisions of a run that        *)
(* resumes nothing are right by the events before them.                    *)
(***************************************************************************)
EXTENDS ClaimLedger, SequenceTheorems, TLAPS

-----------------------------------------------------------------------------
(***************************************************************************)
(* Appending one event to a log.                                           *)
(***************************************************************************)
\* What the log was, it stays; the new event is the last.
LEMMA Appended ==
  ASSUME NEW l \in Seq(Events), NEW e \in Events
  PROVE  /\ Append(l, e) \in Seq(Events)
         /\ Len(Append(l, e)) = Len(l) + 1
         /\ \A n \in 1..Len(l) : Append(l, e)[n] = l[n]
         /\ Append(l, e)[Len(l) + 1] = e
         /\ Len(l) \in Nat
BY AppendProperties, LenProperties

\* Who holds what by an earlier event does not depend on a later one.
LEMMA HoldsBefore ==
  ASSUME NEW l \in Seq(Events), NEW e \in Events,
         NEW n \in 0..Len(l), NEW w, NEW f
  PROVE  Holds(Append(l, e), n, w, f) <=> Holds(l, n, w, f)
<1>1. Len(l) \in Nat /\ \A k \in 1..Len(l) : Append(l, e)[k] = l[k]
  BY Appended
<1>2. \A k \in 1..n : Append(l, e)[k] = l[k]
  BY <1>1
<1> QED
  BY <1>1, <1>2 DEF Holds

\* Who holds what by a new event: whom it is granted to, else the holder
\* before, unless the event takes the file away.
LEMMA HoldsAfter ==
  ASSUME NEW l \in Seq(Events), NEW e \in Events, NEW w, NEW f
  PROVE  Holds(Append(l, e), Len(l) + 1, w, f) <=>
           IF e.type = "claim.granted" /\ f \in e.files THEN e.worker = w
           ELSE /\ Holds(l, Len(l), w, f)
                /\ ~(e.type = "claim.released" /\ f \in e.files /\ e.worker = w)
<1> DEFINE m == Append(l, e)
           n == Len(l)
<1>1. n \in Nat /\ m[n + 1] = e /\ \A k \in 1..n : m[k] = l[k]
  BY Appended
<1> DEFINE Gets(k) == m[k].type = "claim.granted" /\ m[k].worker = w /\ f \in m[k].files
           Keeps(k) == f \in m[k].files =>
                         /\ m[k].type = "claim.granted" => m[k].worker = w
                         /\ m[k].type = "claim.released" => m[k].worker # w
<1>2. Holds(l, n, w, f) <=>
        \E i \in 1..n : Gets(i) /\ \A j \in (i + 1)..n : Keeps(j)
  BY <1>1 DEF Holds
<1>3. Holds(m, n + 1, w, f) <=>
        \E i \in 1..(n + 1) : Gets(i) /\ \A j \in (i + 1)..(n + 1) : Keeps(j)
  BY DEF Holds
<1>4. Holds(m, n + 1, w, f) <=> Gets(n + 1) \/ (Holds(l, n, w, f) /\ Keeps(n + 1))
  <2> HIDE DEF Gets, Keeps
  <2>1. ASSUME Gets(n + 1)
        PROVE  Holds(m, n + 1, w, f)
    BY <1>1, <1>3, <2>1
  <2>2. ASSUME Holds(l, n, w, f), Keeps(n + 1)
        PROVE  Holds(m, n + 1, w, f)
    <3>1. PICK i \in 1..n : Gets(i) /\ \A j \in (i + 1)..n : Keeps(j)
      BY <1>2, <2>2
    <3>2. \A j \in (i + 1)..(n + 1) : Keeps(j)
      BY <1>1, <2>2, <3>1
    <3> QED
      BY <1>1, <1>3, <3>1, <3>2
  <2>3. ASSUME Holds(m, n + 1, w, f), ~Gets(n + 1)
        PROVE  Holds(l, n, w, f) /\ Keeps(n + 1)
    <3>1. PICK i \in 1..(n + 1) : Gets(i) /\ \A j \in (i + 1)..(n + 1) : Keeps(j)
      BY <1>3, <2>3
    <3>2. i \in 1..n
      BY <1>1, <2>3, <3>1
    <3> QED
      BY <1>1, <1>2, <3>1, <3>2
  <2> QED
    BY <2>1, <2>2, <2>3
<1> QED
  BY <1>1, <1>4

-----------------------------------------------------------------------------
(***************************************************************************)
(* Types.                                                                  *)
(***************************************************************************)
LEMMA NoneIsNobody == \A w \in Workers : w # None
BY LedgerAssumption

\* The first attempt starts with the right types.
LEMMA TypeInit == Init => TypeOK
<1> SUFFICES ASSUME Init PROVE TypeOK
  OBVIOUS
<1>1. log \in Seq(Events) /\ recorded \in Seq(Events)
  BY EmptySeq DEF Init
<1>2. owner \in [Files -> Workers \cup {None}]
  BY DEF Init
<1> QED
  BY <1>1, <1>2 DEF Init, TypeOK

\* Every step keeps the types.
LEMMA TypeStep ==
  ASSUME TypeOK, [Next]_vars
  PROVE  TypeOK'
<1> USE DEF TypeOK, past
<1>1. ASSUME NEW w \in Workers, WorkerActs(w)
      PROVE  TypeOK'
  <2>1. ASSUME NEW fs \in SUBSET Files, WorkerClaim(w, fs)
        PROVE  log' \in Seq(Events) /\ owner' \in [Files -> Workers \cup {None}]
    <3>1. /\ Event("claim.granted", w, {f \in fs : owner[f] # w}) \in Events
          /\ Event("claim.rejected", w, fs) \in Events
      BY DEF Event, Events
    <3>2. \A e \in Events : Append(log, e) \in Seq(Events)
      BY Appended
    <3>3. Granted(w, fs) \in [Files -> Workers \cup {None}]
      BY DEF Granted
    <3> QED
      BY <2>1, <3>1, <3>2, <3>3 DEF WorkerClaim
  <2>2. ASSUME NEW fs \in SUBSET Files, WorkerRelease(w, fs)
        PROVE  log' \in Seq(Events) /\ owner' \in [Files -> Workers \cup {None}]
    <3> DEFINE mine == {f \in Files : (fs = {} \/ f \in fs) /\ owner[f] = w}
    <3>1. Event("claim.released", w, mine) \in Events
      BY DEF Event, Events
    <3> QED
      BY <2>2, <3>1, Appended DEF WorkerRelease, Dropped
  <2>3. ASSUME NEW f \in Files, RefuseWrite(w, f)
        PROVE  log' \in Seq(Events) /\ owner' \in [Files -> Workers \cup {None}]
    <3>1. Event("claim.violated", w, {f}) \in Events
      BY DEF Event, Events
    <3> QED
      BY <2>3, <3>1, Appended DEF RefuseWrite
  <2> QED
    BY <1>1, <2>1, <2>2, <2>3 DEF WorkerActs
<1>2. ASSUME NEW w \in Workers, CallEnds(w)
      PROVE  TypeOK'
  BY <1>2 DEF CallEnds
<1>3. ASSUME NEW w \in Workers, InjectArrival(w)
      PROVE  TypeOK'
  <2>1. Event("agent.responded", w, {}) \in Events
    BY DEF Event, Events
  <2> QED
    BY <1>3, <2>1, Appended DEF InjectArrival
<1>4. CASE Wake
  BY <1>4 DEF Wake
<1>5. CASE ReEmit
  <2>1. PICK i \in Plan :
          /\ planAt' = i /\ log' = Append(log, recorded[i])
          /\ owner' = Stepped(recorded[i])
          /\ landed' = IF recorded[i].type = "agent.responded"
                       THEN landed \ {recorded[i].worker} ELSE landed
    BY <1>5 DEF ReEmit
  <2>2. i \in Nat /\ recorded[i] \in Events
    BY ElementOfSeq, LenProperties DEF Plan
  <2>3. recorded[i].worker \in Workers
    BY <2>2 DEF Events
  <2>4. owner' \in [Files -> Workers \cup {None}]
    BY <2>1, <2>3 DEF Stepped, Granted, Dropped
  <2> QED
    BY <1>5, <2>1, <2>2, <2>4, Appended DEF ReEmit
<1>6. CASE Sleep
  BY <1>6 DEF Sleep
<1>7. ASSUME NEW edits \in EditSets, Resume(edits)
      PROVE  TypeOK'
  <2>1. edits \in SUBSET Workers /\ attempt' \in Nat
    BY <1>7, LedgerAssumption DEF Resume
  <2> QED
    BY <1>7, <2>1, EmptySeq DEF Resume
<1>8. CASE UNCHANGED vars
  BY <1>8 DEF vars
<1> QED
  BY <1>1, <1>2, <1>3, <1>4, <1>5, <1>6, <1>7, <1>8 DEF Next

\* TypeOK for every run of claims.py and host.py in the model.
THEOREM TypeCorrect == Spec => []TypeOK
BY TypeInit, TypeStep, PTL DEF Spec

-----------------------------------------------------------------------------
(***************************************************************************)
(* The ledger is the projection of the log.                                *)
(***************************************************************************)
\* A step that appends event e and steps the ledger by e keeps the ledger the
\* projection of the log, whoever e comes from.
LEMMA SteppedIsProjection ==
  ASSUME TypeOK, LedgerIsProjection, NEW e \in Events,
         log' = Append(log, e),
         owner' \in [Files -> Workers \cup {None}],
         \A f \in Files :
           owner'[f] = IF e.type = "claim.granted" /\ f \in e.files THEN e.worker
                       ELSE IF e.type = "claim.released" /\ f \in e.files
                               /\ owner[f] = e.worker THEN None
                       ELSE owner[f]
  PROVE  LedgerIsProjection'
<1>1. log \in Seq(Events) /\ Len(log') = Len(log) + 1
  BY Appended DEF TypeOK
<1>2. SUFFICES ASSUME NEW f \in Files, NEW w \in Workers
               PROVE  owner'[f] = w <=> Holds(log', Len(log) + 1, w, f)
  BY <1>1 DEF LedgerIsProjection
<1>3. owner[f] = w <=> Holds(log, Len(log), w, f)
  BY DEF LedgerIsProjection
<1>4. Holds(log', Len(log) + 1, w, f) <=>
        IF e.type = "claim.granted" /\ f \in e.files THEN e.worker = w
        ELSE /\ Holds(log, Len(log), w, f)
             /\ ~(e.type = "claim.released" /\ f \in e.files /\ e.worker = w)
  BY <1>1, HoldsAfter
<1> QED
  BY <1>3, <1>4, NoneIsNobody

LEMMA ProjectionStep ==
  ASSUME TypeOK, LedgerIsProjection, [Next]_vars
  PROVE  LedgerIsProjection'
<1>0. TypeOK'
  BY TypeStep
<1>1. ASSUME NEW w \in Workers, WorkerActs(w)
      PROVE  LedgerIsProjection'
  <2>1. ASSUME NEW fs \in SUBSET Files, WorkerClaim(w, fs)
        PROVE  LedgerIsProjection'
    <3>1. CASE fs \subseteq Claimable[w] /\ Conflicts(w, fs) = {}
      <4> DEFINE e == Event("claim.granted", w, {f \in fs : owner[f] # w})
      <4>1. e \in Events /\ log' = Append(log, e)
        BY <2>1, <3>1 DEF Event, Events, WorkerClaim
      <4>2. \A f \in Files : owner'[f] = IF f \in fs THEN w ELSE owner[f]
        BY <2>1, <3>1 DEF WorkerClaim, Granted
      <4> QED
        BY <1>0, <4>1, <4>2, SteppedIsProjection DEF TypeOK, Event
    <3>2. CASE ~(fs \subseteq Claimable[w] /\ Conflicts(w, fs) = {})
      <4> DEFINE e == Event("claim.rejected", w, fs)
      <4>1. e \in Events /\ log' = Append(log, e) /\ owner' = owner
        BY <2>1, <3>2 DEF Event, Events, WorkerClaim
      <4> QED
        BY <1>0, <4>1, SteppedIsProjection DEF TypeOK, Event
    <3> QED
      BY <3>1, <3>2
  <2>2. ASSUME NEW fs \in SUBSET Files, WorkerRelease(w, fs)
        PROVE  LedgerIsProjection'
    <3> DEFINE mine == {f \in Files : (fs = {} \/ f \in fs) /\ owner[f] = w}
               e == Event("claim.released", w, mine)
    <3>1. e \in Events /\ log' = Append(log, e)
      BY <2>2 DEF Event, Events, WorkerRelease
    <3>2. \A f \in Files : owner'[f] = IF f \in mine /\ owner[f] = w THEN None ELSE owner[f]
      BY <2>2 DEF WorkerRelease, Dropped
    <3>3. e.type = "claim.released" /\ e.files = mine /\ e.worker = w
      BY DEF Event
    <3> HIDE DEF mine, e
    <3> QED
      BY <1>0, <3>1, <3>2, <3>3, SteppedIsProjection DEF TypeOK
  <2>3. ASSUME NEW f \in Files, RefuseWrite(w, f)
        PROVE  LedgerIsProjection'
    <3> DEFINE e == Event("claim.violated", w, {f})
    <3>1. e \in Events /\ log' = Append(log, e) /\ owner' = owner
      BY <2>3 DEF Event, Events, RefuseWrite
    <3> QED
      BY <1>0, <3>1, SteppedIsProjection DEF TypeOK, Event
  <2> QED
    BY <1>1, <2>1, <2>2, <2>3 DEF WorkerActs
<1>2. ASSUME NEW w \in Workers, InjectArrival(w)
      PROVE  LedgerIsProjection'
  <2> DEFINE e == Event("agent.responded", w, {})
  <2>1. e \in Events /\ log' = Append(log, e) /\ owner' = owner
    BY <1>2 DEF Event, Events, InjectArrival
  <2> QED
    BY <1>0, <2>1, SteppedIsProjection DEF TypeOK, Event
<1>3. CASE ReEmit
  <2>1. PICK i \in Plan :
          log' = Append(log, recorded[i]) /\ owner' = Stepped(recorded[i])
    BY <1>3 DEF ReEmit
  <2> DEFINE e == recorded[i]
  <2>2. e \in Events
    BY ElementOfSeq, LenProperties DEF Plan, TypeOK
  <2>3. \A f \in Files :
           owner'[f] = IF e.type = "claim.granted" /\ f \in e.files THEN e.worker
                       ELSE IF e.type = "claim.released" /\ f \in e.files
                               /\ owner[f] = e.worker THEN None
                       ELSE owner[f]
    BY <2>1 DEF Stepped, Granted, Dropped
  <2> HIDE DEF e
  <2> QED
    BY <1>0, <2>1, <2>2, <2>3, SteppedIsProjection DEF TypeOK, e
<1>4. ASSUME NEW edits \in EditSets, Resume(edits)
      PROVE  LedgerIsProjection'
  <2>1. log' = <<>> /\ \A f \in Files : owner'[f] = None
    BY <1>4 DEF Resume
  <2> QED
    BY <2>1, NoneIsNobody DEF LedgerIsProjection, Holds
<1>5. ASSUME UNCHANGED <<log, owner>>
      PROVE  LedgerIsProjection'
  BY <1>5 DEF LedgerIsProjection, Holds
<1> QED
  BY <1>1, <1>2, <1>3, <1>4, <1>5
     DEF Next, CallEnds, Wake, Sleep, vars

\* An empty ledger is the projection of an empty log.
LEMMA ProjectionInit == Init => LedgerIsProjection
<1> SUFFICES ASSUME Init PROVE LedgerIsProjection
  OBVIOUS
<1>1. log = <<>> /\ \A f \in Files : owner[f] = None
  BY DEF Init
<1>2. Len(log) = 0 /\ 1..0 = {}
  BY <1>1, EmptySeq
<1>3. \A f, w : ~Holds(log, Len(log), w, f)
  BY <1>2 DEF Holds
<1> QED
  BY <1>1, <1>3, NoneIsNobody DEF LedgerIsProjection

\* claims.py's "the owner map is a projection", for live runs and for every
\* chain of resumes, amended or not.
THEOREM ProjectionOfTheLog == Spec => []LedgerIsProjection
<1>1. Init => TypeOK /\ LedgerIsProjection
  BY TypeInit, ProjectionInit
<1>2. TypeOK /\ LedgerIsProjection /\ [Next]_vars
        => (TypeOK /\ LedgerIsProjection)'
  BY TypeStep, ProjectionStep
<1> QED
  BY <1>1, <1>2, PTL DEF Spec

-----------------------------------------------------------------------------
(***************************************************************************)
(* The decisions of a run that resumes nothing.                            *)
(***************************************************************************)
\* An event that is a right decision by the log extends an adjudicated log.
LEMMA AdjudicatedAppend ==
  ASSUME NEW l \in Seq(Events), NEW e \in Events, Adjudicated(l),
         e.type = "claim.granted" =>
           \A f \in e.files, v \in Workers : ~Holds(l, Len(l), v, f),
         e.type = "claim.released" =>
           \A f \in e.files : Holds(l, Len(l), e.worker, f),
         e.type = "claim.violated" =>
           \A f \in e.files : ~Holds(l, Len(l), e.worker, f),
         e.type = "claim.rejected" =>
           \E f \in e.files : \/ f \notin Claimable[e.worker]
                              \/ \E v \in Workers \ {e.worker} : Holds(l, Len(l), v, f)
  PROVE  Adjudicated(Append(l, e))
<1> DEFINE m == Append(l, e)
<1>1. /\ Len(l) \in Nat /\ Len(m) = Len(l) + 1
      /\ m[Len(l) + 1] = e
      /\ \A n \in 1..Len(l) : m[n] = l[n]
  BY Appended
<1>2. \A n \in 0..Len(l) : \A w, f : Holds(m, n, w, f) <=> Holds(l, n, w, f)
  BY HoldsBefore
<1> HIDE DEF m
<1>3. ASSUME NEW n \in 1..Len(l)
      PROVE  RightDecision(m, n)
  <2>1. RightDecision(l, n) /\ m[n] = l[n] /\ n - 1 \in 0..Len(l)
    BY <1>1 DEF Adjudicated
  <2>2. \A w, f : Holds(m, n - 1, w, f) <=> Holds(l, n - 1, w, f)
    BY <1>2, <2>1
  <2> QED
    BY <2>1, <2>2 DEF RightDecision
<1>4. RightDecision(m, Len(l) + 1)
  <2>1. /\ (Len(l) + 1) - 1 = Len(l) /\ Len(l) \in 0..Len(l)
        /\ m[Len(l) + 1] = e
    BY <1>1
  <2>2. \A w, f : Holds(m, Len(l), w, f) <=> Holds(l, Len(l), w, f)
    BY <1>2, <2>1
  <2> QED
    BY <2>1, <2>2 DEF RightDecision
<1>5. \A n \in 1..Len(m) : n \in 1..Len(l) \/ n = Len(l) + 1
  BY <1>1
<1> QED
  BY <1>3, <1>4, <1>5 DEF Adjudicated, m

\* A first attempt has nothing to re-emit.
FirstRunHasNoPlan == attempt >= 1 /\ (attempt = 1 => recorded = <<>>)

LedgerInv ==
  TypeOK /\ LedgerIsProjection /\ FirstRunHasNoPlan /\ FirstRunIsAdjudicated

LEMMA LedgerInvInit == Init => LedgerInv
<1> SUFFICES ASSUME Init PROVE LedgerInv
  OBVIOUS
<1>1. FirstRunHasNoPlan
  BY DEF Init, FirstRunHasNoPlan
<1>2. FirstRunIsAdjudicated
  <2>1. log = <<>> /\ Len(log) = 0 /\ 1..0 = {}
    BY EmptySeq DEF Init
  <2> QED
    BY <2>1 DEF FirstRunIsAdjudicated, Adjudicated
<1> QED
  BY <1>1, <1>2, TypeInit, ProjectionInit DEF LedgerInv

\* What a running worker asks for is decided by the ledger, which is the log.
LEMMA WorkerIsAdjudicated ==
  ASSUME LedgerInv, NEW w \in Workers, WorkerActs(w)
  PROVE  FirstRunIsAdjudicated'
<1>1. SUFFICES ASSUME attempt = 1 PROVE Adjudicated(log')
  BY DEF WorkerActs, past, FirstRunIsAdjudicated
<1>2. log \in Seq(Events) /\ Adjudicated(log)
  BY <1>1 DEF LedgerInv, TypeOK, FirstRunIsAdjudicated
<1>3. \A f \in Files, v \in Workers : owner[f] = v <=> Holds(log, Len(log), v, f)
  BY DEF LedgerInv, LedgerIsProjection
<1>4. \A f \in Files : owner[f] \in Workers \cup {None}
  BY DEF LedgerInv, TypeOK
<1>5. ASSUME NEW fs \in SUBSET Files, WorkerClaim(w, fs)
      PROVE  Adjudicated(log')
  <2>1. CASE fs \subseteq Claimable[w] /\ Conflicts(w, fs) = {}
    <3> DEFINE given == {f \in fs : owner[f] # w}
               e == Event("claim.granted", w, given)
    <3>1. e \in Events /\ log' = Append(log, e)
      BY <1>5, <2>1 DEF Event, Events, WorkerClaim
    <3>2. \A f \in given, v \in Workers : ~Holds(log, Len(log), v, f)
      BY <1>3, <2>1, NoneIsNobody DEF Conflicts
    <3>3. e.type = "claim.granted" /\ e.files = given
      BY DEF Event
    <3> HIDE DEF e, given
    <3> QED
      BY <1>2, <3>1, <3>2, <3>3, AdjudicatedAppend
  <2>2. CASE ~(fs \subseteq Claimable[w] /\ Conflicts(w, fs) = {})
    <3> DEFINE e == Event("claim.rejected", w, fs)
    <3>1. e \in Events /\ log' = Append(log, e)
      BY <1>5, <2>2 DEF Event, Events, WorkerClaim
    <3>2. \E f \in fs : \/ f \notin Claimable[w]
                        \/ \E v \in Workers \ {w} : Holds(log, Len(log), v, f)
      BY <1>3, <1>4, <2>2 DEF Conflicts
    <3>3. e.type = "claim.rejected" /\ e.files = fs /\ e.worker = w
      BY DEF Event
    <3> HIDE DEF e
    <3> QED
      BY <1>2, <3>1, <3>2, <3>3, AdjudicatedAppend
  <2> QED
    BY <2>1, <2>2
<1>6. ASSUME NEW fs \in SUBSET Files, WorkerRelease(w, fs)
      PROVE  Adjudicated(log')
  <2> DEFINE mine == {f \in Files : (fs = {} \/ f \in fs) /\ owner[f] = w}
             e == Event("claim.released", w, mine)
  <2>1. e \in Events /\ log' = Append(log, e)
    BY <1>6 DEF Event, Events, WorkerRelease
  <2>2. \A f \in mine : Holds(log, Len(log), w, f)
    BY <1>3
  <2>3. e.type = "claim.released" /\ e.files = mine /\ e.worker = w
    BY DEF Event
  <2> HIDE DEF e, mine
  <2> QED
    BY <1>2, <2>1, <2>2, <2>3, AdjudicatedAppend
<1>7. ASSUME NEW f \in Files, RefuseWrite(w, f)
      PROVE  Adjudicated(log')
  <2> DEFINE e == Event("claim.violated", w, {f})
  <2>1. e \in Events /\ log' = Append(log, e)
    BY <1>7 DEF Event, Events, RefuseWrite
  <2>2. ~Holds(log, Len(log), w, f)
    BY <1>3, <1>7 DEF RefuseWrite
  <2>3. e.type = "claim.violated" /\ e.files = {f} /\ e.worker = w
    BY DEF Event
  <2> HIDE DEF e
  <2> QED
    BY <1>2, <2>1, <2>2, <2>3, AdjudicatedAppend
<1> QED
  BY <1>5, <1>6, <1>7 DEF WorkerActs

LEMMA LedgerInvStep ==
  ASSUME LedgerInv, [Next]_vars
  PROVE  LedgerInv'
<1>1. TypeOK' /\ LedgerIsProjection'
  BY TypeStep, ProjectionStep DEF LedgerInv
<1>2. ASSUME attempt' = attempt, recorded' = recorded
      PROVE  FirstRunHasNoPlan'
  BY <1>2 DEF LedgerInv, FirstRunHasNoPlan
<1>3. ASSUME NEW w \in Workers, WorkerActs(w)
      PROVE  FirstRunIsAdjudicated'
  BY <1>3, WorkerIsAdjudicated
<1>4. ASSUME NEW w \in Workers, InjectArrival(w)
      PROVE  FirstRunIsAdjudicated'
  <2>1. SUFFICES ASSUME attempt = 1 PROVE Adjudicated(log')
    BY <1>4 DEF InjectArrival, past, FirstRunIsAdjudicated
  <2> DEFINE e == Event("agent.responded", w, {})
  <2>2. e \in Events /\ e.type = "agent.responded" /\ log' = Append(log, e)
    BY <1>4 DEF Event, Events, InjectArrival
  <2>3. log \in Seq(Events) /\ Adjudicated(log)
    BY <2>1 DEF LedgerInv, TypeOK, FirstRunIsAdjudicated
  <2> HIDE DEF e
  <2> QED
    BY <2>2, <2>3, AdjudicatedAppend
<1>5. ASSUME ReEmit
      PROVE  FirstRunIsAdjudicated'
  \* The first attempt never re-emits: its plan is empty.
  <2>1. PICK i \in (planAt + 1)..Len(recorded) : TRUE
    BY <1>5 DEF ReEmit, Plan
  <2>2. ASSUME recorded = <<>>
        PROVE  FALSE
    <3>1. Len(recorded) = 0
      BY <2>2, EmptySeq
    <3> QED
      BY <2>1, <3>1 DEF LedgerInv, TypeOK
  <2> QED
    BY <1>5, <2>2 DEF LedgerInv, FirstRunHasNoPlan, FirstRunIsAdjudicated, ReEmit, past
<1>6. ASSUME NEW edits \in EditSets, Resume(edits)
      PROVE  FirstRunHasNoPlan' /\ FirstRunIsAdjudicated'
  <2>1. attempt \in Nat /\ attempt >= 1 /\ attempt' = attempt + 1
    BY <1>6 DEF LedgerInv, TypeOK, FirstRunHasNoPlan, Resume
  <2> QED
    BY <2>1 DEF FirstRunHasNoPlan, FirstRunIsAdjudicated
<1>7. ASSUME UNCHANGED <<attempt, log>>
      PROVE  FirstRunIsAdjudicated'
  BY <1>7 DEF LedgerInv, FirstRunIsAdjudicated, Adjudicated, RightDecision, Holds
<1>8. FirstRunHasNoPlan'
  BY <1>2, <1>6 DEF Next, WorkerActs, CallEnds, InjectArrival, Wake, ReEmit,
                    Sleep, vars, past
<1>9. FirstRunIsAdjudicated'
  BY <1>3, <1>4, <1>5, <1>6, <1>7 DEF Next, CallEnds, Wake, Sleep, vars, past
<1> QED
  BY <1>1, <1>8, <1>9 DEF LedgerInv

\* "two workers racing for one file are resolved by whoever the host serviced
\* first": in a run that resumes nothing every grant, release, rejection and
\* refused write is right by the log before it, for any number of workers.
THEOREM FirstRunAdjudicated == Spec => []FirstRunIsAdjudicated
<1>1. LedgerInv => FirstRunIsAdjudicated
  BY DEF LedgerInv
<1> QED
  BY <1>1, LedgerInvInit, LedgerInvStep, PTL DEF Spec

=============================================================================
