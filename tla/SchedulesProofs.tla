--------------------------- MODULE SchedulesProofs ---------------------------
(***************************************************************************)
(* What Schedules keeps whatever the documents, tabs and schedules: type   *)
(* correctness, that no save loses a secret, that the scheduler keeps to   *)
(* one run in a repository, and that a schedule fires once for a moment.   *)
(***************************************************************************)
EXTENDS Schedules, TLAPS

USE SchedulesAssumption, NamesAssumption

-----------------------------------------------------------------------------
(***************************************************************************)
(* Documents.                                                              *)
(***************************************************************************)
LEMMA EmptyIsContents == Empty \in Contents
<1>1. [i \in {} |-> None] \in [{} -> Times \cup {None}]
  OBVIOUS
<1>2. [i \in {} |-> None] \in Stamps
  BY <1>1 DEF Stamps
<1> QED
  BY <1>2 DEF Empty, Contents, Hooks

LEMMA LoadIsContents ==
  ASSUME TypeOK, NEW d \in Docs
  PROVE  Load(d) \in Contents
BY EmptyIsContents DEF TypeOK, Load

LEMMA RedactedIsShown ==
  ASSUME NEW doc \in Contents
  PROVE  Redacted(doc) \in Shows /\ Redacted(doc).last = doc.last
BY DEF Redacted, Contents, Shows

\* What is saved for a page is what its user asked for, of what is stored.
LEMMA RestoredIsContents ==
  ASSUME NEW text \in Shows, NEW edit \in Edits, NEW stored \in Contents
  PROVE  LET doc == Restored([text EXCEPT !.hooks = edit], stored) IN
         /\ doc \in Contents /\ doc.last = text.last
         /\ doc.hooks = AsAsked(edit, stored.hooks)
<1> DEFINE sent == [text EXCEPT !.hooks = edit]
           hooks == [u \in Urls |-> IF edit[u] # Hidden THEN edit[u]
                                    ELSE IF stored.hooks[u] = None THEN Bare
                                    ELSE stored.hooks[u]]
<1>1. sent.hooks = edit /\ sent.last = text.last /\ sent = [hooks |-> edit, last |-> text.last]
  BY DEF Shows
<1>2. Restored(sent, stored) = [hooks |-> hooks, last |-> text.last]
  <2> HIDE DEF sent
  <2>1. Restored(sent, stored) = [sent EXCEPT !.hooks = hooks]
    BY <1>1 DEF Restored
  <2> HIDE DEF hooks
  <2> QED
    BY <1>1, <2>1
<1>3. stored.hooks \in Hooks /\ text.last \in Stamps
  BY DEF Contents, Shows
<1>4. hooks \in Hooks
  BY <1>3 DEF Hooks, Edits
<1>5. hooks = AsAsked(edit, stored.hooks)
  BY DEF AsAsked
<1> QED
  BY <1>2, <1>3, <1>4, <1>5 DEF Contents

LEMMA AskedIsHooks ==
  ASSUME NEW edit \in Edits, NEW had \in Hooks
  PROVE  AsAsked(edit, had) \in Hooks
BY DEF AsAsked, Edits, Hooks

LEMMA StampedIsContents ==
  ASSUME TypeOK, NEW doc \in Contents, NEW i \in DOMAIN doc.last
  PROVE  Stamped(doc, i) \in Contents
<1>1. PICK I \in {{}} \cup {Ids(d) : d \in Docs} : doc.last \in [I -> Times \cup {None}]
  BY DEF Contents, Stamps
<1>2. [doc.last EXCEPT ![i] = clock] \in [I -> Times \cup {None}]
  BY <1>1 DEF TypeOK
<1>3. [doc.last EXCEPT ![i] = clock] \in Stamps
  BY <1>2 DEF Stamps
<1> QED
  BY <1>3 DEF Stamped, Contents

-----------------------------------------------------------------------------
(***************************************************************************)
(* Type correctness.  A launch is of a schedule and for a document, a save *)
(* is of a document, and the save of a page has the user's edit.           *)
(***************************************************************************)
Sane(t) ==
  /\ t.pc \in {"check", "start", "stamp"} => t.what \in Schedules /\ t.doc \in Docs
  /\ t.pc \in {"save", "open", "replace"} => t.doc \in Docs
  /\ t.kind = "put" => t.edit \in Edits
Typed == TypeOK /\ \A a \in Threads : Sane(act[a])

LEMMA RestIsTyped ==
  /\ Rest \in Activities /\ Sane(Rest)
  /\ Sleep \in Activities /\ Sane(Sleep)
  /\ \A a : AfterSave(a) \in Activities /\ Sane(AfterSave(a))
  /\ \A pc \in {"read", "due"} :
       [Rest EXCEPT !.pc = pc] \in Activities /\ Sane([Rest EXCEPT !.pc = pc])
BY EmptyIsContents DEF Rest, Sleep, AfterSave, Activities, Sane

LEMMA LaunchIsTyped ==
  ASSUME NEW d \in Docs, NEW s \in Schedules
  PROVE  LET t == [Rest EXCEPT !.pc = "check", !.kind = "launch", !.doc = d, !.what = s] IN
         t \in Activities /\ Sane(t)
<1> DEFINE t == [Rest EXCEPT !.pc = "check", !.kind = "launch", !.doc = d, !.what = s]
<1>1. Rest \in [pc : {"rest"}, kind : {None}, doc : {None}, what : {None},
                copy : {Empty}, edit : {None}, fd : {"none"}]
  BY DEF Rest
<1>2. t \in [pc : {"check"}, kind : {"launch"}, doc : {d}, what : {s},
             copy : {Empty}, edit : {None}, fd : {"none"}]
  BY <1>1
<1> HIDE DEF t
<1>3. t \in Activities
  BY <1>2, EmptyIsContents DEF Activities
<1>4. t.pc = "check" /\ t.kind = "launch" /\ t.doc = d /\ t.what = s
  BY <1>2
<1>5. Sane(t)
  BY <1>4 DEF Sane
<1> QED
  BY <1>3, <1>5 DEF t

LEMMA MovedIsTyped ==
  ASSUME NEW t \in Activities, Sane(t), NEW d
  PROVE  Moved(t, d) \in Activities /\ Sane(Moved(t, d))
BY DEF Moved, Activities, Sane

LEMMA BecomesTyped ==
  ASSUME Typed, NEW a \in Threads, NEW t \in Activities, Sane(t), Becomes(a, t)
  PROVE  act' \in [Threads -> Activities] /\ \A b \in Threads : Sane(act'[b])
BY DEF Typed, TypeOK, Becomes

\* A thread that loads a document to save it.
LEMMA LoadsToSaveTyped ==
  ASSUME Typed, NEW a \in Threads, NEW d \in Docs, NEW kind \in {"put", "name", "launch"},
         NEW copy \in Contents, NEW edit \in Edits \cup {None},
         kind = "put" => edit \in Edits,
         LoadsToSave(a, d, kind, copy, edit)
  PROVE  /\ act' \in [Threads -> Activities] /\ \A b \in Threads : Sane(act'[b])
         /\ mixed' \subseteq Docs
<1> DEFINE t == [act[a] EXCEPT !.pc = "save", !.kind = kind, !.doc = d,
                               !.copy = copy, !.edit = edit]
<1>1. t \in Activities /\ Sane(t)
  <2>1. act[a] \in Activities
    BY DEF Typed, TypeOK
  <2>2. t \in Activities
    BY <2>1 DEF Activities
  <2>3. t.pc = "save" /\ t.kind = kind /\ t.doc = d /\ t.copy = copy /\ t.edit = edit
    BY <2>1 DEF Activities
  <2> QED
    BY <2>2, <2>3 DEF Sane
<1> HIDE DEF t
<1>2. Becomes(a, t) /\ mixed' \subseteq Docs
  BY DEF LoadsToSave, Typed, TypeOK, t
<1> QED
  BY <1>1, <1>2, BecomesTyped

LEMMA TypeInit == Init => Typed
<1> SUFFICES ASSUME Init PROVE Typed
  OBVIOUS
<1>0. newest \in [Docs -> Hooks]
  BY DEF Init, Hooks
<1>1. \A d \in Docs : [hooks |-> newest[d], last |-> [i \in Ids(d) |-> None]] \in Contents
  <2> SUFFICES ASSUME NEW d \in Docs
               PROVE  [hooks |-> newest[d], last |-> [i \in Ids(d) |-> None]] \in Contents
    OBVIOUS
  <2>1. [i \in Ids(d) |-> None] \in [Ids(d) -> Times \cup {None}]
    OBVIOUS
  <2>2. [i \in Ids(d) |-> None] \in Stamps
    BY <2>1 DEF Stamps
  <2> QED
    BY <1>0, <2>2 DEF Contents
<1>2. act \in [Threads -> Activities] /\ \A a \in Threads : Sane(act[a])
  BY RestIsTyped DEF Init
<1>3. file \in [Docs -> Contents \cup {Cut, Garbled}]
  BY <1>1 DEF Init
<1>4. /\ temp \in [Docs -> Contents \cup {Cut, Garbled, None}]
      /\ page \in [Tabs -> [doc : Docs, text : Shows] \cup {None}]
      /\ seen \in [Docs -> Contents \cup {None}] /\ due \subseteq Schedules
      /\ alive \in [Repos -> Nat] /\ tracked \subseteq Repos
  BY DEF Init
<1>5. /\ clock \in Times /\ asked \in 0..MaxRequests /\ crashes \in 0..MaxCrashes
      /\ launched \in [Schedules -> Times \cup {None}]
      /\ mixed \subseteq Docs /\ excused \subseteq Schedules /\ raced \subseteq Repos
  BY DEF Init, Times
<1> QED
  BY <1>0, <1>2, <1>3, <1>4, <1>5 DEF Typed, TypeOK

LEMMA SavesTyped ==
  ASSUME Typed, NEW a \in Threads,
         OpenTemp(a) \/ WriteTemp(a) \/ Replace(a) \/ ReplaceFails(a)
  PROVE  Typed'
<1>1. act[a] \in Activities /\ Sane(act[a])
  BY DEF Typed, TypeOK
<1>2. CASE OpenTemp(a)
  <2>1. [act[a] EXCEPT !.pc = "open", !.fd = "temp"] \in Activities
    BY <1>1 DEF Activities
  <2>2. Sane([act[a] EXCEPT !.pc = "open", !.fd = "temp"])
    BY <1>1, <1>2 DEF Activities, Sane, OpenTemp, At
  <2>3. act' \in [Threads -> Activities] /\ \A b \in Threads : Sane(act'[b])
    BY <1>2, <2>1, <2>2, BecomesTyped DEF OpenTemp
  <2> QED
    BY <1>2, <2>3 DEF Typed, TypeOK, OpenTemp, tick, past, runs
<1>3. CASE WriteTemp(a)
  <2>1. [act[a] EXCEPT !.pc = "replace"] \in Activities
    BY <1>1 DEF Activities
  <2>2. Sane([act[a] EXCEPT !.pc = "replace"])
    BY <1>1, <1>3 DEF Activities, Sane, WriteTemp, At
  <2>3. act' \in [Threads -> Activities] /\ \A b \in Threads : Sane(act'[b])
    BY <1>3, <2>1, <2>2, BecomesTyped DEF WriteTemp
  <2>4. \A old : Written(old, act[a].copy) \subseteq Contents \cup {Garbled}
    BY <1>1 DEF Written, Activities
  <2>5. file' \in [Docs -> Contents \cup {Cut, Garbled}]
    BY <1>3, <2>4 DEF WriteTemp, Typed, TypeOK
  <2>6. temp' \in [Docs -> Contents \cup {Cut, Garbled, None}]
    BY <1>3, <2>4 DEF WriteTemp, Typed, TypeOK
  <2> QED
    BY <1>3, <2>3, <2>5, <2>6 DEF Typed, TypeOK, WriteTemp, tick, past, runs
<1>4. CASE Replace(a)
  <2> DEFINE d == act[a].doc
  <2>1. d \in Docs /\ temp[d] \in Contents \cup {Cut, Garbled}
    BY <1>1, <1>4 DEF Replace, At, Sane, Typed, TypeOK
  <2>2. \A b \in Threads : act[b] \in Activities /\ Sane(act[b])
    BY DEF Typed, TypeOK
  <2>3. \A b \in Threads : Moved(act[b], d) \in Activities /\ Sane(Moved(act[b], d))
    BY <2>2, MovedIsTyped
  <2>4. act' \in [Threads -> Activities] /\ \A b \in Threads : Sane(act'[b])
    BY <1>4, <2>3, RestIsTyped DEF Replace
  <2>5. /\ file' \in [Docs -> Contents \cup {Cut, Garbled}]
        /\ temp' \in [Docs -> Contents \cup {Cut, Garbled, None}]
    BY <1>4, <2>1 DEF Replace, Typed, TypeOK
  <2>6. newest' \in [Docs -> Hooks]
    <3>1. CASE act[a].kind = "put"
      <4>1. newest' = [newest EXCEPT ![d] = AsAsked(act[a].edit, newest[d])]
        BY <1>4, <3>1 DEF Replace
      <4>2. AsAsked(act[a].edit, newest[d]) \in Hooks
        BY <1>1, <2>1, <3>1, AskedIsHooks DEF Sane, Typed, TypeOK
      <4> QED
        BY <4>1, <4>2 DEF Typed, TypeOK
    <3>2. CASE act[a].kind # "put"
      BY <1>4, <3>2 DEF Replace, Typed, TypeOK
    <3> QED
      BY <3>1, <3>2
  <2>7. excused' \subseteq Schedules /\ page' \in [Tabs -> [doc : Docs, text : Shows] \cup {None}]
    BY <1>4 DEF Replace, Typed, TypeOK, StampsLost
  <2> QED
    BY <1>4, <2>4, <2>5, <2>6, <2>7 DEF Typed, TypeOK, Replace, tick, runs
<1>5. CASE ReplaceFails(a)
  <2>1. act' \in [Threads -> Activities] /\ \A b \in Threads : Sane(act'[b])
    BY <1>5, RestIsTyped, BecomesTyped DEF ReplaceFails
  <2>2. seen' \in [Docs -> Contents \cup {None}] /\ due' \subseteq Schedules
    BY <1>5 DEF ReplaceFails, Forget, tick, Typed, TypeOK
  <2> QED
    BY <1>5, <2>1, <2>2 DEF Typed, TypeOK, ReplaceFails, Unstamped, disk, runs
<1> QED
  BY <1>2, <1>3, <1>4, <1>5

LEMMA RequestsTyped == ASSUME Typed, Requests PROVE Typed'
<1> PICK b \in Tabs : \/ Put(b) \/ Refuse(b)
                      \/ \E d \in Shown : Get(b, d)
                      \/ \E r \in Repos \cap Shown : Register(b, r)
                      \/ \E s \in Schedules : RunNow(b, s)
  BY DEF Requests
<1>0. b \in Threads
  BY DEF Threads
<1>1. CASE Put(b)
  <2> PICK d, text : d = page[b].doc /\ text = page[b].text
    OBVIOUS
  <2>1. d \in Docs /\ text \in Shows
    BY <1>1 DEF Put, Typed, TypeOK
  <2>2. asked' \in 0..MaxRequests /\ asked + 1 \in 1..MaxRequests
    BY <1>1 DEF Put, MayAsk, Typed, TypeOK
  <2>3. PICK edit \in [Urls -> {None, Hidden, asked + 1}] :
          LoadsToSave(b, d, "put", Restored([text EXCEPT !.hooks = edit], Load(d)), edit)
    BY <1>1 DEF Put
  <2>4. edit \in Edits
    BY <2>2 DEF Edits
  <2>5. Restored([text EXCEPT !.hooks = edit], Load(d)) \in Contents
    BY <2>1, <2>4, LoadIsContents, RestoredIsContents DEF Typed
  <2>6. /\ act' \in [Threads -> Activities] /\ \A a \in Threads : Sane(act'[a])
        /\ mixed' \subseteq Docs
    BY <1>0, <2>1, <2>3, <2>4, <2>5, LoadsToSaveTyped
  <2> QED
    BY <1>1, <2>2, <2>6 DEF Put, Typed, TypeOK, disk, tick, runs
<1>2. CASE Refuse(b)
  <2>1. act' \in [Threads -> Activities] /\ \A a \in Threads : Sane(act'[a])
    BY <1>0, <1>2, RestIsTyped, BecomesTyped DEF Refuse
  <2> QED
    BY <1>2, <2>1 DEF Refuse, Typed, TypeOK, disk, tick, past, runs
<1>3. ASSUME NEW d \in Shown, Get(b, d) PROVE Typed'
  <2>1. d \in Docs
    OBVIOUS
  <2>2. Redacted(Load(d)) \in Shows
    BY <2>1, LoadIsContents, RedactedIsShown DEF Typed
  <2>3. page' \in [Tabs -> [doc : Docs, text : Shows] \cup {None}]
    BY <1>3, <2>1, <2>2 DEF Get, Typed, TypeOK
  <2> QED
    BY <1>3, <2>3 DEF Get, Typed, TypeOK, disk, tick, past, runs
<1>4. ASSUME NEW r \in Repos \cap Shown, Register(b, r) PROVE Typed'
  <2>1. r \in Docs /\ asked' \in 0..MaxRequests
    BY <1>4 DEF Register, MayAsk, Typed, TypeOK, Docs
  <2>2. Load(r) \in Contents
    BY <2>1, LoadIsContents DEF Typed
  <2>3. /\ act' \in [Threads -> Activities] /\ \A a \in Threads : Sane(act'[a])
        /\ mixed' \subseteq Docs
    BY <1>0, <1>4, <2>1, <2>2, LoadsToSaveTyped DEF Register
  <2> QED
    BY <1>4, <2>1, <2>3 DEF Register, Typed, TypeOK, disk, tick, runs
<1>5. ASSUME NEW s \in Schedules, RunNow(b, s) PROVE Typed'
  <2>2. asked' \in 0..MaxRequests
    <3>1. asked < MaxRequests /\ asked' = asked + 1
      BY <1>5 DEF RunNow, MayAsk
    <3> QED
      BY <3>1 DEF Typed, TypeOK
  <2> DEFINE t == [Rest EXCEPT !.pc = "check", !.kind = "launch", !.doc = s.doc, !.what = s]
  <2>1. t \in Activities /\ Sane(t)
    <3>1. s.doc \in Docs
      OBVIOUS
    <3> QED
      BY <3>1, LaunchIsTyped
  <2>3. Becomes(b, t)
    BY <1>5 DEF RunNow
  <2> HIDE DEF t
  <2>4. act' \in [Threads -> Activities] /\ \A a \in Threads : Sane(act'[a])
    BY <1>0, <2>1, <2>3, BecomesTyped
  <2> QED
    BY <1>5, <2>2, <2>4 DEF RunNow, Typed, TypeOK, disk, tick, past, runs
<1> QED
  BY <1>1, <1>2, <1>3, <1>4, <1>5

LEMMA LaunchesTyped ==
  ASSUME Typed, NEW a \in Threads, Check(a) \/ TurnDown(a) \/ StartRun(a) \/ Stamp(a)
  PROVE  Typed'
<1>0. act[a] \in Activities /\ Sane(act[a])
  BY DEF Typed, TypeOK
<1>1. CASE Check(a)
  <2>1. /\ [act[a] EXCEPT !.pc = "start"] \in Activities /\ Sane([act[a] EXCEPT !.pc = "start"])
        /\ act[a].what.target \in Repos
    BY <1>0, <1>1 DEF Check, At, Activities, Sane
  <2>2. act' \in [Threads -> Activities] /\ \A b \in Threads : Sane(act'[b])
    BY <1>1, <2>1, BecomesTyped DEF Check
  <2>3. raced' \subseteq Repos
    BY <1>1, <2>1 DEF Check, Typed, TypeOK
  <2> QED
    BY <1>1, <2>2, <2>3 DEF Check, Typed, TypeOK, disk, tick, runs
<1>2. CASE TurnDown(a)
  <2>1. act' \in [Threads -> Activities] /\ \A b \in Threads : Sane(act'[b])
    BY <1>2, RestIsTyped, BecomesTyped DEF TurnDown
  <2> QED
    BY <1>2, <2>1 DEF TurnDown, Typed, TypeOK, disk, tick, past, runs
<1>3. CASE StartRun(a)
  <2>1. /\ [act[a] EXCEPT !.pc = "stamp"] \in Activities /\ Sane([act[a] EXCEPT !.pc = "stamp"])
        /\ act[a].what \in Schedules
    BY <1>0, <1>3 DEF StartRun, At, Activities, Sane
  <2>2. act' \in [Threads -> Activities] /\ \A b \in Threads : Sane(act'[b])
    BY <1>3, <2>1, BecomesTyped DEF StartRun
  <2>3. /\ alive' \in [Repos -> Nat] /\ excused' \subseteq Schedules
        /\ launched' \in [Schedules -> Times \cup {None}]
    BY <1>3, <2>1 DEF StartRun, Typed, TypeOK
  <2>4. tracked' \subseteq Repos /\ raced' \subseteq Repos
    BY <1>3, <2>1 DEF StartRun, JustStarted, Typed, TypeOK
  <2> QED
    BY <1>3, <2>2, <2>3, <2>4 DEF StartRun, Typed, TypeOK, disk, tick
<1>4. CASE Stamp(a)
  <2> DEFINE i == act[a].what.id  d == act[a].doc  doc == Owner(a, d)
  <2>1. d \in Docs /\ doc \in Contents
    BY <1>0, <1>4, LoadIsContents DEF Stamp, At, Sane, Owner, Typed
  <2>2. CASE i \in DOMAIN doc.last
    <3>1. Stamped(doc, i) \in Contents
      BY <2>1, <2>2, StampedIsContents DEF Typed
    <3>2. LoadsToSave(a, d, "launch", Stamped(doc, i), None)
      BY <1>4, <2>2 DEF Stamp
    <3> QED
      BY <2>1, <3>1, <3>2, LoadsToSaveTyped, <1>4 DEF Stamp, Typed, TypeOK, disk, tick, runs
  <2>3. CASE i \notin DOMAIN doc.last
    <3>1. Becomes(a, AfterSave(a)) /\ UNCHANGED mixed
      BY <1>4, <2>3 DEF Stamp
    <3>2. act' \in [Threads -> Activities] /\ \A b \in Threads : Sane(act'[b])
      BY <3>1, RestIsTyped, BecomesTyped
    <3> QED
      BY <1>4, <3>1, <3>2 DEF Stamp, Typed, TypeOK, disk, tick, runs
  <2> QED
    BY <2>2, <2>3
<1> QED
  BY <1>1, <1>2, <1>3, <1>4

LEMMA TickerTyped == ASSUME Typed, Ticker PROVE Typed'
<1>0. "ticker" \in Threads
  BY DEF Threads
<1>1. CASE TickDue
  <2>1. act' \in [Threads -> Activities] /\ \A b \in Threads : Sane(act'[b])
    BY <1>0, <1>1, RestIsTyped, BecomesTyped DEF TickDue
  <2> QED
    BY <1>1, <2>1 DEF TickDue, Typed, TypeOK, disk, past, runs
<1>2. CASE TickEnd
  <2>1. act' \in [Threads -> Activities] /\ \A b \in Threads : Sane(act'[b])
    BY <1>0, <1>2, RestIsTyped, BecomesTyped DEF TickEnd
  <2> QED
    BY <1>2, <2>1 DEF TickEnd, Forget, Typed, TypeOK, disk, past, runs
<1>3. ASSUME NEW d \in Docs, TickRead(d) PROVE Typed'
  <2>1. act' \in [Threads -> Activities] /\ \A b \in Threads : Sane(act'[b])
    BY <1>0, <1>3, RestIsTyped, BecomesTyped DEF TickRead, Typed, TypeOK
  <2>2. seen' \in [Docs -> Contents \cup {None}]
    BY <1>3, LoadIsContents DEF TickRead, Typed, TypeOK
  <2>3. excused' \subseteq Schedules
    BY <1>3 DEF TickRead, Typed, TypeOK, Unstamped
  <2> QED
    BY <1>3, <2>1, <2>2, <2>3 DEF TickRead, Typed, TypeOK, disk, runs
<1>4. ASSUME NEW s \in Schedules, TickNext(s) PROVE Typed'
  <2> DEFINE t == [Rest EXCEPT !.pc = "check", !.kind = "launch", !.doc = Source(s), !.what = s]
  <2>1. Source(s) \in Docs
    BY DEF Source, Docs
  <2>2. t \in Activities /\ Sane(t)
    BY <2>1, LaunchIsTyped
  <2>3. act' \in [Threads -> Activities] /\ \A b \in Threads : Sane(act'[b])
    BY <1>0, <1>4, <2>2, BecomesTyped DEF TickNext
  <2> QED
    BY <1>4, <2>3 DEF TickNext, Typed, TypeOK, disk, past, runs
<1> QED
  BY <1>1, <1>2, <1>3, <1>4 DEF Ticker

LEMMA WorldTyped == ASSUME Typed, World PROVE Typed'
<1>1. CASE MinutePasses
  <2>1. act' \in [Threads -> Activities] /\ \A b \in Threads : Sane(act'[b])
    BY <1>1, RestIsTyped DEF MinutePasses, Typed, TypeOK
  <2>2. clock' \in Times
    BY <1>1 DEF MinutePasses, Typed, TypeOK, Times
  <2> QED
    BY <1>1, <2>1, <2>2 DEF MinutePasses, Typed, TypeOK, disk, tick, past, runs
<1>2. CASE Crash
  <2>1. act' \in [Threads -> Activities] /\ \A b \in Threads : Sane(act'[b])
    BY <1>2, RestIsTyped DEF Crash
  <2>2. crashes' \in 0..MaxCrashes /\ alive' \in [Repos -> Nat]
    BY <1>2 DEF Crash, Typed, TypeOK
  <2>3. excused' \subseteq Schedules
    BY <1>2 DEF Crash, Typed, TypeOK, Unstamped
  <2> QED
    BY <1>2, <2>1, <2>2, <2>3 DEF Crash, Forget, Typed, TypeOK, disk
<1>3. ASSUME NEW r \in Repos, RunEnds(r) PROVE Typed'
  <2>1. alive' \in [Repos -> Nat]
    BY <1>3 DEF RunEnds, Typed, TypeOK
  <2> QED
    BY <1>3, <2>1 DEF RunEnds, Typed, TypeOK, disk, tick, past
<1> QED
  BY <1>1, <1>2, <1>3 DEF World

LEMMA TypeStep == ASSUME Typed, [Next]_vars PROVE Typed'
<1>1. CASE UNCHANGED vars
  BY <1>1 DEF Typed, TypeOK, Sane, vars, disk, tick, past, runs
<1> QED
  BY <1>1, SavesTyped, RequestsTyped, LaunchesTyped, TickerTyped, WorldTyped
  DEF Next, Saves, Launches

\* Files, pages, threads and the ticker's copies keep their types.
THEOREM TypeCorrect == Spec => []TypeOK
<1>1. Typed => TypeOK
  BY DEF Typed
<1> QED
  BY <1>1, TypeInit, TypeStep, PTL DEF Spec

-----------------------------------------------------------------------------
(***************************************************************************)
(* No save loses a secret.  One thread at most saves a document that is    *)
(* not in `mixed`; what it has in hand has the webhooks of the file or,    *)
(* for a page, those its user asks for, and the temporary file is its own. *)
(***************************************************************************)
OneSaver(d) == \A a, b \in Threads : Saving(a, d) /\ Saving(b, d) => a = b
Wanted(a, d) ==
  IF act[a].kind = "put" THEN AsAsked(act[a].edit, newest[d]) ELSE newest[d]
InHand(a, d) ==
  /\ act[a].copy.hooks = Wanted(a, d)
  /\ At(a, "open") => act[a].fd = "temp" /\ temp[d] = Cut
  /\ At(a, "replace") => temp[d] = act[a].copy
Kept(d) == file[d] \notin {Cut, Garbled} /\ file[d].hooks = newest[d]
SaveInv ==
  \A d \in Docs \ mixed :
    /\ Kept(d) /\ OneSaver(d)
    /\ \A a \in Threads : Saving(a, d) => InHand(a, d)

\* Most steps only end saves, or have nothing to do with them.
SavesNothing ==
  /\ UNCHANGED <<file, temp, newest, mixed>>
  /\ \A a \in Threads : act'[a] = act[a] \/ act'[a].pc \notin {"save", "open", "replace"}

LEMMA SavesNothingKept ==
  ASSUME SaveInv, SavesNothing
  PROVE  SaveInv'
<1> SUFFICES ASSUME NEW d \in Docs \ mixed
             PROVE  /\ Kept(d)' /\ OneSaver(d)'
                    /\ \A a \in Threads : Saving(a, d)' => InHand(a, d)'
  BY DEF SaveInv, SavesNothing
<1>1. /\ Kept(d) /\ OneSaver(d)
      /\ \A a \in Threads : Saving(a, d) => InHand(a, d)
  BY DEF SaveInv
<1>2. \A a \in Threads : Saving(a, d)' => Saving(a, d) /\ act'[a] = act[a]
  BY DEF SavesNothing, Saving
<1>3. Kept(d)'
  BY <1>1 DEF SavesNothing, Kept
<1>4. OneSaver(d)'
  BY <1>1, <1>2 DEF OneSaver
<1>5. \A a \in Threads : Saving(a, d)' => InHand(a, d)'
  BY <1>1, <1>2 DEF SavesNothing, InHand, Wanted, At
<1> QED
  BY <1>3, <1>4, <1>5

\* A thread that loads a document no other is saving holds its secret.
LEMMA LoadsKept ==
  ASSUME Typed, SaveInv, NEW a \in Threads, NEW e \in Docs,
         NEW kind \in {"put", "name", "launch"}, NEW copy, NEW edit,
         LoadsToSave(a, e, kind, copy, edit),
         act[a].pc \notin {"save", "open", "replace"},
         e \notin mixed => copy.hooks = IF kind = "put" THEN AsAsked(edit, newest[e])
                                        ELSE newest[e],
         UNCHANGED <<file, temp, newest>>
  PROVE  SaveInv'
<1> DEFINE t == [act[a] EXCEPT !.pc = "save", !.kind = kind, !.doc = e,
                               !.copy = copy, !.edit = edit]
<1>0. /\ mixed' = mixed \cup {f \in {e} : \E b \in Threads \ {a} : Saving(b, f)}
      /\ act' = [act EXCEPT ![a] = t]
  BY DEF LoadsToSave, Becomes
<1>a. act[a] \in Activities /\ act \in [Threads -> Activities]
  BY DEF Typed, TypeOK
<1>b. t.pc = "save" /\ t.kind = kind /\ t.doc = e /\ t.copy = copy /\ t.edit = edit
  BY <1>a DEF Activities
<1> HIDE DEF t
<1> SUFFICES ASSUME NEW d \in Docs \ mixed'
             PROVE  /\ Kept(d)' /\ OneSaver(d)'
                    /\ \A b \in Threads : Saving(b, d)' => InHand(b, d)'
  BY DEF SaveInv
<1>1. /\ d \notin mixed
      /\ Kept(d) /\ OneSaver(d)
      /\ \A b \in Threads : Saving(b, d) => InHand(b, d)
  BY <1>0 DEF SaveInv
<1>2. Kept(d)'
  BY <1>1 DEF Kept
<1>3. act'[a] = t /\ \A b \in Threads \ {a} : act'[b] = act[b]
  BY <1>0, <1>a
<1>4. ASSUME NEW b \in Threads, b # a, Saving(b, d)'
      PROVE  Saving(b, d) /\ d # e
  BY <1>0, <1>3, <1>4 DEF Saving
<1>5. Saving(a, d)' <=> d = e
  BY <1>b, <1>3 DEF Saving
<1>6. OneSaver(d)'
  BY <1>1, <1>4, <1>5 DEF OneSaver
<1>7. ASSUME NEW b \in Threads, Saving(b, d)'
      PROVE  InHand(b, d)'
  <2>1. CASE b # a
    BY <1>1, <1>3, <1>4, <1>7, <2>1 DEF InHand, Wanted, At
  <2>2. CASE b = a
    BY <1>1, <1>3, <1>5, <1>7, <1>b, <2>2 DEF InHand, Wanted, At
  <2> QED
    BY <2>1, <2>2
<1> QED
  BY <1>2, <1>6, <1>7

LEMMA SavesKept ==
  ASSUME Typed, SaveInv, NEW a \in Threads,
         OpenTemp(a) \/ WriteTemp(a) \/ Replace(a) \/ ReplaceFails(a)
  PROVE  SaveInv'
<1>a. /\ act[a] \in Activities /\ act \in [Threads -> Activities]
      /\ file \in [Docs -> Contents \cup {Cut, Garbled}]
      /\ temp \in [Docs -> Contents \cup {Cut, Garbled, None}]
      /\ newest \in [Docs -> Hooks]
      /\ Sane(act[a])
  BY DEF Typed, TypeOK
<1>1. CASE ReplaceFails(a)
  <2>1. /\ UNCHANGED <<file, temp, newest, mixed>>
        /\ act' = [act EXCEPT ![a] = Sleep] \/ act' = [act EXCEPT ![a] = Rest]
    BY <1>1 DEF ReplaceFails, Becomes, disk
  <2>2. SavesNothing
    BY <1>a, <2>1 DEF SavesNothing, Sleep, Rest
  <2> QED
    BY <2>2, SavesNothingKept
<1> PICK e : e = act[a].doc
  OBVIOUS
<1>2. CASE OpenTemp(a)
  <2>0. e \in Docs /\ Saving(a, e)
    BY <1>2, <1>a DEF OpenTemp, At, Sane, Saving
  <2>1. /\ UNCHANGED <<file, newest, mixed>>
        /\ temp' = [temp EXCEPT ![e] = Cut]
        /\ \A b \in Threads \ {a} : act'[b] = act[b]
        /\ act'[a].pc = "open" /\ act'[a].fd = "temp"
        /\ act'[a].doc = e /\ act'[a].copy = act[a].copy /\ act'[a].kind = act[a].kind
        /\ act'[a].edit = act[a].edit
    BY <1>2, <1>a DEF OpenTemp, Becomes, Activities, past
  <2> SUFFICES ASSUME NEW d \in Docs \ mixed
               PROVE  /\ Kept(d)' /\ OneSaver(d)'
                      /\ \A b \in Threads : Saving(b, d)' => InHand(b, d)'
    BY <2>1 DEF SaveInv
  <2>2. /\ Kept(d) /\ OneSaver(d)
        /\ \A b \in Threads : Saving(b, d) => InHand(b, d)
    BY DEF SaveInv
  <2>3. Kept(d)'
    BY <2>1, <2>2 DEF Kept
  <2>4. \A b \in Threads : Saving(b, d)' => Saving(b, d) /\ (b # a <=> d # e)
    BY <2>0, <2>1, <2>2 DEF Saving, OneSaver
  <2>5. OneSaver(d)'
    BY <2>2, <2>4 DEF OneSaver
  <2>6. ASSUME NEW b \in Threads, Saving(b, d)'
        PROVE  InHand(b, d)'
    <3>1. CASE b = a
      BY <1>a, <2>0, <2>1, <2>2, <2>4, <2>6, <3>1 DEF InHand, Wanted, At
    <3>2. CASE b # a
      <4>1. d # e /\ temp'[d] = temp[d] /\ act'[b] = act[b] /\ InHand(b, d)
        BY <1>a, <2>1, <2>2, <2>4, <2>6, <3>2
      <4> QED
        BY <2>1, <4>1 DEF InHand, Wanted, At
    <3> QED
      BY <3>1, <3>2
  <2> QED
    BY <2>3, <2>5, <2>6
<1>3. CASE WriteTemp(a)
  <2>0. e \in Docs /\ Saving(a, e)
    BY <1>3, <1>a DEF WriteTemp, At, Sane, Saving
  <2>1. /\ UNCHANGED <<newest, mixed>>
        /\ \A b \in Threads \ {a} : act'[b] = act[b]
        /\ act'[a].pc = "replace"
        /\ act'[a].doc = e /\ act'[a].copy = act[a].copy /\ act'[a].kind = act[a].kind
        /\ act'[a].edit = act[a].edit
    BY <1>3, <1>a DEF WriteTemp, Becomes, Activities, past
  <2>7. \A d \in Docs \ {e} : file'[d] = file[d] /\ temp'[d] = temp[d]
    BY <1>3, <1>a DEF WriteTemp
  <2>8. ASSUME e \notin mixed
        PROVE  file' = file /\ temp'[e] = act[a].copy
    <3>1. act[a].fd = "temp" /\ temp[e] = Cut
      BY <1>3, <2>0, <2>8 DEF SaveInv, InHand, WriteTemp
    <3>2. Written(Cut, act[a].copy) = {act[a].copy}
      BY DEF Written
    <3> QED
      BY <1>3, <1>a, <2>0, <3>1, <3>2 DEF WriteTemp
  <2> SUFFICES ASSUME NEW d \in Docs \ mixed
               PROVE  /\ Kept(d)' /\ OneSaver(d)'
                      /\ \A b \in Threads : Saving(b, d)' => InHand(b, d)'
    BY <2>1 DEF SaveInv
  <2>2. /\ Kept(d) /\ OneSaver(d)
        /\ \A b \in Threads : Saving(b, d) => InHand(b, d)
    BY DEF SaveInv
  <2>3. Kept(d)'
    BY <2>1, <2>2, <2>7, <2>8 DEF Kept
  <2>4. \A b \in Threads : Saving(b, d)' => Saving(b, d) /\ (b # a <=> d # e)
    BY <2>0, <2>1, <2>2 DEF Saving, OneSaver
  <2>5. OneSaver(d)'
    BY <2>2, <2>4 DEF OneSaver
  <2>6. ASSUME NEW b \in Threads, Saving(b, d)'
        PROVE  InHand(b, d)'
    <3>1. CASE b = a
      BY <2>0, <2>1, <2>2, <2>4, <2>6, <2>8, <3>1 DEF InHand, Wanted, At
    <3>2. CASE b # a
      <4>1. d # e /\ temp'[d] = temp[d] /\ act'[b] = act[b] /\ InHand(b, d)
        BY <2>1, <2>2, <2>4, <2>6, <2>7, <3>2
      <4> QED
        BY <2>1, <4>1 DEF InHand, Wanted, At
    <3> QED
      BY <3>1, <3>2
  <2> QED
    BY <2>3, <2>5, <2>6
<1>4. CASE Replace(a)
  <2>0. e \in Docs /\ Saving(a, e)
    BY <1>4, <1>a DEF Replace, At, Sane, Saving
  <2>1. /\ mixed' = mixed
        /\ file' = [file EXCEPT ![e] = temp[e]] /\ temp' = [temp EXCEPT ![e] = None]
        /\ newest' = IF act[a].kind = "put"
                     THEN [newest EXCEPT ![e] = AsAsked(act[a].edit, @)] ELSE newest
        /\ act' = [b \in Threads |-> IF b = a THEN AfterSave(a) ELSE Moved(act[b], e)]
    BY <1>4 DEF Replace
  <2>2. act'[a].pc \notin {"save", "open", "replace"}
    BY <2>1 DEF AfterSave, Rest
  <2>3. \A b \in Threads \ {a} : act[b].doc # e => act'[b] = act[b]
    BY <2>1 DEF Moved
  <2>4. \A b \in Threads \ {a} : act'[b].doc = act[b].doc /\ act'[b].pc = act[b].pc
    <3> SUFFICES ASSUME NEW b \in Threads \ {a}
                 PROVE  Moved(act[b], e).doc = act[b].doc /\ Moved(act[b], e).pc = act[b].pc
      BY <2>1
    <3>1. act[b] \in Activities
      BY <1>a
    <3> QED
      BY <3>1 DEF Moved, Activities
  <2>5. ASSUME e \notin mixed
        PROVE  Kept(e)'
    <3>1. temp[e] = act[a].copy /\ act[a].copy.hooks = Wanted(a, e)
      BY <1>4, <2>0, <2>5 DEF SaveInv, InHand, Replace
    <3>2. temp[e] \in Contents
      BY <1>a, <3>1 DEF Activities
    <3>3. newest'[e] = Wanted(a, e) /\ file'[e] = temp[e]
      BY <1>a, <2>0, <2>1 DEF Wanted
    <3>4. temp[e] \notin {Cut, Garbled}
      BY <3>2
    <3> QED
      BY <3>1, <3>3, <3>4 DEF Kept
  <2> SUFFICES ASSUME NEW d \in Docs \ mixed
               PROVE  /\ Kept(d)' /\ OneSaver(d)'
                      /\ \A b \in Threads : Saving(b, d)' => InHand(b, d)'
    BY <2>1 DEF SaveInv
  <2>6. /\ Kept(d) /\ OneSaver(d)
        /\ \A b \in Threads : Saving(b, d) => InHand(b, d)
    BY DEF SaveInv
  <2>7. d # e => file'[d] = file[d] /\ temp'[d] = temp[d] /\ newest'[d] = newest[d]
    BY <1>a, <2>0, <2>1
  <2>8. Kept(d)'
    BY <2>5, <2>6, <2>7 DEF Kept
  <2>10. \A b \in Threads : Saving(b, d)' => b # a /\ Saving(b, d) /\ d # e
    BY <2>0, <2>2, <2>4, <2>6 DEF Saving, OneSaver
  <2>11. OneSaver(d)'
    BY <2>6, <2>10 DEF OneSaver
  <2>12. ASSUME NEW b \in Threads, Saving(b, d)'
         PROVE  InHand(b, d)'
    <3>1. b # a /\ Saving(b, d) /\ d # e /\ InHand(b, d)
      BY <2>6, <2>10, <2>12
    <3>2. act'[b] = act[b]
      BY <2>3, <3>1 DEF Saving
    <3> QED
      BY <2>7, <3>1, <3>2 DEF InHand, Wanted, At
  <2> QED
    BY <2>8, <2>11, <2>12
<1> QED
  BY <1>1, <1>2, <1>3, <1>4

LEMMA SaveInit == Init => SaveInv
<1> SUFFICES ASSUME Init, NEW d \in Docs
             PROVE  /\ Kept(d) /\ OneSaver(d)
                    /\ \A a \in Threads : Saving(a, d) => InHand(a, d)
  BY DEF SaveInv
<1>1. Kept(d)
  <2>0. newest[d] \in Hooks
    BY DEF Init, Hooks
  <2>1. file[d] = [hooks |-> newest[d], last |-> [i \in Ids(d) |-> None]]
    BY DEF Init
  <2>2. file[d] \in Contents \cup {Cut, Garbled} /\ file[d] \in Contents
    <3>1. [i \in Ids(d) |-> None] \in Stamps
      <4>1. [i \in Ids(d) |-> None] \in [Ids(d) -> Times \cup {None}]
        OBVIOUS
      <4> QED
        BY <4>1 DEF Stamps
    <3> QED
      BY <2>0, <2>1, <3>1 DEF Contents
  <2> QED
    BY <2>1, <2>2 DEF Kept
<1>2. \A a \in Threads : ~Saving(a, d)
  BY DEF Init, Saving, Rest
<1> QED
  BY <1>1, <1>2 DEF OneSaver

\* What a thread loads of a document that is kept.
LEMMA LoadKept ==
  ASSUME SaveInv, NEW d \in Docs \ mixed
  PROVE  Load(d) = file[d] /\ Load(d).hooks = newest[d]
BY DEF SaveInv, Kept, Load

LEMMA RequestsKept == ASSUME Typed, SaveInv, Requests PROVE SaveInv'
<1> PICK b \in Tabs : \/ Put(b) \/ Refuse(b)
                      \/ \E d \in Shown : Get(b, d)
                      \/ \E r \in Repos \cap Shown : Register(b, r)
                      \/ \E s \in Schedules : RunNow(b, s)
  BY DEF Requests
<1>0. b \in Threads /\ act \in [Threads -> Activities]
  BY DEF Threads, Typed, TypeOK
<1>1. CASE Put(b)
  <2>1. PICK d, text : d = page[b].doc /\ text = page[b].text
    OBVIOUS
  <2>2. d \in Docs /\ text \in Shows
    BY <1>1, <2>1 DEF Put, Typed, TypeOK
  <2>3. act[b].pc = "rest" /\ UNCHANGED <<file, temp, newest>>
    BY <1>1 DEF Put, MayAsk, At, disk
  <2>4. PICK edit \in [Urls -> {None, Hidden, asked + 1}] :
          LoadsToSave(b, d, "put", Restored([text EXCEPT !.hooks = edit], Load(d)), edit)
    BY <1>1, <2>1 DEF Put
  <2>5. edit \in Edits
    BY <1>1 DEF Put, MayAsk, Edits, Typed, TypeOK
  <2>6. Restored([text EXCEPT !.hooks = edit], Load(d)).hooks = AsAsked(edit, Load(d).hooks)
    BY <2>2, <2>5, LoadIsContents, RestoredIsContents DEF Typed
  <2>7. d \notin mixed =>
          Restored([text EXCEPT !.hooks = edit], Load(d)).hooks = AsAsked(edit, newest[d])
    BY <2>2, <2>6, LoadKept
  <2> QED
    BY <1>0, <2>2, <2>3, <2>4, <2>7, LoadsKept
<1>2. CASE Refuse(b)
  <2>1. SavesNothing
    BY <1>0, <1>2 DEF Refuse, Becomes, Rest, SavesNothing, disk, past
  <2> QED
    BY <2>1, SavesNothingKept
<1>3. ASSUME NEW e \in Shown, Get(b, e) PROVE SaveInv'
  <2>1. SavesNothing
    BY <1>3 DEF Get, SavesNothing, disk, past
  <2> QED
    BY <2>1, SavesNothingKept
<1>4. ASSUME NEW r \in Repos \cap Shown, Register(b, r) PROVE SaveInv'
  <2>1. /\ r \in Docs /\ act[b].pc = "rest" /\ UNCHANGED <<file, temp, newest>>
        /\ LoadsToSave(b, r, "name", Load(r), None)
    BY <1>4 DEF Register, MayAsk, At, disk, Docs
  <2> QED
    BY <1>0, <2>1, LoadKept, LoadsKept
<1>5. ASSUME NEW s \in Schedules, RunNow(b, s) PROVE SaveInv'
  <2>1. act'[b].pc = "check" /\ \A a \in Threads \ {b} : act'[a] = act[a]
    BY <1>0, <1>5 DEF RunNow, Becomes, Rest
  <2>2. SavesNothing
    BY <1>5, <2>1 DEF RunNow, SavesNothing, disk, past
  <2> QED
    BY <2>2, SavesNothingKept
<1> QED
  BY <1>1, <1>2, <1>3, <1>4, <1>5

LEMMA LaunchesKept ==
  ASSUME Typed, SaveInv, NEW a \in Threads, Check(a) \/ TurnDown(a) \/ StartRun(a) \/ Stamp(a)
  PROVE  SaveInv'
<1>0. act \in [Threads -> Activities] /\ act[a] \in Activities /\ Sane(act[a])
  BY DEF Typed, TypeOK
<1>1. CASE Check(a)
  <2>1. act'[a].pc = "start" /\ \A b \in Threads \ {a} : act'[b] = act[b]
    BY <1>0, <1>1 DEF Check, Becomes, Activities
  <2>2. SavesNothing
    BY <1>1, <2>1 DEF Check, SavesNothing, disk
  <2> QED
    BY <2>2, SavesNothingKept
<1>2. CASE TurnDown(a)
  <2>1. SavesNothing
    BY <1>0, <1>2 DEF TurnDown, Becomes, AfterSave, Rest, SavesNothing, disk, past
  <2> QED
    BY <2>1, SavesNothingKept
<1>3. CASE StartRun(a)
  <2>1. act'[a].pc = "stamp" /\ \A b \in Threads \ {a} : act'[b] = act[b]
    BY <1>0, <1>3 DEF StartRun, Becomes, Activities
  <2>2. SavesNothing
    BY <1>3, <2>1 DEF StartRun, SavesNothing, disk
  <2> QED
    BY <2>2, SavesNothingKept
<1>4. CASE Stamp(a)
  <2>1. PICK d, i : d = act[a].doc /\ i = act[a].what.id
    OBVIOUS
  <2>2. d \in Docs /\ act[a].pc = "stamp" /\ UNCHANGED <<file, temp, newest>>
    BY <1>0, <1>4, <2>1 DEF Stamp, At, Sane, disk
  <2>3. CASE LoadsToSave(a, d, "launch", Stamped(Load(d), i), None)
    <3>1. Stamped(Load(d), i).hooks = Load(d).hooks
      <4>1. Load(d) \in Contents
        BY <2>2, LoadIsContents DEF Typed
      <4> QED
        BY <4>1 DEF Stamped, Contents
    <3> QED
      BY <2>2, <2>3, <3>1, LoadKept, LoadsKept
  <2>4. CASE Becomes(a, AfterSave(a)) /\ UNCHANGED mixed
    <3>1. SavesNothing
      BY <1>0, <2>2, <2>4 DEF Becomes, AfterSave, Rest, SavesNothing
    <3> QED
      BY <3>1, SavesNothingKept
  <2> QED
    BY <1>4, <2>1, <2>3, <2>4 DEF Stamp, Owner
<1> QED
  BY <1>1, <1>2, <1>3, <1>4

LEMMA TickerKept == ASSUME Typed, SaveInv, Ticker PROVE SaveInv'
<1>0. "ticker" \in Threads /\ act \in [Threads -> Activities]
  BY DEF Threads, Typed, TypeOK
<1>1. /\ UNCHANGED <<file, temp, newest, mixed>>
      /\ UNCHANGED act \/ \E t : Becomes("ticker", t) /\ t.pc \in {"read", "due", "check", "sleep"}
  <2>1. CASE TickDue
    BY <2>1 DEF TickDue, Rest, disk, past
  <2>2. CASE TickEnd
    BY <2>2 DEF TickEnd, Sleep, Rest, disk, past
  <2>3. ASSUME NEW d \in Docs, TickRead(d)
        PROVE  /\ UNCHANGED <<file, temp, newest, mixed>>
               /\ UNCHANGED act \/ Becomes("ticker", [Rest EXCEPT !.pc = "read"])
    BY <2>3 DEF TickRead, disk
  <2>4. [Rest EXCEPT !.pc = "read"].pc = "read"
    BY DEF Rest
  <2>5. ASSUME NEW s \in Schedules, TickNext(s)
        PROVE  /\ UNCHANGED <<file, temp, newest, mixed>>
               /\ \E t : Becomes("ticker", t) /\ t.pc = "check"
    <3> DEFINE t == [Rest EXCEPT !.pc = "check", !.kind = "launch", !.doc = Source(s), !.what = s]
    <3>1. t.pc = "check"
      BY DEF Rest
    <3> HIDE DEF t
    <3>2. UNCHANGED <<file, temp, newest, mixed>> /\ Becomes("ticker", t)
      BY <2>5 DEF TickNext, disk, past, t
    <3> QED
      BY <3>1, <3>2
  <2> QED
    BY <2>1, <2>2, <2>3, <2>4, <2>5 DEF Ticker
<1>2. SavesNothing
  BY <1>0, <1>1 DEF SavesNothing, Becomes
<1> QED
  BY <1>2, SavesNothingKept

LEMMA WorldKept == ASSUME Typed, SaveInv, World PROVE SaveInv'
<1>0. act \in [Threads -> Activities]
  BY DEF Typed, TypeOK
<1>1. CASE MinutePasses
  <2>1. SavesNothing
    BY <1>0, <1>1 DEF MinutePasses, SavesNothing, Rest, disk, past
  <2> QED
    BY <2>1, SavesNothingKept
<1>2. CASE Crash
  <2>1. SavesNothing
    BY <1>0, <1>2 DEF Crash, SavesNothing, Rest, disk
  <2> QED
    BY <2>1, SavesNothingKept
<1>3. ASSUME NEW r \in Repos, RunEnds(r) PROVE SavesNothing
  BY <1>3 DEF RunEnds, SavesNothing, disk, past
<1> QED
  BY <1>1, <1>2, <1>3, SavesNothingKept DEF World

LEMMA SaveStep == ASSUME Typed, SaveInv, [Next]_vars PROVE SaveInv'
<1>1. CASE UNCHANGED vars
  <2>1. SavesNothing
    BY <1>1 DEF SavesNothing, vars, disk, past
  <2> QED
    BY <2>1, SavesNothingKept
<1> QED
  BY <1>1, SavesKept, RequestsKept, LaunchesKept, TickerKept, WorldKept
  DEF Next, Saves, Launches

\* Whatever pages, stamps and crashes come in between, a document that two saves
\* did not overlap on is whole and has the webhooks that users asked for, each
\* with the secret last given to its URL (config.py, restore_secrets).
THEOREM SecretsKept == Spec => []NothingLost
<1>1. SaveInv => NothingLost
  BY DEF SaveInv, Kept, NothingLost
<1> QED
  BY <1>1, TypeInit, TypeStep, SaveInit, SaveStep, PTL DEF Spec

-----------------------------------------------------------------------------
(***************************************************************************)
(* One run in a repository.  In one that is not in `raced` a run that is   *)
(* alive is tracked, and a thread that has passed the test of a launch is  *)
(* the only one and finds no run alive.                                    *)
(***************************************************************************)
Starts(a, r) == At(a, "start") /\ act[a].what.target = r
OneInv ==
  \A r \in Repos \ raced :
    /\ alive[r] <= 1 /\ (alive[r] = 1 => r \in tracked)
    /\ \A a \in Threads : Starts(a, r) => alive[r] = 0
    /\ \A a, b \in Threads : Starts(a, r) /\ Starts(b, r) => a = b

StartsNothing ==
  /\ UNCHANGED <<alive, tracked, raced>>
  /\ \A a \in Threads : act'[a] = act[a] \/ act'[a].pc # "start"

LEMMA StartsNothingKept ==
  ASSUME OneInv, StartsNothing
  PROVE  OneInv'
<1>1. \A a \in Threads, r \in Repos : Starts(a, r)' => Starts(a, r)
  BY DEF StartsNothing, Starts, At
<1> QED
  BY <1>1 DEF OneInv, StartsNothing

LEMMA OneInit == Init => OneInv
BY DEF Init, OneInv, Starts, At, Rest

LEMMA SavesStartNothing ==
  ASSUME Typed, NEW a \in Threads,
         OpenTemp(a) \/ WriteTemp(a) \/ Replace(a) \/ ReplaceFails(a)
  PROVE  StartsNothing
<1>0. act \in [Threads -> Activities] /\ act[a] \in Activities
  BY DEF Typed, TypeOK
<1>1. CASE OpenTemp(a)
  <2>1. act'[a].pc = "open" /\ \A b \in Threads \ {a} : act'[b] = act[b]
    BY <1>0, <1>1 DEF OpenTemp, Becomes, Activities
  <2> QED
    BY <1>1, <2>1 DEF OpenTemp, StartsNothing, past, runs
<1>2. CASE WriteTemp(a)
  <2>1. act'[a].pc = "replace" /\ \A b \in Threads \ {a} : act'[b] = act[b]
    BY <1>0, <1>2 DEF WriteTemp, Becomes, Activities
  <2> QED
    BY <1>2, <2>1 DEF WriteTemp, StartsNothing, past, runs
<1>3. CASE Replace(a)
  <2>1. act'[a].pc # "start"
    BY <1>3 DEF Replace, AfterSave, Rest
  <2>2. ASSUME NEW b \in Threads \ {a}
        PROVE  act'[b] = act[b] \/ act'[b].pc # "start"
    <3>1. PICK d : act'[b] = Moved(act[b], d)
      BY <1>3 DEF Replace
    <3>2. act[b] \in Activities
      BY <1>0
    <3> QED
      BY <3>1, <3>2 DEF Moved, Activities
  <2> QED
    BY <1>3, <2>1, <2>2 DEF Replace, StartsNothing, runs
<1>4. CASE ReplaceFails(a)
  BY <1>0, <1>4 DEF ReplaceFails, Becomes, Sleep, Rest, StartsNothing, runs
<1> QED
  BY <1>1, <1>2, <1>3, <1>4

LEMMA RequestsStartNothing == ASSUME Typed, Requests PROVE StartsNothing
<1> PICK b \in Tabs : \/ Put(b) \/ Refuse(b)
                      \/ \E d \in Shown : Get(b, d)
                      \/ \E r \in Repos \cap Shown : Register(b, r)
                      \/ \E s \in Schedules : RunNow(b, s)
  BY DEF Requests
<1>0. b \in Threads /\ act \in [Threads -> Activities] /\ act[b] \in Activities
  BY DEF Threads, Typed, TypeOK
<1>1. ASSUME NEW d, NEW kind, NEW copy, NEW edit,
             LoadsToSave(b, d, kind, copy, edit)
      PROVE  act'[b].pc = "save" /\ \A a \in Threads \ {b} : act'[a] = act[a]
  BY <1>0, <1>1 DEF LoadsToSave, Becomes, Activities
<1>2. CASE Put(b)
  BY <1>1, <1>2 DEF Put, StartsNothing, runs
<1>3. CASE Refuse(b)
  BY <1>0, <1>3 DEF Refuse, Becomes, Rest, StartsNothing, past, runs
<1>4. ASSUME NEW d \in Shown, Get(b, d) PROVE StartsNothing
  BY <1>4 DEF Get, StartsNothing, past, runs
<1>5. ASSUME NEW r \in Repos \cap Shown, Register(b, r) PROVE StartsNothing
  BY <1>1, <1>5 DEF Register, StartsNothing, runs
<1>6. ASSUME NEW s \in Schedules, RunNow(b, s) PROVE StartsNothing
  <2>1. act'[b].pc = "check" /\ \A a \in Threads \ {b} : act'[a] = act[a]
    BY <1>0, <1>6 DEF RunNow, Becomes, Rest
  <2> QED
    BY <1>6, <2>1 DEF RunNow, StartsNothing, past, runs
<1> QED
  BY <1>2, <1>3, <1>4, <1>5, <1>6

LEMMA TickerStartsNothing == ASSUME Typed, Ticker PROVE StartsNothing
<1>0. "ticker" \in Threads /\ act \in [Threads -> Activities]
  BY DEF Threads, Typed, TypeOK
<1>1. CASE TickDue
  BY <1>0, <1>1 DEF TickDue, Becomes, Rest, StartsNothing, past, runs
<1>2. CASE TickEnd
  BY <1>0, <1>2 DEF TickEnd, Becomes, Sleep, Rest, StartsNothing, past, runs
<1>3. ASSUME NEW d \in Docs, TickRead(d) PROVE StartsNothing
  <2>1. [Rest EXCEPT !.pc = "read"].pc = "read"
    BY DEF Rest
  <2> QED
    BY <1>0, <1>3, <2>1 DEF TickRead, Becomes, StartsNothing, runs
<1>4. ASSUME NEW s \in Schedules, TickNext(s) PROVE StartsNothing
  <2>1. act'["ticker"].pc = "check" /\ \A a \in Threads \ {"ticker"} : act'[a] = act[a]
    BY <1>0, <1>4 DEF TickNext, Becomes, Rest
  <2> QED
    BY <1>4, <2>1 DEF TickNext, StartsNothing, past, runs
<1> QED
  BY <1>1, <1>2, <1>3, <1>4 DEF Ticker

LEMMA LaunchesOne ==
  ASSUME Typed, OneInv, NEW a \in Threads, Check(a) \/ TurnDown(a) \/ StartRun(a) \/ Stamp(a)
  PROVE  OneInv'
<1>0. act \in [Threads -> Activities] /\ act[a] \in Activities /\ Sane(act[a])
      /\ alive \in [Repos -> Nat]
  BY DEF Typed, TypeOK
<1>1. CASE Check(a)
  <2>1. PICK q \in Repos : q = act[a].what.target
    BY <1>0, <1>1 DEF Check, At, Sane
  <2>2. /\ act'[a].pc = "start" /\ act'[a].what = act[a].what
        /\ \A b \in Threads \ {a} : act'[b] = act[b]
    BY <1>0, <1>1 DEF Check, Becomes, Activities
  <2>3. /\ q \notin tracked /\ alive' = alive /\ tracked' = tracked
        /\ raced' = IF \E b \in Threads \ {a} : Starts(b, q) THEN raced \cup {q} ELSE raced
    BY <1>1, <2>1 DEF Check, FreeRepo, Starts, runs
  <2>4. \A b \in Threads \ {a}, r \in Repos : Starts(b, r)' <=> Starts(b, r)
    BY <2>2 DEF Starts, At
  <2>5. \A r \in Repos : Starts(a, r)' <=> r = q
    BY <2>1, <2>2 DEF Starts, At
  <2> SUFFICES ASSUME NEW r \in Repos \ raced'
               PROVE  /\ alive'[r] <= 1 /\ (alive'[r] = 1 => r \in tracked')
                      /\ \A b \in Threads : Starts(b, r)' => alive'[r] = 0
                      /\ \A b, c \in Threads : Starts(b, r)' /\ Starts(c, r)' => b = c
    BY DEF OneInv
  <2>6. /\ r \notin raced /\ alive[r] <= 1 /\ (alive[r] = 1 => r \in tracked)
        /\ \A b \in Threads : Starts(b, r) => alive[r] = 0
        /\ \A b, c \in Threads : Starts(b, r) /\ Starts(c, r) => b = c
    BY <2>3 DEF OneInv
  <2>7. CASE r = q
    <3>1. \A b \in Threads \ {a} : ~Starts(b, r)
      BY <2>3, <2>7
    <3>2. alive[r] = 0
      BY <1>0, <2>3, <2>6, <2>7
    <3> QED
      BY <2>3, <2>4, <2>6, <2>7, <3>1, <3>2
  <2>8. CASE r # q
    BY <2>3, <2>4, <2>5, <2>6, <2>8
  <2> QED
    BY <2>7, <2>8
<1>2. CASE TurnDown(a)
  <2>1. StartsNothing
    BY <1>0, <1>2 DEF TurnDown, Becomes, AfterSave, Rest, StartsNothing, past, runs
  <2> QED
    BY <2>1, StartsNothingKept
<1>3. CASE StartRun(a)
  <2>1. PICK q \in Repos : q = act[a].what.target
    BY <1>0, <1>3 DEF StartRun, At, Sane
  <2>2. act'[a].pc = "stamp" /\ \A b \in Threads \ {a} : act'[b] = act[b]
    BY <1>0, <1>3 DEF StartRun, Becomes, Activities
  <2>3. /\ Starts(a, q) /\ alive'[q] = alive[q] + 1
        /\ \A r \in Repos \ {q} : alive'[r] = alive[r]
        /\ raced \subseteq raced' /\ q \in tracked'
        /\ tracked \subseteq tracked' \cup raced'
    BY <1>0, <1>3, <2>1 DEF StartRun, Starts
  <2>4. \A b \in Threads, r \in Repos : Starts(b, r)' => b # a /\ Starts(b, r)
    BY <2>2 DEF Starts, At
  <2> SUFFICES ASSUME NEW r \in Repos \ raced'
               PROVE  /\ alive'[r] <= 1 /\ (alive'[r] = 1 => r \in tracked')
                      /\ \A b \in Threads : Starts(b, r)' => alive'[r] = 0
                      /\ \A b, c \in Threads : Starts(b, r)' /\ Starts(c, r)' => b = c
    BY DEF OneInv
  <2>5. /\ alive[r] <= 1 /\ (alive[r] = 1 => r \in tracked)
        /\ \A b \in Threads : Starts(b, r) => alive[r] = 0
        /\ \A b, c \in Threads : Starts(b, r) /\ Starts(c, r) => b = c
    BY <2>3 DEF OneInv
  <2>6. CASE r = q
    <3>1. \A b \in Threads : ~Starts(b, r)'
      BY <2>3, <2>4, <2>5, <2>6
    <3> QED
      BY <2>3, <2>5, <2>6, <3>1
  <2>7. CASE r # q
    BY <2>3, <2>4, <2>5, <2>7
  <2> QED
    BY <2>6, <2>7
<1>4. CASE Stamp(a)
  <2>1. \A b \in Threads \ {a} : act'[b] = act[b]
    BY <1>0, <1>4 DEF Stamp, LoadsToSave, Becomes
  <2>2. act'[a].pc # "start"
    <3>1. ASSUME NEW d, NEW copy, LoadsToSave(a, d, "launch", copy, None)
          PROVE  act'[a].pc = "save"
      BY <1>0, <3>1 DEF LoadsToSave, Becomes, Activities
    <3>2. Becomes(a, AfterSave(a)) => act'[a].pc # "start"
      BY <1>0 DEF Becomes, AfterSave, Rest
    <3> QED
      BY <1>4, <3>1, <3>2 DEF Stamp
  <2>3. StartsNothing
    BY <1>4, <2>1, <2>2 DEF Stamp, StartsNothing, runs
  <2> QED
    BY <2>3, StartsNothingKept
<1> QED
  BY <1>1, <1>2, <1>3, <1>4

LEMMA WorldOne == ASSUME Typed, OneInv, World PROVE OneInv'
<1>0. act \in [Threads -> Activities] /\ alive \in [Repos -> Nat]
  BY DEF Typed, TypeOK
<1>1. CASE MinutePasses
  <2>1. StartsNothing
    BY <1>0, <1>1 DEF MinutePasses, StartsNothing, Rest, past, runs
  <2> QED
    BY <2>1, StartsNothingKept
<1>2. CASE Crash
  BY <1>0, <1>2 DEF Crash, OneInv, Starts, At, Rest
<1>3. ASSUME NEW q \in Repos, RunEnds(q) PROVE OneInv'
  <2>1. /\ alive[q] > 0 /\ alive'[q] = alive[q] - 1 /\ act' = act /\ raced' = raced
        /\ \A r \in Repos \ {q} : alive'[r] = alive[r] /\ (r \in tracked => r \in tracked')
    BY <1>0, <1>3 DEF RunEnds, past
  <2>2. alive[q] \in Nat
    BY <1>0
  <2>3. \A a \in Threads, r \in Repos : Starts(a, r)' <=> Starts(a, r)
    BY <2>1 DEF Starts, At
  <2> SUFFICES ASSUME NEW r \in Repos \ raced
               PROVE  /\ alive'[r] <= 1 /\ (alive'[r] = 1 => r \in tracked')
                      /\ \A b \in Threads : Starts(b, r)' => alive'[r] = 0
                      /\ \A b, c \in Threads : Starts(b, r)' /\ Starts(c, r)' => b = c
    BY <2>1 DEF OneInv
  <2>4. /\ alive[r] <= 1 /\ (alive[r] = 1 => r \in tracked)
        /\ \A b \in Threads : Starts(b, r) => alive[r] = 0
        /\ \A b, c \in Threads : Starts(b, r) /\ Starts(c, r) => b = c
    BY DEF OneInv
  <2>5. \/ alive'[r] = alive[r] /\ (r \in tracked => r \in tracked')
        \/ alive[r] = 1 /\ alive'[r] = 0
    BY <2>1, <2>2, <2>4
  <2> QED
    BY <2>3, <2>4, <2>5
<1> QED
  BY <1>1, <1>2, <1>3 DEF World

LEMMA OneStep == ASSUME Typed, OneInv, [Next]_vars PROVE OneInv'
<1>1. CASE UNCHANGED vars
  <2>1. StartsNothing
    BY <1>1 DEF StartsNothing, vars, past, runs
  <2> QED
    BY <2>1, StartsNothingKept
<1>2. Requests \/ Saves \/ Ticker => StartsNothing
  BY SavesStartNothing, RequestsStartNothing, TickerStartsNothing DEF Saves
<1> QED
  BY <1>1, <1>2, StartsNothingKept, LaunchesOne, WorldOne DEF Next, Launches

\* However runs, requests, ticks and crashes come, a repository never has two runs
\* of the scheduler's, unless two launches looked at it at one time or its run lost
\* its entry.
THEOREM OneRun == Spec => []OneRunPerRepo
<1>1. OneInv => OneRunPerRepo
  BY DEF OneInv, OneRunPerRepo
<1> QED
  BY <1>1, TypeInit, TypeStep, OneInit, OneStep, PTL DEF Spec

-----------------------------------------------------------------------------
(***************************************************************************)
(* A schedule fires once for a moment.  Four parts: what the documents     *)
(* list (FitInv), what the threads are about (ActInv), that a launch is    *)
(* stamped or about to be (StampInv), and what the tick goes by (TickInv). *)
(***************************************************************************)
\* A text of document d lists its schedules; a broken file may have lost them.
Fits(x, d) ==
  /\ DOMAIN x.last \subseteq Ids(d)
  /\ d \notin mixed => DOMAIN x.last = Ids(d)
FitInv ==
  /\ \A d \in Docs :
       /\ file[d] \in Contents => Fits(file[d], d)
       /\ temp[d] \in Contents => Fits(temp[d], d)
       /\ seen[d] # None => Fits(seen[d], d)
  /\ \A b \in Tabs : page[b] # None => Fits(page[b].text, page[b].doc)
  /\ \A a \in Threads : \A d \in Docs : Saving(a, d) => Fits(act[a].copy, d)

\* A thread at rest holds nothing, only launches are of a schedule, and a launch
\* stamps the document of its schedule.
Tidy(t) ==
  /\ t.pc = "rest" => t = Rest
  /\ t.kind \in {"put", "name"} => t.what = None
  /\ t.what \in Schedules /\ OnlyOne(t.what) => t.doc = t.what.doc
ActInv == \A a \in Threads : Tidy(act[a])

\* A launch of the schedule that thread a has yet to stamp.
Pends(a, s) == s \in Unstamped(a)
Clean(s) == OnlyOne(s) /\ s \notin excused /\ s.doc \notin mixed /\ launched[s] # None
\* A text has the stamp of the schedule's last launch, or a later one.
Has(x, s) == x.last[s.id] # None /\ x.last[s.id] >= launched[s]
StampInv ==
  /\ \A s \in Schedules : launched[s] # None => launched[s] <= clock
  /\ \A s \in Schedules : Clean(s) =>
       /\ Has(file[s.doc], s) \/ \E a \in Threads : Pends(a, s)
       /\ \A a \in Threads : Saving(a, s.doc) /\ act[a].kind # "put" =>
            Has(act[a].copy, s) \/ \E b \in Threads \ {a} : Pends(b, s)

Idle == {"rest", "sleep"}
Timely(s) == \E m \in Moments(s, launched[s]) : m <= clock
TickInv == LET t == act["ticker"] IN
  /\ t.pc \in Idle => \A d \in Docs : seen[d] = None
  /\ t.pc \in Idle \cup {"read"} => t.what = None /\ due = {}
  /\ t.pc \notin Idle \cup {"read"} => \A d \in Docs : seen[d] # None
  /\ \A s \in due : s.id \in DOMAIN seen[s.doc].last
  /\ t.pc \in {"check", "start"} => t.what \notin due
  /\ t.pc \notin Idle => \A b \in Tabs, s \in Schedules \ excused : ~Pends(b, s)
  /\ \A s \in Schedules : Clean(s) =>
       /\ t.pc = "read" /\ seen[s.doc] # None => Has(seen[s.doc], s)
       /\ s \in due \/ (t.pc \in {"check", "start"} /\ t.what = s) => Timely(s)

\* Thread a becomes t; of what the others do only their open file may change.
Move(a, t) ==
  /\ act'[a] = t
  /\ \A b \in Threads \ {a} : act'[b] = act[b] \/ \E d : act'[b] = Moved(act[b], d)

LEMMA BecomesMove ==
  ASSUME Typed, NEW a \in Threads, NEW t, Becomes(a, t)
  PROVE  Move(a, t)
BY DEF Typed, TypeOK, Becomes, Move

LEMMA MovedSame ==
  ASSUME NEW t \in Activities, NEW d
  PROVE  LET m == Moved(t, d) IN
         /\ m.pc = t.pc /\ m.kind = t.kind /\ m.doc = t.doc
         /\ m.what = t.what /\ m.copy = t.copy
BY DEF Moved, Activities

\* The others go on with what they did.
LEMMA OthersSame ==
  ASSUME Typed, NEW a \in Threads, NEW t, Move(a, t), NEW b \in Threads \ {a}
  PROVE  /\ act'[b].pc = act[b].pc /\ act'[b].kind = act[b].kind /\ act'[b].doc = act[b].doc
         /\ act'[b].what = act[b].what /\ act'[b].copy = act[b].copy
         /\ \A d : Saving(b, d)' <=> Saving(b, d)
         /\ \A s : Pends(b, s)' <=> Pends(b, s)
<1>1. /\ act'[b].pc = act[b].pc /\ act'[b].kind = act[b].kind /\ act'[b].doc = act[b].doc
      /\ act'[b].what = act[b].what /\ act'[b].copy = act[b].copy
  <2>1. act[b] \in Activities
    BY DEF Typed, TypeOK
  <2> QED
    BY <2>1, MovedSame DEF Move
<1> QED
  BY <1>1 DEF Saving, Pends, Unstamped

\* What a thread holds when it loads to save.
LEMMA LoadsMove ==
  ASSUME Typed, NEW a \in Threads, NEW d, NEW kind, NEW copy, NEW edit,
         LoadsToSave(a, d, kind, copy, edit)
  PROVE  \E t : /\ Move(a, t) /\ t.pc = "save" /\ t.kind = kind /\ t.doc = d /\ t.copy = copy
                /\ t.what = act[a].what
<1> DEFINE t == [act[a] EXCEPT !.pc = "save", !.kind = kind, !.doc = d,
                               !.copy = copy, !.edit = edit]
<1>1. act[a] \in Activities
  BY DEF Typed, TypeOK
<1>2. /\ t.pc = "save" /\ t.kind = kind /\ t.doc = d /\ t.copy = copy /\ t.what = act[a].what
  BY <1>1 DEF Activities
<1>3. Move(a, t)
  BY BecomesMove DEF LoadsToSave
<1> HIDE DEF t
<1> QED
  BY <1>2, <1>3

-----------------------------------------------------------------------------
(***************************************************************************)
(* Every thread stays tidy.                                                *)
(***************************************************************************)
LEMMA RestIsTidy ==
  /\ Tidy(Rest) /\ Tidy(Sleep)
  /\ \A a : Tidy(AfterSave(a))
  /\ \A pc \in {"read", "due"} : Tidy([Rest EXCEPT !.pc = pc])
BY DEF Rest, Sleep, AfterSave, Tidy

LEMMA TidyMoves ==
  ASSUME Typed, ActInv, NEW a \in Threads, NEW t, Move(a, t), Tidy(t)
  PROVE  ActInv'
<1> SUFFICES ASSUME NEW b \in Threads, b # a
             PROVE  Tidy(act'[b])
  BY DEF ActInv, Move
<1>1. act[b] \in Activities /\ Tidy(act[b])
  BY DEF Typed, TypeOK, ActInv
<1>2. \A d : Tidy(Moved(act[b], d))
  <2> SUFFICES ASSUME NEW d PROVE Tidy(Moved(act[b], d))
    OBVIOUS
  <2>1. act[b].pc = "rest" => Moved(act[b], d) = act[b]
    BY DEF Moved
  <2> QED
    BY <1>1, <2>1, MovedSame DEF Tidy
<1> QED
  BY <1>1, <1>2 DEF Move

\* The thread of a save, and what it becomes.
LEMMA SaveMoves ==
  ASSUME Typed, NEW a \in Threads
  PROVE  /\ OpenTemp(a) => \E t : /\ Move(a, t) /\ act[a].pc = "save" /\ t.pc = "open"
                                  /\ t.kind = act[a].kind /\ t.doc = act[a].doc
                                  /\ t.what = act[a].what /\ t.copy = act[a].copy
         /\ WriteTemp(a) => \E t : /\ Move(a, t) /\ act[a].pc = "open" /\ t.pc = "replace"
                                   /\ t.kind = act[a].kind /\ t.doc = act[a].doc
                                   /\ t.what = act[a].what /\ t.copy = act[a].copy
         /\ Replace(a) => Move(a, AfterSave(a)) /\ act[a].pc = "replace"
         /\ ReplaceFails(a) => /\ Move(a, IF a = "ticker" THEN Sleep ELSE Rest)
                               /\ act[a].pc = "replace"
<1>0. act[a] \in Activities /\ act \in [Threads -> Activities]
  BY DEF Typed, TypeOK
<1>1. ASSUME OpenTemp(a)
      PROVE  \E t : /\ Move(a, t) /\ act[a].pc = "save" /\ t.pc = "open"
                    /\ t.kind = act[a].kind /\ t.doc = act[a].doc
                    /\ t.what = act[a].what /\ t.copy = act[a].copy
  <2> DEFINE t == [act[a] EXCEPT !.pc = "open", !.fd = "temp"]
  <2>1. /\ t.pc = "open" /\ t.kind = act[a].kind /\ t.doc = act[a].doc
        /\ t.what = act[a].what /\ t.copy = act[a].copy
    BY <1>0 DEF Activities
  <2>2. Becomes(a, t) /\ act[a].pc = "save"
    BY <1>1 DEF OpenTemp, At
  <2> HIDE DEF t
  <2> QED
    BY <2>1, <2>2, BecomesMove
<1>2. ASSUME WriteTemp(a)
      PROVE  \E t : /\ Move(a, t) /\ act[a].pc = "open" /\ t.pc = "replace"
                    /\ t.kind = act[a].kind /\ t.doc = act[a].doc
                    /\ t.what = act[a].what /\ t.copy = act[a].copy
  <2> DEFINE t == [act[a] EXCEPT !.pc = "replace"]
  <2>1. /\ t.pc = "replace" /\ t.kind = act[a].kind /\ t.doc = act[a].doc
        /\ t.what = act[a].what /\ t.copy = act[a].copy
    BY <1>0 DEF Activities
  <2>2. Becomes(a, t) /\ act[a].pc = "open"
    BY <1>2 DEF WriteTemp, At
  <2> HIDE DEF t
  <2> QED
    BY <2>1, <2>2, BecomesMove
<1>3. Replace(a) => Move(a, AfterSave(a)) /\ act[a].pc = "replace"
  BY DEF Replace, Move, At
<1>4. ReplaceFails(a) => /\ Move(a, IF a = "ticker" THEN Sleep ELSE Rest)
                         /\ act[a].pc = "replace"
  BY BecomesMove DEF ReplaceFails, At
<1> QED
  BY <1>1, <1>2, <1>3, <1>4

\* The thread of a launch, and what it becomes.
LEMMA LaunchMoves ==
  ASSUME Typed, NEW a \in Threads
  PROVE  /\ Check(a) => \E t : /\ Move(a, t) /\ act[a].pc = "check" /\ t.pc = "start"
                               /\ t.kind = act[a].kind /\ t.doc = act[a].doc
                               /\ t.what = act[a].what
         /\ TurnDown(a) => Move(a, AfterSave(a)) /\ act[a].pc = "check"
         /\ StartRun(a) => \E t : /\ Move(a, t) /\ act[a].pc = "start" /\ t.pc = "stamp"
                                  /\ t.kind = act[a].kind /\ t.doc = act[a].doc
                                  /\ t.what = act[a].what
<1>0. act[a] \in Activities /\ act \in [Threads -> Activities]
  BY DEF Typed, TypeOK
<1>1. ASSUME Check(a)
      PROVE  \E t : /\ Move(a, t) /\ act[a].pc = "check" /\ t.pc = "start"
                    /\ t.kind = act[a].kind /\ t.doc = act[a].doc /\ t.what = act[a].what
  <2> DEFINE t == [act[a] EXCEPT !.pc = "start"]
  <2>1. /\ t.pc = "start" /\ t.kind = act[a].kind /\ t.doc = act[a].doc /\ t.what = act[a].what
    BY <1>0 DEF Activities
  <2>2. Becomes(a, t) /\ act[a].pc = "check"
    BY <1>1 DEF Check, At
  <2> HIDE DEF t
  <2> QED
    BY <2>1, <2>2, BecomesMove
<1>2. TurnDown(a) => Move(a, AfterSave(a)) /\ act[a].pc = "check"
  BY BecomesMove DEF TurnDown, At
<1>3. ASSUME StartRun(a)
      PROVE  \E t : /\ Move(a, t) /\ act[a].pc = "start" /\ t.pc = "stamp"
                    /\ t.kind = act[a].kind /\ t.doc = act[a].doc /\ t.what = act[a].what
  <2> DEFINE t == [act[a] EXCEPT !.pc = "stamp"]
  <2>1. /\ t.pc = "stamp" /\ t.kind = act[a].kind /\ t.doc = act[a].doc /\ t.what = act[a].what
    BY <1>0 DEF Activities
  <2>2. Becomes(a, t) /\ act[a].pc = "start"
    BY <1>3 DEF StartRun, At
  <2> HIDE DEF t
  <2> QED
    BY <2>1, <2>2, BecomesMove
<1> QED
  BY <1>1, <1>2, <1>3

\* A request of a tab, and what the tab becomes.
LEMMA RunNowMoves ==
  ASSUME Typed, NEW b \in Tabs, NEW s \in Schedules, RunNow(b, s)
  PROVE  \E t : /\ Move(b, t) /\ act[b].pc = "rest" /\ t.pc = "check"
                /\ t.kind = "launch" /\ t.doc = s.doc /\ t.what = s
<1> DEFINE t == [Rest EXCEPT !.pc = "check", !.kind = "launch", !.doc = s.doc, !.what = s]
<1>1. t.pc = "check" /\ t.kind = "launch" /\ t.doc = s.doc /\ t.what = s
  BY DEF Rest
<1>2. Becomes(b, t) /\ act[b].pc = "rest" /\ b \in Threads
  BY DEF RunNow, MayAsk, At, Threads
<1> HIDE DEF t
<1> QED
  BY <1>1, <1>2, BecomesMove

\* The ticker goes on to a schedule: it takes its own document for the owner if
\* no other schedule has its id.
LEMMA TickNextMoves ==
  ASSUME Typed, FitInv, NEW s \in Schedules, TickNext(s), TickInv
  PROVE  \E t : /\ Move("ticker", t) /\ act["ticker"].pc = "due" /\ t.pc = "check"
                /\ t.kind = "launch" /\ t.what = s
                /\ OnlyOne(s) => t.doc = s.doc
<1> DEFINE t == [Rest EXCEPT !.pc = "check", !.kind = "launch", !.doc = Source(s), !.what = s]
<1>1. t.pc = "check" /\ t.kind = "launch" /\ t.doc = Source(s) /\ t.what = s
  BY DEF Rest
<1>2. Becomes("ticker", t) /\ act["ticker"].pc = "due" /\ "ticker" \in Threads
  BY DEF TickNext, At, Threads
<1> HIDE DEF t
<1>3. ASSUME OnlyOne(s) PROVE Source(s) = s.doc
  <2>1. CASE s.doc = Ecosystem
    <3>1. s.id \notin Ids(s.target)
      BY <1>3, <2>1 DEF Ids, OnlyOne
    <3>2. s.target \in Docs
      BY DEF Docs
    <3>3. DOMAIN seen[s.target].last \subseteq Ids(s.target)
      BY <1>2, <3>2 DEF FitInv, Fits, TickInv, Idle
    <3> QED
      BY <2>1, <3>1, <3>3 DEF Source
  <2>2. CASE s.doc # Ecosystem
    <3>1. s \in due
      BY DEF TickNext
    <3> QED
      BY <2>2, <3>1 DEF Source, TickInv
  <2> QED
    BY <2>1, <2>2
<1> QED
  BY <1>1, <1>2, <1>3, BecomesMove

LEMMA TidyStep == ASSUME Typed, FitInv, ActInv, TickInv, [Next]_vars PROVE ActInv'
<1>0. act \in [Threads -> Activities]
  BY DEF Typed, TypeOK
<1>1. CASE UNCHANGED vars
  BY <1>1 DEF ActInv, vars
<1>2. ASSUME NEW a \in Threads, OpenTemp(a) \/ WriteTemp(a) \/ Replace(a) \/ ReplaceFails(a)
      PROVE  ActInv'
  <2>1. Tidy(act[a])
    BY DEF ActInv
  <2>2. CASE OpenTemp(a) \/ WriteTemp(a)
    <3>1. PICK t : /\ Move(a, t) /\ t.pc # "rest" /\ t.kind = act[a].kind
                   /\ t.doc = act[a].doc /\ t.what = act[a].what
      BY <2>2, SaveMoves
    <3>2. Tidy(t)
      BY <2>1, <3>1 DEF Tidy
    <3> QED
      BY <3>1, <3>2, TidyMoves
  <2>3. CASE Replace(a) \/ ReplaceFails(a)
    BY <2>3, SaveMoves, RestIsTidy, TidyMoves
  <2> QED
    BY <1>2, <2>2, <2>3
<1>3. ASSUME NEW a \in Threads, Check(a) \/ TurnDown(a) \/ StartRun(a) \/ Stamp(a)
      PROVE  ActInv'
  <2>1. Tidy(act[a])
    BY DEF ActInv
  <2>2. CASE Check(a) \/ StartRun(a)
    <3>1. PICK t : /\ Move(a, t) /\ t.pc # "rest" /\ t.kind = act[a].kind
                   /\ t.doc = act[a].doc /\ t.what = act[a].what
      BY <2>2, LaunchMoves
    <3>2. Tidy(t)
      BY <2>1, <3>1 DEF Tidy
    <3> QED
      BY <3>1, <3>2, TidyMoves
  <2>3. CASE TurnDown(a)
    BY <2>3, LaunchMoves, RestIsTidy, TidyMoves
  <2>4. CASE Stamp(a)
    <3>1. ASSUME NEW copy, LoadsToSave(a, act[a].doc, "launch", copy, None)
          PROVE  ActInv'
      <4>1. PICK t : /\ Move(a, t) /\ t.pc = "save" /\ t.kind = "launch"
                     /\ t.doc = act[a].doc /\ t.what = act[a].what
        BY <3>1, LoadsMove
      <4>2. Tidy(t)
        BY <2>1, <4>1 DEF Tidy
      <4> QED
        BY <4>1, <4>2, TidyMoves
    <3>2. Becomes(a, AfterSave(a)) => ActInv'
      BY BecomesMove, RestIsTidy, TidyMoves
    <3> QED
      BY <2>4, <3>1, <3>2 DEF Stamp
  <2> QED
    BY <1>3, <2>2, <2>3, <2>4
<1>4. ASSUME NEW b \in Tabs,
             \/ Put(b) \/ Refuse(b)
             \/ \E d \in Shown : Get(b, d)
             \/ \E r \in Repos \cap Shown : Register(b, r)
             \/ \E s \in Schedules : RunNow(b, s)
      PROVE  ActInv'
  <2>0. b \in Threads
    BY DEF Threads
  <2>1. ASSUME At(b, "rest"), NEW d, NEW kind \in {"put", "name"}, NEW copy, NEW edit,
               LoadsToSave(b, d, kind, copy, edit)
        PROVE  ActInv'
    <3>1. act[b].what = None
      BY <2>0, <2>1 DEF ActInv, Tidy, At, Rest
    <3>2. PICK t : Move(b, t) /\ t.pc = "save" /\ t.what = None
      BY <2>0, <2>1, <3>1, LoadsMove
    <3>3. Tidy(t)
      BY <3>2 DEF Tidy
    <3> QED
      BY <2>0, <3>2, <3>3, TidyMoves
  <2>2. CASE Put(b)
    BY <2>1, <2>2 DEF Put, MayAsk
  <2>3. CASE Refuse(b)
    BY <2>0, <2>3, BecomesMove, RestIsTidy, TidyMoves DEF Refuse
  <2>4. ASSUME NEW d \in Shown, Get(b, d) PROVE ActInv'
    BY <2>4 DEF Get, ActInv
  <2>5. ASSUME NEW r \in Repos, Register(b, r) PROVE ActInv'
    BY <2>1, <2>5 DEF Register, MayAsk
  <2>6. ASSUME NEW s \in Schedules, RunNow(b, s) PROVE ActInv'
    <3>1. PICK t : /\ Move(b, t) /\ t.pc = "check" /\ t.kind = "launch" /\ t.doc = s.doc
                   /\ t.what = s
      BY <2>6, RunNowMoves
    <3>2. Tidy(t)
      BY <3>1 DEF Tidy
    <3> QED
      BY <2>0, <3>1, <3>2, TidyMoves
  <2> QED
    BY <1>4, <2>2, <2>3, <2>4, <2>5, <2>6
<1>5. CASE Ticker
  <2>0. "ticker" \in Threads
    BY DEF Threads
  <2>1. CASE TickDue
    BY <2>0, <2>1, BecomesMove, RestIsTidy, TidyMoves DEF TickDue
  <2>2. CASE TickEnd
    BY <2>0, <2>2, BecomesMove, RestIsTidy, TidyMoves DEF TickEnd
  <2>3. ASSUME NEW d \in Docs, TickRead(d) PROVE ActInv'
    <3>1. CASE UNCHANGED act
      BY <3>1 DEF ActInv
    <3>2. CASE Becomes("ticker", [Rest EXCEPT !.pc = "read"])
      BY <2>0, <3>2, BecomesMove, RestIsTidy, TidyMoves
    <3> QED
      BY <2>3, <3>1, <3>2 DEF TickRead
  <2>4. ASSUME NEW s \in Schedules, TickNext(s) PROVE ActInv'
    <3>1. PICK t : /\ Move("ticker", t) /\ t.pc = "check" /\ t.kind = "launch"
                   /\ t.what = s /\ (OnlyOne(s) => t.doc = s.doc)
      BY <2>4, TickNextMoves
    <3>2. Tidy(t)
      BY <3>1 DEF Tidy
    <3> QED
      BY <2>0, <3>1, <3>2, TidyMoves
  <2> QED
    BY <1>5, <2>1, <2>2, <2>3, <2>4 DEF Ticker
<1>6. CASE World
  <2>1. CASE MinutePasses
    BY <1>0, <2>1, RestIsTidy DEF MinutePasses, ActInv
  <2>2. CASE Crash
    BY <1>0, <2>2, RestIsTidy DEF Crash, ActInv
  <2>3. ASSUME NEW r \in Repos, RunEnds(r) PROVE ActInv'
    BY <2>3 DEF RunEnds, ActInv
  <2> QED
    BY <1>6, <2>1, <2>2, <2>3 DEF World
<1> QED
  BY <1>1, <1>2, <1>3, <1>4, <1>5, <1>6 DEF Next, Saves, Launches, Requests

-----------------------------------------------------------------------------
(***************************************************************************)
(* Every text lists the schedules of its document.                         *)
(***************************************************************************)
\* What is new fits; what is not, fits still.
LEMMA FitFrame ==
  ASSUME FitInv, mixed \subseteq mixed',
         \A d \in Docs :
           /\ file'[d] \in Contents =>
                \/ file'[d] = file[d] \/ file'[d] = temp[d]
                \/ \E a \in Threads : Saving(a, d) /\ file'[d] = act[a].copy
           /\ temp'[d] \in Contents =>
                \/ temp'[d] = temp[d]
                \/ \E a \in Threads : Saving(a, d) /\ temp'[d] = act[a].copy
           /\ seen'[d] # None => seen'[d] = seen[d] \/ Fits(seen'[d], d),
         \A b \in Tabs : page'[b] # None => page'[b] = page[b] \/ Fits(page'[b].text, page'[b].doc),
         \A a \in Threads, d \in Docs : Saving(a, d)' =>
           (Saving(a, d) /\ act'[a].copy = act[a].copy) \/ Fits(act'[a].copy, d)
  PROVE  FitInv'
<1>1. \A x, d : Fits(x, d) => (DOMAIN x.last \subseteq Ids(d) /\ (d \notin mixed' => DOMAIN x.last = Ids(d)))
  BY DEF Fits
<1>2. ASSUME NEW d \in Docs
      PROVE  /\ file'[d] \in Contents => Fits(file'[d], d)
             /\ temp'[d] \in Contents => Fits(temp'[d], d)
             /\ seen'[d] # None => Fits(seen'[d], d)
  BY DEF FitInv
<1>3. \A b \in Tabs : page'[b] # None => Fits(page'[b].text, page'[b].doc)
  BY DEF FitInv
<1>4. \A a \in Threads, d \in Docs : Saving(a, d)' => Fits(act'[a].copy, d)
  BY DEF FitInv
<1> QED
  BY <1>1, <1>2, <1>3, <1>4 DEF FitInv, Fits

LEMMA LoadFits ==
  ASSUME Typed, SaveInv, FitInv, NEW d \in Docs
  PROVE  Load(d) \in Contents /\ Fits(Load(d), d)
<1>1. Load(d) \in Contents
  BY LoadIsContents DEF Typed
<1>2. CASE file[d] \in {Cut, Garbled}
  <2>1. d \in mixed
    BY <1>2 DEF SaveInv, Kept
  <2>2. Load(d) = Empty /\ DOMAIN Empty.last = {}
    BY <1>2 DEF Load, Empty
  <2> QED
    BY <1>1, <2>1, <2>2 DEF Fits
<1>3. CASE file[d] \notin {Cut, Garbled}
  BY <1>1, <1>3 DEF FitInv, Load
<1> QED
  BY <1>2, <1>3

\* A thread moves and touches no document.
LEMMA FitMoves ==
  ASSUME Typed, FitInv, NEW a \in Threads, NEW t, Move(a, t),
         UNCHANGED <<file, temp, page>>, mixed \subseteq mixed',
         \A d \in Docs : seen'[d] = seen[d] \/ seen'[d] = None \/ Fits(seen'[d], d),
         t.pc \in {"save", "open", "replace"} =>
           \/ act[a].pc \in {"save", "open", "replace"} /\ t.doc = act[a].doc /\ t.copy = act[a].copy
           \/ Fits(t.copy, t.doc)
  PROVE  FitInv'
<1>1. \A b \in Threads \ {a}, d \in Docs : Saving(b, d)' => Saving(b, d) /\ act'[b].copy = act[b].copy
  BY OthersSame
<1>2. \A d \in Docs : Saving(a, d)' =>
        (Saving(a, d) /\ act'[a].copy = act[a].copy) \/ Fits(act'[a].copy, d)
  BY DEF Move, Saving
<1> QED
  BY <1>1, <1>2, FitFrame

LEMMA FitStep == ASSUME Typed, SaveInv, ActInv, FitInv, TickInv, [Next]_vars PROVE FitInv'
<1>0. act \in [Threads -> Activities] /\ \A a \in Threads : Sane(act[a])
  BY DEF Typed, TypeOK
<1>1. CASE UNCHANGED vars
  BY <1>1 DEF FitInv, Fits, Saving, vars, disk, tick, past
<1>2. ASSUME NEW a \in Threads, OpenTemp(a) \/ WriteTemp(a) \/ Replace(a) \/ ReplaceFails(a)
      PROVE  FitInv'
  <2> DEFINE e == act[a].doc
  <2>1. e \in Docs /\ Saving(a, e) /\ mixed' = mixed
    BY <1>0, <1>2 DEF OpenTemp, WriteTemp, Replace, ReplaceFails, At, Sane, Saving, past
  <2>t. /\ file \in [Docs -> Contents \cup {Cut, Garbled}]
        /\ temp \in [Docs -> Contents \cup {Cut, Garbled, None}]
    BY DEF Typed, TypeOK
  <2>2. CASE OpenTemp(a) \/ WriteTemp(a)
    <3>1. PICK t : /\ Move(a, t) /\ t.doc = act[a].doc /\ t.copy = act[a].copy
                   /\ act[a].pc \in {"save", "open"}
      BY <2>2, SaveMoves
    <3>2. \A b \in Threads, d \in Docs : Saving(b, d)' => Saving(b, d) /\ act'[b].copy = act[b].copy
      <4>1. \A d \in Docs : Saving(a, d)' => Saving(a, d) /\ act'[a].copy = act[a].copy
        BY <3>1 DEF Move, Saving
      <4>2. \A b \in Threads \ {a}, d \in Docs :
              Saving(b, d)' => Saving(b, d) /\ act'[b].copy = act[b].copy
        BY <3>1, OthersSame
      <4> QED
        BY <4>1, <4>2
    <3>t. Cut \notin Contents /\ Garbled \notin Contents /\ None \notin Contents
      OBVIOUS
    <3>3. \A d \in Docs : file'[d] \in Contents => file'[d] = file[d] \/ (d = e /\ file'[d] = act[a].copy)
      <4>1. CASE OpenTemp(a)
        BY <4>1 DEF OpenTemp
      <4>2. CASE WriteTemp(a)
        <5>1. \/ UNCHANGED file
              \/ \E text \in {act[a].copy, Garbled} : file' = [file EXCEPT ![e] = text]
          BY <4>2 DEF WriteTemp, Written
        <5> QED
          BY <5>1, <2>t, <3>t
      <4> QED
        BY <2>2, <4>1, <4>2
    <3>4. \A d \in Docs : temp'[d] \in Contents => temp'[d] = temp[d] \/ (d = e /\ temp'[d] = act[a].copy)
      <4>1. CASE OpenTemp(a)
        BY <2>t, <3>t, <4>1 DEF OpenTemp
      <4>2. CASE WriteTemp(a)
        <5>1. \/ UNCHANGED temp
              \/ \E text \in {act[a].copy, Garbled} : temp' = [temp EXCEPT ![e] = text]
          BY <4>2 DEF WriteTemp, Written
        <5> QED
          BY <5>1, <2>t, <3>t
      <4> QED
        BY <2>2, <4>1, <4>2
    <3>5. UNCHANGED <<seen, page>>
      BY <2>2 DEF OpenTemp, WriteTemp, tick
    <3> HIDE DEF e
    <3> QED
      BY <2>1, <3>2, <3>3, <3>4, <3>5, FitFrame
  <2>3. CASE Replace(a)
    <3>1. Move(a, AfterSave(a))
      BY <2>3, SaveMoves
    <3>2. \A b \in Threads, d \in Docs : Saving(b, d)' => Saving(b, d) /\ act'[b].copy = act[b].copy
      <4>1. \A d \in Docs : ~Saving(a, d)'
        BY <3>1 DEF Move, Saving, AfterSave, Rest
      <4> QED
        BY <3>1, <4>1, OthersSame
    <3>3. \A d \in Docs : file'[d] = file[d] \/ file'[d] = temp[d]
      BY <2>3, <2>t DEF Replace
    <3>4. \A d \in Docs : temp'[d] \in Contents => temp'[d] = temp[d]
      BY <2>3, <2>t DEF Replace
    <3>5. UNCHANGED seen /\ \A b \in Tabs : page'[b] = page[b] \/ page'[b] = None
      BY <2>3 DEF Replace, tick, Typed, TypeOK
    <3> QED
      BY <2>1, <3>2, <3>3, <3>4, <3>5, FitFrame
  <2>4. CASE ReplaceFails(a)
    <3>1. /\ Move(a, IF a = "ticker" THEN Sleep ELSE Rest)
          /\ UNCHANGED <<file, temp, page>>
      BY <2>4, SaveMoves DEF ReplaceFails, disk
    <3>2. \A d \in Docs : seen'[d] = seen[d] \/ seen'[d] = None
      BY <2>4 DEF ReplaceFails, Forget, tick
    <3>3. Rest.pc = "rest" /\ Sleep.pc = "sleep"
      BY DEF Rest, Sleep
    <3> QED
      BY <2>1, <3>1, <3>2, <3>3, FitMoves
  <2> QED
    BY <1>2, <2>2, <2>3, <2>4
<1>3. ASSUME NEW a \in Threads, Check(a) \/ TurnDown(a) \/ StartRun(a) \/ Stamp(a)
      PROVE  FitInv'
  <2>0. UNCHANGED <<file, temp, page, seen>>
    BY <1>3 DEF Check, TurnDown, StartRun, Stamp, disk, tick
  <2>1. \A b : AfterSave(b).pc \in {"rest", "due"}
    BY DEF AfterSave, Rest
  <2>2. CASE Check(a) \/ TurnDown(a) \/ StartRun(a)
    <3>1. PICK t : Move(a, t) /\ t.pc \in {"start", "stamp", "rest", "due"}
      BY <2>1, <2>2, LaunchMoves
    <3>2. mixed' = mixed
      BY <2>2 DEF Check, TurnDown, StartRun, past
    <3> QED
      BY <2>0, <3>1, <3>2, FitMoves
  <2>3. CASE Stamp(a)
    <3>1. PICK d, i : d = act[a].doc /\ i = act[a].what.id
      OBVIOUS
    <3>2. d \in Docs /\ Load(d) \in Contents /\ Fits(Load(d), d)
      BY <1>0, <2>3, <3>1, LoadFits DEF Stamp, At, Sane
    <3>3. CASE LoadsToSave(a, d, "launch", Stamped(Load(d), i), None)
      <4>1. PICK t : Move(a, t) /\ t.doc = d /\ t.copy = Stamped(Load(d), i)
        BY <3>3, LoadsMove
      <4>2. DOMAIN Stamped(Load(d), i).last = DOMAIN Load(d).last
        BY <3>2 DEF Stamped, Contents
      <4>3. Fits(t.copy, t.doc)
        BY <3>2, <4>1, <4>2 DEF Fits
      <4>4. mixed \subseteq mixed'
        BY <3>3 DEF LoadsToSave
      <4> QED
        BY <2>0, <4>1, <4>3, <4>4, FitMoves
    <3>4. CASE Becomes(a, AfterSave(a)) /\ UNCHANGED mixed
      BY <2>0, <2>1, <3>4, BecomesMove, FitMoves
    <3> QED
      BY <2>3, <3>1, <3>3, <3>4 DEF Stamp, Owner
  <2> QED
    BY <1>3, <2>2, <2>3
<1>4. ASSUME NEW b \in Tabs,
             \/ Put(b) \/ Refuse(b)
             \/ \E d \in Shown : Get(b, d)
             \/ \E r \in Repos \cap Shown : Register(b, r)
             \/ \E s \in Schedules : RunNow(b, s)
      PROVE  FitInv'
  <2>0. b \in Threads
    BY DEF Threads
  <2>1. ASSUME NEW d \in Docs, NEW kind, NEW copy, NEW edit,
               LoadsToSave(b, d, kind, copy, edit),
               Fits(copy, d), UNCHANGED <<file, temp, page, seen>>
        PROVE  FitInv'
    <3>1. PICK t : Move(b, t) /\ t.doc = d /\ t.copy = copy
      BY <2>0, <2>1, LoadsMove
    <3>2. mixed \subseteq mixed'
      BY <2>1 DEF LoadsToSave
    <3> QED
      BY <2>0, <2>1, <3>1, <3>2, FitMoves
  <2>2. CASE Put(b)
    <3>1. PICK d, text : d = page[b].doc /\ text = page[b].text
      OBVIOUS
    <3>2. d \in Docs /\ text \in Shows /\ Fits(text, d)
      BY <2>2, <3>1 DEF Put, FitInv, Typed, TypeOK
    <3>3. PICK edit \in [Urls -> {None, Hidden, asked + 1}] :
            LoadsToSave(b, d, "put", Restored([text EXCEPT !.hooks = edit], Load(d)), edit)
      BY <2>2, <3>1 DEF Put
    <3>4. edit \in Edits
      BY <2>2 DEF Put, MayAsk, Edits, Typed, TypeOK
    <3>5. Restored([text EXCEPT !.hooks = edit], Load(d)).last = text.last
      BY <3>2, <3>4, LoadIsContents, RestoredIsContents DEF Typed
    <3>6. Fits(Restored([text EXCEPT !.hooks = edit], Load(d)), d)
      BY <3>2, <3>5 DEF Fits
    <3>7. UNCHANGED <<file, temp, page, seen>>
      BY <2>2 DEF Put, disk, tick
    <3> QED
      BY <2>1, <3>2, <3>3, <3>6, <3>7
  <2>3. CASE Refuse(b)
    <3>1. Move(b, Rest) /\ UNCHANGED <<file, temp, page, seen, mixed>> /\ Rest.pc = "rest"
      BY <2>0, <2>3, BecomesMove DEF Refuse, disk, tick, past, Rest
    <3> QED
      BY <2>0, <3>1, FitMoves
  <2>4. ASSUME NEW d \in Shown, Get(b, d) PROVE FitInv'
    <3>1. Load(d) \in Contents /\ Fits(Load(d), d)
      BY LoadFits
    <3>2. Redacted(Load(d)).last = Load(d).last
      BY <3>1, RedactedIsShown
    <3>3. Fits(Redacted(Load(d)), d)
      BY <3>1, <3>2 DEF Fits
    <3>4. /\ page' = [page EXCEPT ![b] = [doc |-> d, text |-> Redacted(Load(d))]]
          /\ UNCHANGED <<file, temp, act, seen, mixed>>
      BY <2>4 DEF Get, disk, tick, past
    <3>5. \A c \in Tabs : page'[c] = page[c] \/ Fits(page'[c].text, page'[c].doc)
      BY <3>3, <3>4 DEF Typed, TypeOK
    <3>6. \A a \in Threads, e \in Docs : Saving(a, e)' => Saving(a, e) /\ act'[a].copy = act[a].copy
      BY <3>4 DEF Saving
    <3> QED
      BY <3>4, <3>5, <3>6, FitFrame
  <2>5. ASSUME NEW r \in Repos, Register(b, r) PROVE FitInv'
    <3>1. r \in Docs /\ Fits(Load(r), r)
      BY LoadFits DEF Docs
    <3> QED
      BY <2>1, <2>5, <3>1 DEF Register, disk, tick
  <2>6. ASSUME NEW s \in Schedules, RunNow(b, s) PROVE FitInv'
    <3>1. PICK t : Move(b, t) /\ t.pc = "check"
      BY <2>6, RunNowMoves
    <3>2. UNCHANGED <<file, temp, page, seen, mixed>>
      BY <2>6 DEF RunNow, disk, tick, past
    <3> QED
      BY <2>0, <3>1, <3>2, FitMoves
  <2> QED
    BY <1>4, <2>2, <2>3, <2>4, <2>5, <2>6
<1>5. CASE Ticker
  <2>0. /\ "ticker" \in Threads /\ UNCHANGED <<file, temp, page, mixed>>
        /\ Rest.pc = "rest" /\ Sleep.pc = "sleep"
        /\ \A pc : [Rest EXCEPT !.pc = pc].pc = pc
    BY <1>5 DEF Threads, Ticker, TickDue, TickEnd, TickRead, TickNext, disk, past, Rest, Sleep
  <2>1. CASE TickDue
    BY <2>0, <2>1, BecomesMove, FitMoves DEF TickDue
  <2>2. CASE TickEnd
    <3>1. Move("ticker", Sleep) /\ \A d \in Docs : seen'[d] = None
      BY <2>0, <2>2, BecomesMove DEF TickEnd, Forget
    <3> QED
      BY <2>0, <3>1, FitMoves
  <2>3. ASSUME NEW d \in Docs, TickRead(d) PROVE FitInv'
    <3>1. seen' = [seen EXCEPT ![d] = Load(d)] /\ Fits(Load(d), d)
      BY <2>3, LoadFits DEF TickRead
    <3>2. \A e \in Docs : seen'[e] = seen[e] \/ Fits(seen'[e], e)
      BY <3>1 DEF Typed, TypeOK
    <3>3. CASE UNCHANGED act
      <4>1. \A a \in Threads, e \in Docs : Saving(a, e)' => Saving(a, e) /\ act'[a].copy = act[a].copy
        BY <3>3 DEF Saving
      <4> QED
        BY <2>0, <3>2, <4>1, FitFrame
    <3>4. CASE Becomes("ticker", [Rest EXCEPT !.pc = "read"])
      BY <2>0, <3>2, <3>4, BecomesMove, FitMoves
    <3> QED
      BY <2>3, <3>3, <3>4 DEF TickRead
  <2>4. ASSUME NEW s \in Schedules, TickNext(s) PROVE FitInv'
    <3>1. PICK t : Move("ticker", t) /\ t.pc = "check"
      BY <2>4, TickNextMoves
    <3>2. seen' = seen
      BY <2>4 DEF TickNext
    <3> QED
      BY <2>0, <3>1, <3>2, FitMoves
  <2> QED
    BY <1>5, <2>1, <2>2, <2>3, <2>4 DEF Ticker
<1>6. CASE World
  <2>0. UNCHANGED <<file, temp, page, mixed>>
    BY <1>6 DEF World, MinutePasses, Crash, RunEnds, disk, past
  <2>1. \A d \in Docs : seen'[d] = seen[d] \/ seen'[d] = None
    BY <1>6 DEF World, MinutePasses, Crash, RunEnds, Forget, tick
  <2>2. \A a \in Threads, d \in Docs : Saving(a, d)' => Saving(a, d) /\ act'[a].copy = act[a].copy
    BY <1>0, <1>6 DEF World, MinutePasses, Crash, RunEnds, Saving, Rest
  <2> QED
    BY <2>0, <2>1, <2>2, FitFrame
<1> QED
  BY <1>1, <1>2, <1>3, <1>4, <1>5, <1>6 DEF Next, Saves, Launches, Requests

-----------------------------------------------------------------------------
(***************************************************************************)
(* A launch is in the file of its schedule, or about to be.                *)
(***************************************************************************)
\* What StampInv says of a schedule.
Noted(s) ==
  /\ Has(file[s.doc], s) \/ \E a \in Threads : Pends(a, s)
  /\ \A a \in Threads : Saving(a, s.doc) /\ act[a].kind # "put" =>
       Has(act[a].copy, s) \/ \E b \in Threads \ {a} : Pends(b, s)

\* A thread moves and launches nothing, stamps nothing, forgets no launch.
LEMMA StampMoves ==
  ASSUME Typed, StampInv, NEW a \in Threads, NEW t, Move(a, t),
         UNCHANGED <<launched, clock>>, excused \subseteq excused', mixed \subseteq mixed',
         \A d \in Docs \ mixed' : file'[d] = file[d],
         \A s \in Schedules : Pends(a, s) =>
           \/ s \in excused' \/ s.doc \in mixed' \/ ~OnlyOne(s)
           \/ t.what = s /\ t.pc \in {"stamp", "save", "open", "replace"},
         t.pc \in {"save", "open", "replace"} /\ t.kind # "put" =>
           /\ act[a].pc \in {"save", "open", "replace"} /\ act[a].kind # "put"
           /\ t.doc = act[a].doc /\ t.copy = act[a].copy
  PROVE  StampInv'
<1> SUFFICES ASSUME NEW s \in Schedules, Clean(s)' PROVE Noted(s)'
  BY DEF StampInv, Noted
<1>1. Clean(s) /\ s.doc \in Docs \ mixed' /\ s \notin excused' /\ OnlyOne(s)
  BY DEF Clean
<1>2. Noted(s)
  BY <1>1 DEF StampInv, Noted
<1>3. \A b \in Threads : Pends(b, s) => Pends(b, s)'
  <2>1. Pends(a, s) => Pends(a, s)'
    BY <1>1 DEF Pends, Unstamped, Move
  <2> QED
    BY <2>1, OthersSame
<1>4. file'[s.doc] = file[s.doc] /\ launched'[s] = launched[s]
  BY <1>1
<1>5. Has(file[s.doc], s)' <=> Has(file[s.doc], s)
  BY <1>4 DEF Has
<1>6. ASSUME NEW b \in Threads, Saving(b, s.doc)', act'[b].kind # "put"
      PROVE  Saving(b, s.doc) /\ act[b].kind # "put" /\ act'[b].copy = act[b].copy
  <2>1. CASE b = a
    BY <1>6, <2>1 DEF Move, Saving
  <2>2. CASE b # a
    BY <1>6, <2>2, OthersSame
  <2> QED
    BY <2>1, <2>2
<1>8. ASSUME NEW b \in Threads, Saving(b, s.doc)', act'[b].kind # "put"
      PROVE  Has(act[b].copy, s)' \/ \E c \in Threads \ {b} : Pends(c, s)'
  <2>1. Has(act[b].copy, s) \/ \E c \in Threads \ {b} : Pends(c, s)
    BY <1>2, <1>6, <1>8 DEF Noted
  <2>2. Has(act[b].copy, s) => Has(act[b].copy, s)'
    BY <1>4, <1>6, <1>8 DEF Has
  <2> QED
    BY <1>3, <2>1, <2>2
<1> QED
  BY <1>2, <1>3, <1>5, <1>8 DEF Noted

\* A save takes the stamps of its copy to the file, and lets the launches go that
\* a page undoes.
LEMMA ReplaceStamps ==
  ASSUME Typed, SaveInv, ActInv, FitInv, StampInv, NEW a \in Threads, Replace(a)
  PROVE  StampInv'
<1> DEFINE e == act[a].doc  copy == act[a].copy
<1>1. /\ Move(a, AfterSave(a)) /\ act[a].pc = "replace" /\ e \in Docs /\ Saving(a, e)
      /\ act[a] \in Activities /\ AfterSave(a).pc \in {"rest", "due"}
  BY SaveMoves DEF Typed, TypeOK, Sane, Saving, AfterSave, Rest
<1>2. /\ file' = [file EXCEPT ![e] = temp[e]]
      /\ UNCHANGED <<launched, clock, mixed>>
      /\ excused' = IF act[a].kind = "put"
                    THEN excused \cup StampsLost(e, copy) ELSE excused
  BY DEF Replace
<1>3. \A d : ~Saving(a, d)'
  BY <1>1 DEF Move, Saving
<1> SUFFICES ASSUME NEW s \in Schedules, Clean(s)' PROVE Noted(s)'
  BY <1>2 DEF StampInv, Noted
<1>4. Clean(s) /\ s.doc \in Docs \ mixed /\ s \notin excused' /\ launched[s] # None
  BY <1>2 DEF Clean
<1>5. Noted(s)
  BY <1>4 DEF StampInv, Noted
<1>6. \A b \in Threads \ {a} : Pends(b, s)' <=> Pends(b, s)
  BY <1>1, OthersSame
<1>7. launched'[s] = launched[s] /\ launched[s] \in Times
  BY <1>2, <1>4 DEF Typed, TypeOK
<1>8. CASE s.doc # e
  <2>1. ~Pends(a, s)
    <3>1. act[a].what = s => e = s.doc
      BY <1>4 DEF ActInv, Tidy, Clean
    <3> QED
      BY <1>8, <3>1 DEF Pends, Unstamped
  <2>2. file'[s.doc] = file[s.doc]
    BY <1>2, <1>4, <1>8 DEF Typed, TypeOK
  <2>3. Has(file[s.doc], s)' <=> Has(file[s.doc], s)
    BY <1>7, <2>2 DEF Has
  <2>4. Has(file[s.doc], s)' \/ \E c \in Threads : Pends(c, s)'
    BY <1>5, <1>6, <2>1, <2>3 DEF Noted
  <2>5. ASSUME NEW b \in Threads, Saving(b, s.doc)', act'[b].kind # "put"
        PROVE  Has(act[b].copy, s)' \/ \E c \in Threads \ {b} : Pends(c, s)'
    <3>1. b # a /\ Saving(b, s.doc) /\ act[b].kind # "put"
          /\ act'[b].copy = act[b].copy
      BY <1>1, <1>3, <2>5, OthersSame
    <3>2. Has(act[b].copy, s) \/ \E c \in Threads \ {b} : Pends(c, s)
      BY <1>5, <3>1 DEF Noted
    <3>3. Has(act[b].copy, s) => Has(act[b].copy, s)'
      BY <1>7, <3>1 DEF Has
    <3> QED
      BY <1>6, <2>1, <3>2, <3>3
  <2> QED
    BY <2>4, <2>5 DEF Noted
<1>9. CASE s.doc = e
  <2>1. temp[e] = copy
    BY <1>1, <1>4, <1>9 DEF SaveInv, InHand, At
  <2>2. file'[s.doc] = copy
    BY <1>2, <1>4, <1>9, <2>1 DEF Typed, TypeOK
  <2>3. \A b \in Threads : ~Saving(b, s.doc)'
    <3>1. \A b \in Threads \ {a} : ~Saving(b, e)
      BY <1>1, <1>4, <1>9 DEF SaveInv, OneSaver
    <3> QED
      BY <1>1, <1>3, <1>9, <3>1, OthersSame
  <2>4. Has(copy, s) \/ \E b \in Threads \ {a} : Pends(b, s)
    <3>1. CASE act[a].kind = "put"
      <4>1. s \notin StampsLost(e, copy)
        BY <1>2, <1>4, <3>1
      <4>2. copy.last[s.id] # None /\ ~(copy.last[s.id] < launched[s]) /\ s.id \in DOMAIN copy.last
        BY <1>4, <1>9, <4>1 DEF StampsLost
      <4>3. copy.last[s.id] \in Times
        <5>1. PICK I : copy.last \in [I -> Times \cup {None}]
          BY <1>1 DEF Activities, Contents, Stamps
        <5> QED
          BY <4>2, <5>1
      <4> QED
        BY <1>7, <4>2, <4>3 DEF Has, Times
    <3>2. CASE act[a].kind # "put"
      BY <1>1, <1>5, <1>9, <3>2 DEF Noted
    <3> QED
      BY <3>1, <3>2
  <2>5. Has(copy, s) => Has(file[s.doc], s)'
    BY <1>7, <2>2 DEF Has
  <2> QED
    BY <1>6, <2>3, <2>4, <2>5 DEF Noted
<1> QED
  BY <1>8, <1>9

\* A run that starts is to be stamped by its thread.
LEMMA StartStamps ==
  ASSUME Typed, ActInv, StampInv, NEW a \in Threads, StartRun(a)
  PROVE  StampInv'
<1>1. PICK t : Move(a, t) /\ act[a].pc = "start" /\ t.pc = "stamp" /\ t.what = act[a].what
  BY LaunchMoves
<1>2. PICK q \in Schedules : q = act[a].what
  BY <1>1 DEF Typed, Sane
<1>3. /\ launched' = [launched EXCEPT ![q] = clock] /\ excused \subseteq excused'
      /\ UNCHANGED <<file, clock, mixed>>
  BY <1>2 DEF StartRun, disk
<1>4. \A s \in Schedules : launched'[s] # None => launched'[s] <= clock'
  BY <1>3 DEF StampInv, Typed, TypeOK, Times
<1>5. Pends(a, q)' /\ \A d : ~Saving(a, d)'
  BY <1>1, <1>2 DEF Pends, Unstamped, Move, Saving
<1> SUFFICES ASSUME NEW s \in Schedules, Clean(s)' PROVE Noted(s)'
  BY <1>4 DEF StampInv, Noted
<1>6. CASE s = q
  BY <1>5, <1>6 DEF Noted
<1>7. CASE s # q
  <2>1. launched'[s] = launched[s] /\ Clean(s)
    BY <1>3, <1>7 DEF Typed, TypeOK, Clean
  <2>2. Noted(s)
    BY <2>1 DEF StampInv, Noted
  <2>3. \A b \in Threads : Pends(b, s) => b # a /\ Pends(b, s)'
    BY <1>1, <1>2, <1>7, OthersSame DEF Pends, Unstamped
  <2>4. Has(file[s.doc], s)' <=> Has(file[s.doc], s)
    BY <1>3, <2>1 DEF Has
  <2>5. ASSUME NEW b \in Threads, Saving(b, s.doc)', act'[b].kind # "put"
        PROVE  Has(act[b].copy, s)' \/ \E c \in Threads \ {b} : Pends(c, s)'
    <3>1. b # a /\ Saving(b, s.doc) /\ act[b].kind # "put"
          /\ act'[b].copy = act[b].copy
      BY <1>1, <1>5, <2>5, OthersSame
    <3>2. Has(act[b].copy, s) \/ \E c \in Threads \ {b} : Pends(c, s)
      BY <2>2, <3>1 DEF Noted
    <3>3. Has(act[b].copy, s) => Has(act[b].copy, s)'
      BY <2>1, <3>1 DEF Has
    <3> QED
      BY <2>3, <3>2, <3>3
  <2> QED
    BY <2>2, <2>3, <2>4, <2>5 DEF Noted
<1> QED
  BY <1>6, <1>7

\* A copy just loaded has what the file has, and its own stamp.
LEMMA LoadStamps ==
  ASSUME Typed, SaveInv, ActInv, StampInv, NEW a \in Threads, NEW e \in Docs,
         NEW kind, NEW copy, NEW edit, LoadsToSave(a, e, kind, copy, edit),
         UNCHANGED <<file, launched, clock>>, excused \subseteq excused',
         \A s \in Schedules : Clean(s) /\ s.doc = e =>
           Has(copy, s) \/ (~Pends(a, s) /\ (Has(file[e], s) => Has(copy, s)))
  PROVE  StampInv'
<1>1. PICK t : /\ Move(a, t) /\ t.pc = "save" /\ t.kind = kind /\ t.doc = e /\ t.copy = copy
               /\ t.what = act[a].what
  BY LoadsMove
<1>2. mixed \subseteq mixed'
  BY DEF LoadsToSave
<1> SUFFICES ASSUME NEW s \in Schedules, Clean(s)' PROVE Noted(s)'
  BY DEF StampInv, Noted
<1>3. Clean(s)
  BY <1>2 DEF Clean
<1>4. Noted(s)
  BY <1>3 DEF StampInv, Noted
<1>5. \A b \in Threads : Pends(b, s) => Pends(b, s)'
  <2>1. Pends(a, s) => Pends(a, s)'
    BY <1>1 DEF Pends, Unstamped, Move
  <2> QED
    BY <1>1, <2>1, OthersSame
<1>7. Has(file[s.doc], s)' <=> Has(file[s.doc], s)
  BY DEF Has
<1>8. ASSUME NEW b \in Threads, Saving(b, s.doc)', act'[b].kind # "put"
      PROVE  Has(act[b].copy, s)' \/ \E c \in Threads \ {b} : Pends(c, s)'
  <2>1. CASE b # a
    <3>1. Saving(b, s.doc) /\ act[b].kind # "put" /\ act'[b].copy = act[b].copy
      BY <1>1, <1>8, <2>1, OthersSame
    <3>2. Has(act[b].copy, s) \/ \E c \in Threads \ {b} : Pends(c, s)
      BY <1>4, <3>1 DEF Noted
    <3>3. Has(act[b].copy, s) => Has(act[b].copy, s)'
      BY <3>1 DEF Has
    <3> QED
      BY <1>5, <3>2, <3>3
  <2>2. CASE b = a
    <3>1. s.doc = e /\ act'[a].copy = copy
      BY <1>1, <1>8, <2>2 DEF Move, Saving
    <3>2. Has(copy, s) => Has(act[a].copy, s)'
      BY <3>1 DEF Has
    <3>3. CASE Has(copy, s)
      BY <2>2, <3>2, <3>3
    <3>4. CASE ~Has(copy, s)
      <4>1. ~Pends(a, s) /\ ~Has(file[s.doc], s)
        BY <1>3, <3>1, <3>4
      <4>2. PICK c \in Threads \ {a} : Pends(c, s)
        BY <1>4, <4>1 DEF Noted
      <4> QED
        BY <1>5, <2>2, <4>2
    <3> QED
      BY <3>3, <3>4
  <2> QED
    BY <2>1, <2>2
<1> QED
  BY <1>4, <1>5, <1>7, <1>8 DEF Noted

LEMMA StampStep ==
  ASSUME Typed, SaveInv, FitInv, ActInv, StampInv, TickInv, [Next]_vars
  PROVE  StampInv'
<1>0. /\ act \in [Threads -> Activities] /\ \A a \in Threads : Sane(act[a])
      /\ file \in [Docs -> Contents \cup {Cut, Garbled}]
      /\ Rest.pc = "rest" /\ Sleep.pc = "sleep" /\ Rest.what = None
      /\ \A pc : [Rest EXCEPT !.pc = pc].pc = pc
      /\ \A a : AfterSave(a).pc \in {"rest", "due"}
  BY DEF Typed, TypeOK, Rest, Sleep, AfterSave
<1>1. CASE UNCHANGED vars
  BY <1>1 DEF StampInv, Clean, Has, Pends, Unstamped, Saving, vars, disk, past
<1>2. ASSUME NEW a \in Threads, OpenTemp(a) \/ WriteTemp(a) \/ Replace(a) \/ ReplaceFails(a)
      PROVE  StampInv'
  <2>1. CASE OpenTemp(a) \/ WriteTemp(a)
    <3>1. PICK t : /\ Move(a, t) /\ act[a].pc \in {"save", "open"} /\ t.pc \in {"open", "replace"}
                   /\ t.kind = act[a].kind /\ t.doc = act[a].doc
                   /\ t.what = act[a].what /\ t.copy = act[a].copy
      BY <2>1, SaveMoves
    <3>2. UNCHANGED <<launched, clock, excused, mixed>>
      BY <2>1 DEF OpenTemp, WriteTemp, past
    <3>3. \A d \in Docs \ mixed' : file'[d] = file[d]
      <4>1. CASE OpenTemp(a)
        BY <4>1 DEF OpenTemp
      <4>2. CASE WriteTemp(a)
        <5> SUFFICES ASSUME NEW d \in Docs \ mixed PROVE file'[d] = file[d]
          BY <3>2
        <5>1. act[a].doc = d => act[a].fd = "temp"
          BY <4>2 DEF WriteTemp, At, Saving, SaveInv, InHand
        <5> QED
          BY <1>0, <4>2, <5>1 DEF WriteTemp
      <4> QED
        BY <2>1, <4>1, <4>2
    <3>4. \A s \in Schedules : Pends(a, s) =>
            t.what = s /\ t.pc \in {"stamp", "save", "open", "replace"}
      BY <3>1 DEF Pends, Unstamped
    <3> QED
      BY <3>1, <3>2, <3>3, <3>4, StampMoves
  <2>2. CASE ReplaceFails(a)
    <3>1. PICK t : Move(a, t) /\ t.pc \in {"rest", "sleep"}
      BY <1>0, <2>2, SaveMoves
    <3>2. /\ UNCHANGED <<file, launched, clock, mixed>> /\ excused' = excused \cup Unstamped(a)
      BY <2>2 DEF ReplaceFails, disk
    <3>3. \A s \in Schedules : Pends(a, s) => s \in excused'
      BY <3>2 DEF Pends
    <3> QED
      BY <3>1, <3>2, <3>3, StampMoves
  <2> QED
    BY <1>2, <2>1, <2>2, ReplaceStamps
<1>3. ASSUME NEW a \in Threads, Check(a) \/ TurnDown(a) \/ StartRun(a) \/ Stamp(a)
      PROVE  StampInv'
  <2>1. CASE Check(a) \/ TurnDown(a)
    <3>1. PICK t : Move(a, t) /\ act[a].pc = "check" /\ t.pc \in {"start", "rest", "due"}
      BY <1>0, <2>1, LaunchMoves
    <3>2. UNCHANGED <<file, launched, clock, excused, mixed>>
      BY <2>1 DEF Check, TurnDown, disk, past
    <3>3. \A s : ~Pends(a, s)
      BY <3>1 DEF Pends, Unstamped
    <3> QED
      BY <3>1, <3>2, <3>3, StampMoves
  <2>2. CASE Stamp(a)
    <3>1. PICK d, i : d = act[a].doc /\ i = act[a].what.id
      OBVIOUS
    <3>2. /\ d \in Docs /\ act[a].pc = "stamp" /\ act[a].what \in Schedules
          /\ UNCHANGED <<file, launched, clock, excused>>
      BY <1>0, <2>2, <3>1 DEF Stamp, At, Sane, disk
    <3>3. Load(d) \in Contents /\ Fits(Load(d), d)
      BY <3>2, LoadFits
    <3>4. \A s \in Schedules : Pends(a, s) <=> s = act[a].what
      BY <3>2 DEF Pends, Unstamped
    <3>5. CASE i \in DOMAIN Load(d).last /\ LoadsToSave(a, d, "launch", Stamped(Load(d), i), None)
      <4> DEFINE c == Stamped(Load(d), i)
      <4>1. PICK I : Load(d).last \in [I -> Times \cup {None}]
        BY <3>3 DEF Contents, Stamps
      <4>2. /\ c.last[i] = clock
            /\ \A j : j # i => c.last[j] = Load(d).last[j]
        BY <3>3, <3>5, <4>1 DEF Stamped, Contents
      <4> HIDE DEF c
      <4>3. ASSUME NEW s \in Schedules, Clean(s), s.doc = d
            PROVE  Has(c, s) \/ (~Pends(a, s) /\ (Has(file[d], s) => Has(c, s)))
        <5>1. CASE s.id = i
          <6>1. launched[s] \in Times /\ launched[s] <= clock /\ clock \in Times
            BY <4>3 DEF Clean, StampInv, Typed, TypeOK
          <6> QED
            BY <4>2, <5>1, <6>1 DEF Has, Times
        <5>2. CASE s.id # i
          <6>1. act[a].what # s
            BY <3>1, <5>2
          <6>2. d \notin mixed
            BY <4>3 DEF Clean
          <6>3. Load(d) = file[d]
            BY <3>2, <6>2, LoadKept
          <6> QED
            BY <3>4, <4>2, <5>2, <6>1, <6>3 DEF Has
        <5> QED
          BY <5>1, <5>2
      <4> QED
        BY <3>2, <3>5, <4>3, LoadStamps DEF c
    <3>6. CASE i \notin DOMAIN Load(d).last /\ Becomes(a, AfterSave(a)) /\ UNCHANGED mixed
      <4>1. Move(a, AfterSave(a))
        BY <3>6, BecomesMove
      <4>2. ASSUME NEW s \in Schedules, Pends(a, s), OnlyOne(s)
            PROVE  s.doc \in mixed'
        <5>1. s = act[a].what /\ d = s.doc /\ s.id \in Ids(d)
          BY <3>1, <3>4, <4>2 DEF ActInv, Tidy, Ids
        <5> QED
          BY <3>1, <3>3, <3>6, <5>1 DEF Fits
      <4> QED
        BY <1>0, <3>2, <3>6, <4>1, <4>2, StampMoves
    <3> QED
      BY <2>2, <3>1, <3>5, <3>6 DEF Stamp, Owner
  <2> QED
    BY <1>3, <2>1, <2>2, StartStamps
<1>4. ASSUME NEW b \in Tabs,
             \/ Put(b) \/ Refuse(b)
             \/ \E d \in Shown : Get(b, d)
             \/ \E r \in Repos \cap Shown : Register(b, r)
             \/ \E s \in Schedules : RunNow(b, s)
      PROVE  StampInv'
  <2>0. b \in Threads
    BY DEF Threads
  <2>2. CASE Put(b)
    <3>1. /\ act[b].pc = "rest" /\ UNCHANGED <<file, launched, clock, excused>>
      BY <2>2 DEF Put, MayAsk, At, disk
    <3>2. \A s : ~Pends(b, s)
      BY <3>1 DEF Pends, Unstamped
    <3>3. PICK d, copy, edit : LoadsToSave(b, d, "put", copy, edit)
      BY <2>2 DEF Put
    <3>4. PICK t : Move(b, t) /\ t.kind = "put"
      BY <2>0, <3>3, LoadsMove
    <3>5. mixed \subseteq mixed'
      BY <3>3 DEF LoadsToSave
    <3> QED
      BY <2>0, <3>1, <3>2, <3>4, <3>5, StampMoves
  <2>3. CASE Refuse(b)
    <3>1. /\ act[b].kind = "put" /\ Move(b, Rest)
          /\ UNCHANGED <<file, launched, clock, excused, mixed>>
      BY <2>0, <2>3, BecomesMove DEF Refuse, disk, past
    <3>2. \A s \in Schedules : ~Pends(b, s)
      BY <2>0, <3>1 DEF ActInv, Tidy, Pends, Unstamped
    <3> QED
      BY <1>0, <2>0, <3>1, <3>2, StampMoves
  <2>4. ASSUME NEW d \in Shown, Get(b, d) PROVE StampInv'
    BY <2>4 DEF Get, StampInv, Clean, Has, Pends, Unstamped, Saving, disk, past
  <2>5. ASSUME NEW r \in Repos, Register(b, r) PROVE StampInv'
    <3>1. /\ r \in Docs /\ act[b].pc = "rest" /\ LoadsToSave(b, r, "name", Load(r), None)
          /\ UNCHANGED <<file, launched, clock, excused>>
      BY <2>5 DEF Register, MayAsk, At, Docs, disk
    <3>2. \A s : ~Pends(b, s)
      BY <3>1 DEF Pends, Unstamped
    <3>3. \A s \in Schedules : Clean(s) /\ s.doc = r => Load(r) = file[r]
      BY <3>1, LoadKept DEF Clean
    <3> QED
      BY <2>0, <3>1, <3>2, <3>3, LoadStamps
  <2>6. ASSUME NEW s \in Schedules, RunNow(b, s) PROVE StampInv'
    <3>1. PICK t : Move(b, t) /\ act[b].pc = "rest" /\ t.pc = "check"
      BY <2>6, RunNowMoves
    <3>2. UNCHANGED <<file, launched, clock, excused, mixed>>
      BY <2>6 DEF RunNow, disk, past
    <3>3. \A q : ~Pends(b, q)
      BY <3>1 DEF Pends, Unstamped
    <3> QED
      BY <2>0, <3>1, <3>2, <3>3, StampMoves
  <2> QED
    BY <1>4, <2>2, <2>3, <2>4, <2>5, <2>6
<1>5. CASE Ticker
  <2>0. "ticker" \in Threads /\ UNCHANGED <<file, launched, clock, mixed>>
        /\ excused \subseteq excused'
    BY <1>5 DEF Threads, Ticker, TickDue, TickEnd, TickRead, TickNext, disk, past
  <2>1. \E t : /\ Move("ticker", t) /\ t.pc \in {"sleep", "read", "due", "check"}
               /\ act["ticker"].pc \in {"rest", "read", "due"}
    <3>1. CASE TickDue
      BY <1>0, <2>0, <3>1, BecomesMove DEF TickDue, At
    <3>2. CASE TickEnd
      BY <1>0, <2>0, <3>2, BecomesMove DEF TickEnd, At
    <3>3. ASSUME NEW d \in Docs, TickRead(d)
          PROVE  \E t : /\ Move("ticker", t) /\ t.pc \in {"sleep", "read", "due", "check"}
                        /\ act["ticker"].pc \in {"rest", "read", "due"}
      <4>1. CASE act["ticker"] = Rest /\ Becomes("ticker", [Rest EXCEPT !.pc = "read"])
        BY <1>0, <2>0, <4>1, BecomesMove
      <4>2. CASE At("ticker", "read") /\ UNCHANGED act
        BY <4>2 DEF Move, At
      <4> QED
        BY <3>3, <4>1, <4>2 DEF TickRead
    <3>4. ASSUME NEW s \in Schedules, TickNext(s)
          PROVE  \E t : /\ Move("ticker", t) /\ t.pc \in {"sleep", "read", "due", "check"}
                        /\ act["ticker"].pc \in {"rest", "read", "due"}
      BY <3>4, TickNextMoves
    <3> QED
      BY <1>5, <3>1, <3>2, <3>3, <3>4 DEF Ticker
  <2>2. PICK t : /\ Move("ticker", t) /\ t.pc \in {"sleep", "read", "due", "check"}
                 /\ act["ticker"].pc \in {"rest", "read", "due"}
    BY <2>1
  <2>3. \A s : ~Pends("ticker", s)
    BY <2>2 DEF Pends, Unstamped
  <2> QED
    BY <2>0, <2>2, <2>3, StampMoves
<1>6. CASE World
  <2>1. CASE MinutePasses
    <3>1. /\ UNCHANGED <<file, launched, excused, mixed>> /\ clock' = clock + 1
          /\ clock \in Times
      BY <2>1 DEF MinutePasses, disk, past, Typed, TypeOK
    <3>2. \A a \in Threads : act'[a] = act[a] \/ (act[a] = Sleep /\ act'[a] = Rest)
      BY <2>1 DEF MinutePasses
    <3>3. \A a \in Threads, s \in Schedules : Pends(a, s)' <=> Pends(a, s)
      BY <1>0, <3>2 DEF Pends, Unstamped
    <3>4. \A a \in Threads, d \in Docs : Saving(a, d)' => Saving(a, d) /\ act'[a] = act[a]
      BY <1>0, <3>2 DEF Saving
    <3>5. \A s \in Schedules : launched'[s] # None => launched'[s] <= clock'
      BY <3>1 DEF StampInv, Typed, TypeOK, Times
    <3> QED
      BY <3>1, <3>3, <3>4, <3>5 DEF StampInv, Clean, Has
  <2>2. CASE Crash
    <3>1. /\ UNCHANGED <<file, launched, mixed, clock>> /\ \A a \in Threads : act'[a] = Rest
          /\ excused' = excused \cup UNION {Unstamped(a) : a \in Threads}
      BY <2>2 DEF Crash, disk
    <3>2. \A a \in Threads, d \in Docs : ~Saving(a, d)'
      BY <1>0, <3>1 DEF Saving
    <3>3. \A s \in Schedules : Clean(s)' => Clean(s) /\ \A a \in Threads : ~Pends(a, s)
      BY <3>1 DEF Clean, Pends
    <3>4. \A s \in Schedules : Has(file[s.doc], s)' <=> Has(file[s.doc], s)
      BY <3>1 DEF Has
    <3> QED
      BY <3>1, <3>2, <3>3, <3>4 DEF StampInv
  <2>3. ASSUME NEW r \in Repos, RunEnds(r) PROVE StampInv'
    BY <2>3 DEF RunEnds, StampInv, Clean, Has, Pends, Unstamped, Saving, disk, past
  <2> QED
    BY <1>6, <2>1, <2>2, <2>3 DEF World
<1> QED
  BY <1>1, <1>2, <1>3, <1>4, <1>5, <1>6 DEF Next, Saves, Launches, Requests

-----------------------------------------------------------------------------
(***************************************************************************)
(* What a tick launches has a moment that came since its last launch.      *)
(***************************************************************************)
\* A schedule that had a moment still has it as long as it is not launched.
LEMMA TimelyStays ==
  ASSUME Typed, NEW s \in Schedules, Timely(s), launched[s] # None,
         launched'[s] = launched[s], clock' \in Times, clock <= clock'
  PROVE  Timely(s)'
<1>1. PICK m \in Moments(s, launched[s]) : m <= clock
  BY DEF Timely
<1>2. launched[s] \in Times /\ clock \in Times /\ s.every \in Nat /\ s.at \subseteq Nat
  BY DEF Typed, TypeOK
<1>3. m \in Nat /\ m \in Moments(s, launched[s])'
  BY <1>1, <1>2 DEF Moments, Times
<1>4. m <= clock'
  BY <1>1, <1>2, <1>3 DEF Times
<1> QED
  BY <1>3, <1>4 DEF Timely

\* A step that leaves the tick where it is, or brings it on with the schedule it
\* is about.
LEMMA TickMoves ==
  ASSUME Typed, TickInv, UNCHANGED <<seen, due>>, clock' \in Times, clock <= clock',
         excused \subseteq excused', mixed \subseteq mixed',
         LET t == act["ticker"]  u == act'["ticker"] IN
         /\ u.pc \in Idle <=> t.pc \in Idle
         /\ u.pc = "read" <=> t.pc = "read"
         /\ u.pc \in Idle \cup {"read"} => u.what = t.what
         /\ u.pc \in {"check", "start"} => t.pc \in {"check", "start"} /\ u.what = t.what
         /\ u.pc \notin Idle =>
              /\ \A b \in Tabs, s \in Schedules \ excused' : Pends(b, s)' => Pends(b, s)
              /\ \A s \in Schedules \ excused' :
                   launched'[s] = launched[s] \/ (s \notin due /\ u.pc \notin {"read", "check", "start"})
  PROVE  TickInv'
<1> DEFINE t == act["ticker"]
           u == act'["ticker"]
<1>1. \A s \in Schedules : Clean(s)' /\ launched'[s] = launched[s] => Clean(s)
  BY DEF Clean
<1>2. u.pc \in Idle => t.pc \in Idle /\ u.what = None /\ due = {}
  BY DEF TickInv
<1>3. ASSUME NEW s \in Schedules, Clean(s)', u.pc = "read", seen[s.doc] # None
      PROVE  Has(seen[s.doc], s)'
  <2>1. t.pc = "read" /\ launched'[s] = launched[s] /\ s \notin excused'
    BY <1>3 DEF Clean, Idle
  <2>2. Has(seen[s.doc], s)
    BY <1>1, <1>3, <2>1 DEF TickInv
  <2> QED
    BY <2>1, <2>2 DEF Has
<1>4. ASSUME NEW s \in Schedules, Clean(s)',
             s \in due \/ (u.pc \in {"check", "start"} /\ u.what = s)
      PROVE  Timely(s)'
  <2>1. u.pc \notin Idle /\ s \notin excused'
    BY <1>2, <1>4 DEF Clean, Idle
  <2>2. launched'[s] = launched[s]
    BY <1>4, <2>1
  <2>3. Clean(s) /\ (s \in due \/ (t.pc \in {"check", "start"} /\ t.what = s))
    BY <1>1, <1>4, <2>2
  <2>4. Timely(s) /\ launched[s] # None
    BY <2>3 DEF TickInv, Clean
  <2> QED
    BY <2>2, <2>4, TimelyStays
<1>5. u.pc \notin Idle => \A b \in Tabs, s \in Schedules \ excused' : ~Pends(b, s)'
  BY DEF TickInv
<1>6. /\ u.pc \in Idle => \A d \in Docs : seen[d] = None
      /\ u.pc \in Idle \cup {"read"} => u.what = None /\ due = {}
      /\ u.pc \notin Idle \cup {"read"} => \A d \in Docs : seen[d] # None
      /\ \A s \in due : s.id \in DOMAIN seen[s.doc].last
      /\ u.pc \in {"check", "start"} => u.what \notin due
  BY DEF TickInv
<1> QED
  BY <1>3, <1>4, <1>5, <1>6 DEF TickInv

\* A tab that moves leaves the tick as it is; a launch of its own is excused.
LEMMA TabTick ==
  ASSUME Typed, TickInv, NEW b \in Tabs, NEW t, Move(b, t),
         UNCHANGED <<seen, due, clock>>, excused \subseteq excused', mixed \subseteq mixed',
         act["ticker"].pc \notin Idle => \A s \in Schedules \ excused' :
           /\ launched'[s] = launched[s]
           /\ t.what = s /\ t.pc \in {"stamp", "save", "open", "replace"} => Pends(b, s)
  PROVE  TickInv'
<1>1. /\ b \in Threads /\ "ticker" \in Threads \ {b} /\ Tabs \subseteq Threads
      /\ clock \in Times
  BY DEF Typed, TypeOK, Threads
<1>2. act'["ticker"].pc = act["ticker"].pc /\ act'["ticker"].what = act["ticker"].what
  BY <1>1, OthersSame
<1>3. ASSUME act["ticker"].pc \notin Idle, NEW c \in Tabs, NEW s \in Schedules \ excused', Pends(c, s)'
      PROVE  Pends(c, s)
  <2>1. CASE c = b
    BY <1>3, <2>1 DEF Pends, Unstamped, Move
  <2>2. CASE c # b
    BY <1>1, <1>3, <2>2, OthersSame
  <2> QED
    BY <2>1, <2>2
<1>4. clock <= clock'
  BY <1>1 DEF Times
<1> QED
  BY <1>1, <1>2, <1>3, <1>4, TickMoves

\* The ticker goes on with the tick.
LEMMA TickerTick ==
  ASSUME Typed, TickInv, NEW t, Move("ticker", t),
         UNCHANGED <<seen, due, clock>>, excused \subseteq excused', mixed \subseteq mixed',
         act["ticker"].pc \notin Idle \cup {"read"}, t.pc \notin Idle \cup {"read"},
         t.pc \in {"check", "start"} =>
           act["ticker"].pc \in {"check", "start"} /\ t.what = act["ticker"].what,
         \A s \in Schedules :
           launched'[s] = launched[s] \/ (s \notin due /\ t.pc \notin {"check", "start"})
  PROVE  TickInv'
<1>1. /\ "ticker" \in Threads /\ Tabs \subseteq Threads \ {"ticker"} /\ clock \in Times
  BY DEF Typed, TypeOK, Threads
<1>2. act'["ticker"] = t
  BY DEF Move
<1>3. \A b \in Tabs, s \in Schedules : Pends(b, s)' => Pends(b, s)
  BY <1>1, OthersSame
<1>4. clock <= clock'
  BY <1>1 DEF Times
<1> QED
  BY <1>1, <1>2, <1>3, <1>4, TickMoves DEF Idle

\* Saves and launches, of the ticker and of the tabs.
LEMMA SavesTick ==
  ASSUME Typed, TickInv, NEW a \in Threads,
         OpenTemp(a) \/ WriteTemp(a) \/ Replace(a) \/ ReplaceFails(a)
  PROVE  TickInv'
<1>0. /\ "ticker" \in Threads /\ UNCHANGED <<launched, clock, mixed>> /\ excused \subseteq excused'
      /\ \A c : AfterSave(c).pc \in {"rest", "due"} /\ AfterSave("ticker").pc = "due"
      /\ Sleep.pc = "sleep" /\ Sleep.what = None /\ Rest.pc = "rest"
  BY DEF Threads, OpenTemp, WriteTemp, Replace, ReplaceFails, past, AfterSave, Rest, Sleep
<1>1. CASE a = "ticker" /\ ReplaceFails(a)
  <2>1. act'["ticker"] = Sleep /\ due' = {} /\ \A d \in Docs : seen'[d] = None
    BY <1>0, <1>1 DEF ReplaceFails, Becomes, Forget, Typed, TypeOK
  <2> QED
    BY <1>0, <2>1 DEF TickInv, Idle
<1>2. CASE ~(a = "ticker" /\ ReplaceFails(a))
  <2>1. UNCHANGED <<seen, due>>
    BY <1>2 DEF OpenTemp, WriteTemp, Replace, ReplaceFails, tick
  <2>2. PICK t : /\ Move(a, t) /\ act[a].pc \in {"save", "open", "replace"}
                 /\ \/ t.pc \in {"open", "replace"} /\ t.what = act[a].what
                    \/ t.pc \in {"rest", "due"} /\ (a = "ticker" => t.pc = "due")
    <3>1. CASE OpenTemp(a) \/ WriteTemp(a)
      BY <3>1, SaveMoves
    <3>2. CASE Replace(a) \/ ReplaceFails(a)
      BY <1>0, <1>2, <3>2, SaveMoves
    <3> QED
      BY <1>2, <3>1, <3>2
  <2>3. CASE a = "ticker"
    BY <1>0, <2>1, <2>2, <2>3, TickerTick DEF Idle
  <2>4. CASE a # "ticker"
    <3>1. a \in Tabs
      BY <2>4 DEF Threads
    <3>2. \A s \in Schedules : t.what = s /\ t.pc \in {"stamp", "save", "open", "replace"} => Pends(a, s)
      BY <2>2 DEF Pends, Unstamped
    <3> QED
      BY <1>0, <2>1, <2>2, <3>1, <3>2, TabTick
  <2> QED
    BY <2>3, <2>4
<1> QED
  BY <1>1, <1>2

LEMMA LaunchesTick ==
  ASSUME Typed, ActInv, TickInv, NEW a \in Threads,
         Check(a) \/ TurnDown(a) \/ StartRun(a) \/ Stamp(a)
  PROVE  TickInv'
<1>0. /\ "ticker" \in Threads /\ UNCHANGED <<seen, due, clock>> /\ excused \subseteq excused'
      /\ mixed \subseteq mixed'
      /\ \A c : AfterSave(c).pc \in {"rest", "due"} /\ AfterSave("ticker").pc = "due"
  BY DEF Threads, Check, TurnDown, StartRun, Stamp, LoadsToSave, past, tick, AfterSave, Rest
<1>1. CASE StartRun(a)
  <2>1. PICK t : Move(a, t) /\ act[a].pc = "start" /\ t.pc = "stamp" /\ t.what = act[a].what
    BY <1>1, LaunchMoves
  <2>2. PICK q \in Schedules : q = act[a].what
    BY <2>1 DEF Typed, Sane
  <2>3. \A s \in Schedules : s # q => launched'[s] = launched[s]
    BY <1>1, <2>2 DEF StartRun, Typed, TypeOK
  <2>4. CASE a = "ticker"
    <3>1. q \notin due
      BY <2>1, <2>2, <2>4 DEF TickInv
    <3> QED
      BY <1>0, <2>1, <2>3, <2>4, <3>1, TickerTick DEF Idle
  <2>5. CASE a # "ticker"
    <3>1. a \in Tabs
      BY <2>5 DEF Threads
    <3>2. act["ticker"].pc \notin Idle => q \in excused'
      BY <1>1, <2>2, <2>5 DEF StartRun, Idle, Rest, Sleep
    <3> QED
      BY <1>0, <2>1, <2>2, <2>3, <3>1, <3>2, TabTick
  <2> QED
    BY <2>4, <2>5
<1>2. CASE Check(a) \/ TurnDown(a) \/ Stamp(a)
  <2>1. UNCHANGED launched
    BY <1>2 DEF Check, TurnDown, Stamp, past
  <2>2. PICK t : /\ Move(a, t) /\ act[a].pc \in {"check", "stamp"}
                 /\ \/ act[a].pc = "check" /\ t.pc = "start" /\ t.what = act[a].what
                    \/ act[a].pc = "stamp" /\ t.pc = "save" /\ t.what = act[a].what
                    \/ t.pc \in {"rest", "due"} /\ (a = "ticker" => t.pc = "due")
    <3>1. CASE Check(a) \/ TurnDown(a)
      BY <1>0, <3>1, LaunchMoves
    <3>2. CASE Stamp(a)
      <4>1. act[a].pc = "stamp"
        BY <3>2 DEF Stamp, At
      <4>2. \/ \E d, kind, copy, edit : LoadsToSave(a, d, kind, copy, edit)
            \/ Move(a, AfterSave(a))
        BY <3>2, BecomesMove DEF Stamp
      <4>3. ASSUME NEW d, NEW kind, NEW copy, NEW edit,
         LoadsToSave(a, d, kind, copy, edit)
            PROVE  \E t : Move(a, t) /\ t.pc = "save" /\ t.what = act[a].what
        BY <4>3, LoadsMove
      <4> QED
        BY <1>0, <4>1, <4>2, <4>3
    <3> QED
      BY <1>2, <3>1, <3>2
  <2>3. CASE a = "ticker"
    BY <1>0, <2>1, <2>2, <2>3, TickerTick DEF Idle
  <2>4. CASE a # "ticker"
    <3>1. a \in Tabs
      BY <2>4 DEF Threads
    <3>2. \A s \in Schedules : t.what = s /\ t.pc \in {"stamp", "save", "open", "replace"} => Pends(a, s)
      BY <2>2 DEF Pends, Unstamped
    <3> QED
      BY <1>0, <2>1, <2>2, <3>1, <3>2, TabTick
  <2> QED
    BY <2>3, <2>4
<1> QED
  BY <1>1, <1>2

LEMMA RequestsTick == ASSUME Typed, ActInv, TickInv, Requests PROVE TickInv'
<1>1. PICK b \in Tabs :
        \/ Put(b) \/ Refuse(b)
        \/ \E d \in Shown : Get(b, d)
        \/ \E r \in Repos \cap Shown : Register(b, r)
        \/ \E s \in Schedules : RunNow(b, s)
  BY DEF Requests
<1>2. /\ b \in Threads /\ UNCHANGED <<seen, due, clock, launched, excused>> /\ mixed \subseteq mixed'
  BY <1>1 DEF Threads, Put, Refuse, Get, Register, RunNow, LoadsToSave, tick, past
<1>3. CASE \E d \in Shown : Get(b, d)
  BY <1>3 DEF Get, TickInv, Clean, Has, Timely, Moments, Pends, Unstamped, tick, past
<1>4. CASE Refuse(b)
  <2>1. Move(b, Rest) /\ Rest.pc = "rest"
    BY <1>2, <1>4, BecomesMove DEF Refuse, Rest
  <2> QED
    BY <1>2, <2>1, TabTick
<1>5. CASE Put(b) \/ \E r \in Repos \cap Shown : Register(b, r)
  <2>1. act[b].pc = "rest" /\ \E d, kind, copy, edit : LoadsToSave(b, d, kind, copy, edit)
    BY <1>5 DEF Put, Register, MayAsk, At
  <2>2. act[b].what = None
    BY <1>2, <2>1 DEF ActInv, Tidy, Rest
  <2>3. PICK t : Move(b, t) /\ t.what = None
    BY <1>2, <2>1, <2>2, LoadsMove
  <2> QED
    BY <1>2, <2>3, TabTick
<1>6. CASE \E s \in Schedules : RunNow(b, s)
  <2>1. PICK t : Move(b, t) /\ t.pc = "check"
    BY <1>6, RunNowMoves
  <2> QED
    BY <1>2, <2>1, TabTick
<1> QED
  BY <1>1, <1>3, <1>4, <1>5, <1>6

\* A schedule that is due had a moment after its stamp, and so after its launch.
LEMMA DueIsTimely ==
  ASSUME Typed, NEW s \in Schedules, launched[s] # None, NEW doc \in Contents,
         IsDue(s, doc), Has(doc, s)
  PROVE  Timely(s)
<1>1. PICK I : doc.last \in [I -> Times \cup {None}]
  BY DEF Contents, Stamps
<1>2. doc.last[s.id] \in Times /\ doc.last[s.id] >= launched[s]
  BY <1>1 DEF IsDue, Has
<1>3. launched[s] \in Times /\ clock \in Times /\ s.every \in Nat /\ s.at \subseteq Nat
  BY DEF Typed, TypeOK
<1>4. None \notin Times
  BY DEF Times
<1>5. PICK m \in Moments(s, doc.last[s.id]) : m <= clock
  BY DEF IsDue
<1>6. CASE s.every > 0
  <2>1. m = doc.last[s.id] + s.every
    BY <1>2, <1>5, <1>6, <1>4 DEF Moments
  <2>2. launched[s] + s.every <= clock /\ launched[s] + s.every \in Moments(s, launched[s])
    BY <1>2, <1>3, <1>5, <1>6, <2>1 DEF Moments, Times
  <2> QED
    BY <2>2 DEF Timely
<1>7. CASE ~(s.every > 0)
  <2>1. m \in s.at /\ m > doc.last[s.id]
    BY <1>2, <1>5, <1>7, <1>4 DEF Moments
  <2>2. m > launched[s]
    <3>1. \A i, j, k \in Nat : i > j /\ j >= k => i > k
      OBVIOUS
    <3>2. m \in Nat /\ doc.last[s.id] \in Nat /\ launched[s] \in Nat
      BY <1>2, <1>3, <2>1 DEF Times
    <3> QED
      BY <1>2, <2>1, <3>1, <3>2
  <2>3. m \in Moments(s, launched[s])
    BY <1>3, <1>7, <2>1, <2>2 DEF Moments
  <2> QED
    BY <1>5, <2>3 DEF Timely
<1> QED
  BY <1>6, <1>7

\* The tick reads a document that has the stamp of every launch it should see.
LEMMA ReadTick ==
  ASSUME Typed, SaveInv, ActInv, StampInv, TickInv, NEW d \in Docs, TickRead(d)
  PROVE  TickInv'
<1>1. /\ "ticker" \in Threads /\ "ticker" \notin Tabs /\ Tabs \subseteq Threads
      /\ act \in [Threads -> Activities] /\ seen \in [Docs -> Contents \cup {None}]
      /\ Rest.pc = "rest" /\ [Rest EXCEPT !.pc = "read"].pc = "read"
      /\ [Rest EXCEPT !.pc = "read"].what = None
  BY DEF Typed, TypeOK, Threads, Rest
<1>2. /\ UNCHANGED <<file, launched, clock, mixed, due>>
      /\ seen' = [seen EXCEPT ![d] = Load(d)]
      /\ excused' = excused \cup UNION {Unstamped(b) : b \in Tabs}
  BY DEF TickRead, disk
<1>3. /\ act["ticker"].pc \in Idle \cup {"read"} /\ due = {}
      /\ act'["ticker"].pc = "read" /\ act'["ticker"].what = None
      /\ \A b \in Tabs : act'[b] = act[b]
      /\ act["ticker"].pc \in Idle => \A e \in Docs : seen[e] = None
  <2>1. CASE act["ticker"] = Rest /\ Becomes("ticker", [Rest EXCEPT !.pc = "read"])
    BY <1>1, <2>1 DEF Becomes, TickInv, Idle
  <2>2. CASE At("ticker", "read") /\ UNCHANGED act
    BY <1>1, <2>2 DEF At, TickInv, Idle
  <2> QED
    BY <2>1, <2>2 DEF TickRead
<1>4. \A b \in Tabs, s \in Schedules \ excused' : ~Pends(b, s) /\ ~Pends(b, s)'
  BY <1>2, <1>3 DEF Pends, Unstamped
<1>5. ASSUME NEW s \in Schedules, Clean(s)', seen'[s.doc] # None
      PROVE  Has(seen[s.doc], s)'
  <2>1. Clean(s) /\ s \in Schedules \ excused' /\ s.doc \in Docs \ mixed
    BY <1>2, <1>5 DEF Clean
  <2>2. CASE s.doc = d
    <3>1. \A a \in Threads : ~Pends(a, s)
      BY <1>3, <1>4, <2>1 DEF Threads, Pends, Unstamped, Idle
    <3>2. Has(file[d], s)
      BY <2>1, <2>2, <3>1 DEF StampInv
    <3>3. seen'[d] = file[d]
      BY <1>1, <1>2, <2>1, <2>2, LoadKept
    <3> QED
      BY <1>2, <2>2, <3>2, <3>3 DEF Has
  <2>3. CASE s.doc # d
    <3>1. seen'[s.doc] = seen[s.doc] /\ act["ticker"].pc = "read"
      BY <1>1, <1>2, <1>3, <1>5, <2>1, <2>3
    <3>2. Has(seen[s.doc], s)
      BY <1>5, <2>1, <3>1 DEF TickInv
    <3> QED
      BY <1>2, <3>1, <3>2 DEF Has
  <2> QED
    BY <2>2, <2>3
<1> QED
  BY <1>2, <1>3, <1>4, <1>5 DEF TickInv, Idle

LEMMA TickerSteps == ASSUME Typed, SaveInv, FitInv, ActInv, StampInv, TickInv, Ticker PROVE TickInv'
<1>0. /\ "ticker" \in Threads /\ Tabs \subseteq Threads \ {"ticker"}
      /\ act \in [Threads -> Activities] /\ seen \in [Docs -> Contents \cup {None}]
      /\ Sleep.pc = "sleep" /\ Sleep.what = None /\ [Rest EXCEPT !.pc = "due"].pc = "due"
  BY DEF Typed, TypeOK, Threads, Rest, Sleep
<1>1. CASE TickEnd
  <2>1. act'["ticker"] = Sleep /\ due' = {} /\ \A d \in Docs : seen'[d] = None
    BY <1>0, <1>1 DEF TickEnd, Becomes, Forget
  <2> QED
    BY <1>0, <2>1 DEF TickInv, Idle
<1>2. CASE TickDue
  <2>1. /\ act["ticker"].pc = "read" /\ act'["ticker"].pc = "due"
        /\ \A b \in Tabs : act'[b] = act[b]
        /\ \A d \in Docs : seen[d] # None
        /\ due' = {s \in Schedules : IsDue(s, seen[s.doc])}
        /\ UNCHANGED <<seen, launched, clock, excused, mixed>>
    BY <1>0, <1>2 DEF TickDue, At, Becomes, past
  <2>2. \A s \in Schedules : Clean(s)' <=> Clean(s)
    BY <2>1 DEF Clean
  <2>3. ASSUME NEW s \in due', Clean(s)
        PROVE  Timely(s)
    <3>1. seen[s.doc] \in Contents /\ Has(seen[s.doc], s) /\ IsDue(s, seen[s.doc])
      BY <1>0, <2>1, <2>3 DEF TickInv
    <3> QED
      BY <2>1, <2>3, <3>1, DueIsTimely DEF Clean
  <2>4. \A s : Timely(s)' <=> Timely(s)
    BY <2>1 DEF Timely, Moments
  <2>5. \A s \in due' : s.id \in DOMAIN seen[s.doc].last
    BY <2>1 DEF IsDue
  <2>6. \A b \in Tabs, s \in Schedules \ excused : ~Pends(b, s)'
    BY <2>1 DEF TickInv, Idle, Pends, Unstamped
  <2> QED
    BY <2>1, <2>2, <2>3, <2>4, <2>5, <2>6 DEF TickInv, Idle
<1>3. ASSUME NEW d \in Docs, TickRead(d) PROVE TickInv'
  BY <1>3, ReadTick
<1>4. ASSUME NEW q \in Schedules, TickNext(q) PROVE TickInv'
  <2>1. PICK t : Move("ticker", t) /\ act["ticker"].pc = "due" /\ t.pc = "check" /\ t.what = q
    BY <1>4, TickNextMoves
  <2>2. act'["ticker"] = t /\ \A b \in Tabs, s \in Schedules : Pends(b, s)' <=> Pends(b, s)
    BY <1>0, <2>1, OthersSame DEF Move
  <2>3. q \in due /\ due' = due \ {q} /\ UNCHANGED <<seen, launched, clock, excused, mixed>>
    BY <1>4 DEF TickNext, past
  <2>4. \A s \in Schedules : (Clean(s)' <=> Clean(s)) /\ (Timely(s)' <=> Timely(s))
    BY <2>3 DEF Clean, Timely, Moments
  <2>5. \A b \in Tabs, s \in Schedules \ excused' : ~Pends(b, s)'
    BY <2>1, <2>2, <2>3 DEF TickInv, Idle
  <2> QED
    BY <2>1, <2>2, <2>3, <2>4, <2>5 DEF TickInv, Idle
<1> QED
  BY <1>1, <1>2, <1>3, <1>4 DEF Ticker

LEMMA WorldTick == ASSUME Typed, TickInv, World PROVE TickInv'
<1>0. /\ "ticker" \in Threads /\ Tabs \subseteq Threads /\ clock \in Times /\ MaxTime \in Nat
      /\ Rest.pc = "rest" /\ Rest.what = None /\ Sleep.pc = "sleep" /\ Sleep.what = None
  BY DEF Typed, TypeOK, Threads, Rest, Sleep
<1>1. CASE MinutePasses
  <2>1. /\ UNCHANGED <<seen, due, launched, excused, mixed>>
        /\ clock' \in Times /\ clock <= clock'
    BY <1>0, <1>1 DEF MinutePasses, Times, tick, past
  <2>2. \A a \in Threads : act'[a] = act[a] \/ (act[a] = Sleep /\ act'[a] = Rest)
    BY <1>1 DEF MinutePasses
  <2>3. \A b \in Tabs, s \in Schedules : Pends(b, s)' => Pends(b, s)
    BY <1>0, <2>2 DEF Pends, Unstamped
  <2>4. /\ act'["ticker"].pc \in Idle <=> act["ticker"].pc \in Idle
        /\ act'["ticker"].pc = "read" <=> act["ticker"].pc = "read"
        /\ act'["ticker"].what = act["ticker"].what
        /\ act'["ticker"].pc \in {"check", "start"} => act["ticker"].pc \in {"check", "start"}
    BY <1>0, <2>2 DEF Idle
  <2> QED
    BY <2>1, <2>3, <2>4, TickMoves
<1>2. CASE Crash
  <2>1. act'["ticker"] = Rest /\ due' = {} /\ \A d \in Docs : seen'[d] = None
    BY <1>0, <1>2 DEF Crash, Forget
  <2> QED
    BY <1>0, <2>1 DEF TickInv, Idle
<1>3. ASSUME NEW r \in Repos, RunEnds(r) PROVE TickInv'
  BY <1>3 DEF RunEnds, TickInv, Clean, Has, Timely, Moments, Pends, Unstamped, tick, past
<1> QED
  BY <1>1, <1>2, <1>3 DEF World

LEMMA TickStep ==
  ASSUME Typed, SaveInv, FitInv, ActInv, StampInv, TickInv, [Next]_vars
  PROVE  TickInv'
<1>1. CASE UNCHANGED vars
  BY <1>1 DEF TickInv, Clean, Has, Timely, Moments, Pends, Unstamped, vars, tick, past
<1> QED
  BY <1>1, SavesTick, LaunchesTick, RequestsTick, TickerSteps, WorldTick DEF Next, Saves, Launches

LEMMA MomentInit == Init => FitInv /\ ActInv /\ StampInv /\ TickInv
<1> SUFFICES ASSUME Init PROVE FitInv /\ ActInv /\ StampInv /\ TickInv
  OBVIOUS
<1>1. /\ \A a \in Threads : act[a] = Rest
      /\ Rest.pc = "rest" /\ Rest.what = None /\ "ticker" \in Threads
  BY DEF Init, Rest, Threads
<1>2. /\ \A d \in Docs : file[d].last = [i \in Ids(d) |-> None] /\ temp[d] = None /\ seen[d] = None
      /\ \A b \in Tabs : page[b] = None
      /\ \A s \in Schedules : launched[s] = None
      /\ due = {}
  BY DEF Init
<1>3. FitInv
  BY <1>1, <1>2 DEF FitInv, Fits, Saving
<1>4. ActInv
  BY <1>1, RestIsTidy DEF ActInv
<1>5. StampInv
  BY <1>2 DEF StampInv, Clean
<1>6. TickInv
  BY <1>1, <1>2 DEF TickInv, Clean, Idle
<1> QED
  BY <1>3, <1>4, <1>5, <1>6

\* A schedule fires once for a moment of its own, whatever the schedules, tabs
\* and documents (scheduler_tick): between the launch of a schedule, by the ticker
\* or a request, and the ticker's next of it comes one of its moments, unless the
\* stamp was overwritten or never made, or the launch came while a tick ran.
THEOREM FiresOncePerMoment == Spec => OncePerMoment
<1> DEFINE Fired == \A s \in Schedules :
             Fires(s) /\ OnlyOne(s) /\ s \notin excused /\ s.doc \notin mixed /\ launched[s] # None
               => \E m \in Moments(s, launched[s]) : m <= clock
<1>1. TickInv => Fired
  BY DEF TickInv, Fires, At, Clean, Timely
<1>2. TickInv => [Fired]_vars
  BY <1>1
<1> QED
  BY <1>2, TypeInit, TypeStep, SaveInit, SaveStep, MomentInit, TidyStep, FitStep, StampStep,
     TickStep, PTL DEF Spec, OncePerMoment

=============================================================================
