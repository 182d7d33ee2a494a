------------------------------ MODULE Schedules ------------------------------
(***************************************************************************)
(* The policy documents (ecosystem.json and one project.json per           *)
(* repository, agentgraph/policy.py), the requests that replace them       *)
(* (routes/config.py), and the scheduler that starts factory runs from     *)
(* the schedules in them and stamps what it started (routes/scheduler.py). *)
(*                                                                         *)
(* Every load, every save and every launch runs in a worker thread of its  *)
(* own, so they interleave step by step.  A save writes <name>.json.tmp    *)
(* and renames it; all savers of a document share the one temporary file.  *)
(* What a factory run does is left to Factory: here it is alive or over.   *)
(* Files behave as on POSIX: an open file survives its renaming.           *)
(***************************************************************************)
EXTENDS Naturals, Sequences, FiniteSets

CONSTANTS
  Repos,       \* the registered target repositories
  Ecosystem,   \* the other document, of all repositories
  Schedules,   \* what is scheduled: [id, doc, target, every, at]
  Urls,        \* the URLs a document's webhooks may have
  Listed,      \* those that every document lists at first, each with a secret
  Shown,       \* bound: the documents with a settings page
  Tabs,        \* browser tabs with a settings page, one request at a time
  MaxTime,     \* bound: minutes
  MaxRequests, \* bound: requests in all
  MaxCrashes,  \* bound: times the server dies
  None,        \* nobody, nothing, never
  Bare,        \* a webhook that is listed without a secret
  Hidden,      \* a secret that is not shown, or a field left blank
  Cut, Garbled \* a file just truncated, or written by two hands

Docs == Repos \cup {Ecosystem}
Times == 0..MaxTime
Ids(d) == {s.id : s \in {t \in Schedules : t.doc = d}}

\* A schedule recurs every so many minutes, or (every = 0) at given minutes, as
\* a cron expression says.  All are enabled.
ASSUME SchedulesAssumption ==
  /\ MaxTime \in Nat /\ MaxRequests \in Nat /\ MaxCrashes \in Nat
  /\ Ecosystem \notin Repos /\ Shown \subseteq Docs /\ "ticker" \notin Tabs
  /\ IsFiniteSet(Schedules) /\ Listed \subseteq Urls
  /\ \A s \in Schedules :
       /\ s.doc \in Docs /\ s.target \in Repos /\ s.every \in Nat
       /\ s.at \subseteq Nat
       /\ s.doc # Ecosystem => s.doc = s.target

Threads == Tabs \cup {"ticker"}

Stamps == UNION {[I -> Times \cup {None}] : I \in {{}} \cup {Ids(d) : d \in Docs}}
Hooks == [Urls -> 0..MaxRequests \cup {None, Bare}]
Edits == [Urls -> 1..MaxRequests \cup {None, Hidden}]
Contents == [hooks : Hooks, last : Stamps]
Shows == [hooks : [Urls -> {None, Hidden}], last : Stamps]

ASSUME NamesAssumption ==
  /\ None \notin 0..(MaxTime + MaxRequests)
  /\ None \notin {Bare, Hidden, Cut, Garbled, "put", "name", "launch"}
  /\ Hidden \notin 0..MaxRequests \cup {Bare}
  /\ \A name \in {None, Cut, Garbled} : name \notin Contents
  /\ None \notin Docs /\ None \notin Schedules /\ None \notin [doc : Docs, text : Shows]

VARIABLES
  file,     \* what is in each document's file
  temp,     \* what is in the temporary file beside it
  page,     \* the document each tab shows, as it was got
  act,      \* what each tab's request and the ticker are in the middle of
  seen,     \* the documents as the running tick read them
  due,      \* the schedules the tick has yet to launch
  alive,    \* factory runs alive in each repository
  tracked,  \* ctx.factory_runs: the repositories it has an alive run of
  clock, asked, crashes,
  newest,   \* history: the webhooks of each document as users asked for them
  launched, \* history: when each schedule was last launched
  mixed,    \* history: documents that two saves were loaded for at one time
  excused,  \* history: schedules whose last stamp may not have been seen
  raced     \* history: repositories that two launches looked at at one time, or
            \* whose run has lost its entry in ctx.factory_runs

disk == <<file, temp>>
tick == <<seen, due>>
runs == <<alive, tracked>>
past == <<newest, launched, mixed, excused, raced>>
vars == <<disk, page, act, tick, runs, clock, asked, crashes, past>>

-----------------------------------------------------------------------------
(***************************************************************************)
(* Documents: for every URL the secret of the webhook that has it (Bare:   *)
(* it has none, None: no webhook has that URL), which is the number of the *)
(* request that gave it, and the stamps of the schedules.  The webhooks    *)
(* stand for everything a user may edit; no two of a document have one URL *)
(* (policy.py does not ask for that).  A file just truncated, or written   *)
(* by two hands, reads as the empty document.                              *)
(***************************************************************************)
Empty == [hooks |-> [u \in Urls |-> None], last |-> [i \in {} |-> None]]
Load(d) == IF file[d] \in {Cut, Garbled} THEN Empty ELSE file[d]
\* A page shows which webhooks there are and none of their secrets.
Redacted(doc) ==
  [doc EXCEPT !.hooks = [u \in Urls |-> IF doc.hooks[u] = None THEN None ELSE Hidden]]
\* Mutant: what a page does not show is saved as it was sent.
AsSent(doc, stored) == doc
\* A field left blank gets the secret stored under the same URL: the webhook of
\* a URL that was edited, or that is new, gets none.
Restored(doc, stored) ==
  [doc EXCEPT !.hooks = [u \in Urls |->
     IF doc.hooks[u] # Hidden THEN doc.hooks[u]
     ELSE IF stored.hooks[u] = None THEN Bare ELSE stored.hooks[u]]]

Rest == [pc |-> "rest", kind |-> None, doc |-> None, what |-> None, copy |-> Empty,
         edit |-> None, fd |-> "none"]

Init ==
  /\ newest = [d \in Docs |-> [u \in Urls |-> IF u \in Listed THEN 0 ELSE None]]
  /\ file = [d \in Docs |-> [hooks |-> newest[d], last |-> [i \in Ids(d) |-> None]]]
  /\ temp = [d \in Docs |-> None]
  /\ page = [b \in Tabs |-> None]
  /\ act = [a \in Threads |-> Rest]
  /\ seen = [d \in Docs |-> None] /\ due = {}
  /\ alive = [r \in Repos |-> 0] /\ tracked = {}
  /\ clock = 0 /\ asked = 0 /\ crashes = 0
  /\ launched = [s \in Schedules |-> None]
  /\ mixed = {} /\ excused = {} /\ raced = {}

At(a, pc) == act[a].pc = pc
Saving(a, d) == act[a].doc = d /\ act[a].pc \in {"save", "open", "replace"}
\* Thread a has started a run of schedule s and has not stamped it yet.
Unstamped(a) == {s \in Schedules : act[a].what = s /\ act[a].pc \in
                                     {"stamp", "save", "open", "replace"}}
Becomes(a, t) == act' = [act EXCEPT ![a] = t]

\* Thread a loads document d to save it again, as `copy`, for a user's `edit` of
\* the webhooks if it is a page that is saved.
LoadsToSave(a, d, kind, copy, edit) ==
  /\ Becomes(a, [act[a] EXCEPT !.pc = "save", !.kind = kind, !.doc = d,
                               !.copy = copy, !.edit = edit])
  /\ mixed' = mixed \cup {e \in {d} : \E b \in Threads \ {a} : Saving(b, e)}

-----------------------------------------------------------------------------
(***************************************************************************)
(* policy._write_atomic.                                                   *)
(***************************************************************************)
OpenTemp(a) ==
  /\ At(a, "save")
  /\ Becomes(a, [act[a] EXCEPT !.pc = "open", !.fd = "temp"])
  /\ temp' = [temp EXCEPT ![act[a].doc] = Cut]
  /\ UNCHANGED <<file, page, tick, runs, clock, asked, crashes, past>>

\* Over what another hand wrote, of another length, the text is garbled.
Written(old, copy) == IF old = Cut THEN {copy} ELSE {copy, Garbled}
WriteTemp(a) ==
  /\ At(a, "open")
  /\ LET d == act[a].doc IN
     /\ IF act[a].fd = "temp"
        THEN \E text \in Written(temp[d], act[a].copy) : temp' = [temp EXCEPT ![d] = text]
        ELSE UNCHANGED temp
     /\ IF act[a].fd = "file"
        THEN \E text \in Written(file[d], act[a].copy) : file' = [file EXCEPT ![d] = text]
        ELSE UNCHANGED file
  /\ Becomes(a, [act[a] EXCEPT !.pc = "replace"])
  /\ UNCHANGED <<page, tick, runs, clock, asked, crashes, past>>

\* What a thread has open after document d was replaced.
Moved(t, d) == IF t.doc = d /\ t.pc \in {"open", "replace"}
               THEN [t EXCEPT !.fd = IF @ = "temp" THEN "file" ELSE "gone"] ELSE t
\* A request is done with the save, a tick goes on with what is due.
AfterSave(a) == IF a = "ticker" THEN [Rest EXCEPT !.pc = "due"] ELSE Rest
\* A copy of a document from before a launch takes the stamp off again.
StampsLost(d, copy) == {s \in Schedules : s.doc = d /\ launched[s] # None /\
                          (s.id \in DOMAIN copy.last =>
                             copy.last[s.id] = None \/ copy.last[s.id] < launched[s])}
\* The webhooks that a user who makes this edit wants: those listed, each with the
\* secret given now or, if the field is left blank, the one it had.
AsAsked(edit, had) ==
  [u \in Urls |-> CASE edit[u] # Hidden                  -> edit[u]
                    [] edit[u] = Hidden /\ had[u] # None -> had[u]
                    [] OTHER                             -> Bare]
Replace(a) ==
  /\ At(a, "replace") /\ temp[act[a].doc] # None
  /\ LET d == act[a].doc  copy == act[a].copy IN
     /\ file' = [file EXCEPT ![d] = temp[d]]
     /\ temp' = [temp EXCEPT ![d] = None]
     /\ act' = [b \in Threads |-> IF b = a THEN AfterSave(a) ELSE Moved(act[b], d)]
     /\ IF act[a].kind = "put"
        THEN /\ newest' = [newest EXCEPT ![d] = AsAsked(act[a].edit, @)]
             /\ excused' = excused \cup StampsLost(d, copy)
             /\ page' = [page EXCEPT ![a] = None]
        ELSE UNCHANGED <<newest, excused, page>>
  /\ UNCHANGED <<tick, runs, clock, asked, crashes, launched, mixed, raced>>

Sleep == [Rest EXCEPT !.pc = "sleep"]
Forget == due' = {} /\ seen' = [d \in Docs |-> None]
\* os.replace raises: another save has taken the temporary file away.  A request
\* ends with an error, a tick ends.
ReplaceFails(a) ==
  /\ At(a, "replace") /\ temp[act[a].doc] = None
  /\ IF a = "ticker" THEN Becomes(a, Sleep) /\ Forget ELSE Becomes(a, Rest) /\ UNCHANGED tick
  /\ excused' = excused \cup Unstamped(a)
  /\ UNCHANGED <<disk, page, runs, clock, asked, crashes, newest, launched, mixed, raced>>

-----------------------------------------------------------------------------
(***************************************************************************)
(* The settings pages.                                                     *)
(***************************************************************************)
MayAsk(b) == At(b, "rest") /\ asked < MaxRequests /\ asked' = asked + 1

\* get_ecosystem, get_project.  (A page got again is one that was got later.)
Get(b, d) ==
  /\ At(b, "rest") /\ asked < MaxRequests /\ page[b] = None
  /\ page' = [page EXCEPT ![b] = [doc |-> d, text |-> Redacted(Load(d))]]
  /\ UNCHANGED <<disk, act, tick, runs, clock, asked, crashes, past>>

\* put_ecosystem, put_project: the page as the user edited it, with the secrets
\* it does not show.  The user may have removed webhooks, added some, changed
\* their URLs, and given any of them a new secret.
Put(b) ==
  /\ page[b] # None /\ MayAsk(b)
  /\ \E edit \in [Urls -> {None, Hidden, asked + 1}] :
       LET d == page[b].doc  text == [page[b].text EXCEPT !.hooks = edit] IN
       LoadsToSave(b, d, "put", Restored(text, Load(d)), edit)
  /\ UNCHANGED <<disk, page, tick, runs, clock, crashes, newest, launched, excused, raced>>

\* The document does not validate: 400.
Refuse(b) ==
  /\ At(b, "save") /\ act[b].kind = "put"
  /\ Becomes(b, Rest)
  /\ UNCHANGED <<disk, page, tick, runs, clock, asked, crashes, past>>

\* register_project saves the document it finds, with a name.
Register(b, r) ==
  /\ MayAsk(b)
  /\ LoadsToSave(b, r, "name", Load(r), None)
  /\ UNCHANGED <<disk, page, tick, runs, clock, crashes, newest, launched, excused, raced>>

-----------------------------------------------------------------------------
(***************************************************************************)
(* launch_schedule_blocking, for a request and for the ticker.             *)
(***************************************************************************)
\* run_schedule_now: the schedule is looked up by its id in the documents as they
\* are, the ecosystem's first.
RunNow(b, s) ==
  /\ MayAsk(b) /\ s.id \in DOMAIN Load(s.doc).last
  /\ s.doc # Ecosystem => s.id \notin DOMAIN Load(Ecosystem).last
  /\ Becomes(b, [Rest EXCEPT !.pc = "check", !.kind = "launch",
                                  !.doc = s.doc, !.what = s])
  /\ UNCHANGED <<disk, page, tick, runs, clock, crashes, past>>

\* Mutant: a launch starts whatever runs in the repository.
Unchecked(r) == TRUE
FreeRepo(r) == r \notin tracked
\* No run of the repository is alive.
Check(a) ==
  /\ At(a, "check")
  /\ LET s == act[a].what  r == s.target IN
     /\ FreeRepo(r)
     /\ Becomes(a, [act[a] EXCEPT !.pc = "start"])
     /\ raced' = IF \E b \in Threads \ {a} : At(b, "start") /\ act[b].what.target = r
                 THEN raced \cup {r} ELSE raced
  /\ UNCHANGED <<disk, page, tick, runs, clock, asked, crashes, newest, launched, mixed, excused>>

\* 409: a run is alive.  The factory's spec may not be usable either: 400.
TurnDown(a) ==
  /\ At(a, "check")
  /\ Becomes(a, AfterSave(a))
  /\ UNCHANGED <<disk, page, tick, runs, clock, asked, crashes, past>>

\* start_factory_thread.  The run is named after its spec and the second: it takes
\* the entry of one that another repository started in the same second.  A tick
\* that has read the documents does not see what a request launches.
JustStarted == {r \in tracked : \E t \in Schedules : t.target = r /\ launched[t] = clock}
StartRun(a) ==
  /\ At(a, "start")
  /\ LET s == act[a].what IN
     /\ alive' = [alive EXCEPT ![s.target] = @ + 1]
     /\ \E R \in SUBSET (JustStarted \ {s.target}) :
          /\ tracked' = (tracked \ R) \cup {s.target}
          /\ raced' = raced \cup R
     /\ launched' = [launched EXCEPT ![s] = clock]
     /\ excused' = IF a # "ticker" /\ act["ticker"] \notin {Rest, Sleep} THEN excused \cup {s} ELSE excused
     /\ Becomes(a, [act[a] EXCEPT !.pc = "stamp"])
  /\ UNCHANGED <<disk, page, tick, clock, asked, crashes, newest, mixed>>

\* record_schedule_run: the document that owns the schedule is loaded again and
\* stamped, unless the schedule is gone from it.
\* Mutant: the copy that the tick has read is stamped.
TickCopy(a, d) == IF a = "ticker" /\ seen[d] # None THEN seen[d] ELSE Load(d)
Owner(a, d) == Load(d)
\* Mutant: the run is recorded, its time is not.
Unmarked(doc, i) == doc
Stamped(doc, i) == [doc EXCEPT !.last[i] = clock]
Stamp(a) ==
  /\ At(a, "stamp")
  /\ LET i == act[a].what.id  d == act[a].doc  doc == Owner(a, d) IN
     IF i \in DOMAIN doc.last
     THEN LoadsToSave(a, d, "launch", Stamped(doc, i), None)
     ELSE Becomes(a, AfterSave(a)) /\ UNCHANGED mixed
  /\ UNCHANGED <<disk, page, tick, runs, clock, asked, crashes, newest, launched, excused, raced>>

-----------------------------------------------------------------------------
(***************************************************************************)
(* scheduler_tick.                                                         *)
(***************************************************************************)
\* The first tick begins with the server, the next a minute after one ended.  It
\* reads the ecosystem's document, then one project after the other.
TickRead(d) ==
  /\ seen[d] = None
  /\ IF d = Ecosystem
     THEN act["ticker"] = Rest /\ Becomes("ticker", [Rest EXCEPT !.pc = "read"])
     ELSE At("ticker", "read") /\ UNCHANGED act
  /\ seen' = [seen EXCEPT ![d] = Load(d)]
  /\ excused' = excused \cup UNION {Unstamped(a) : a \in Tabs}
  /\ UNCHANGED <<disk, page, due, runs, clock, asked, crashes, newest, launched, mixed, raced>>

\* policy.next_due: the moments after a run at which a schedule fires.  One that
\* never ran fires now, or at its next minute.
Moments(s, last) ==
  IF s.every > 0 THEN {IF last = None THEN clock ELSE last + s.every}
  ELSE {m \in s.at : IF last = None THEN m >= clock ELSE m > last}
IsDue(s, doc) == s.id \in DOMAIN doc.last /\ \E m \in Moments(s, doc.last[s.id]) : m <= clock

TickDue ==
  /\ At("ticker", "read") /\ \A d \in Docs : seen[d] # None
  /\ due' = {s \in Schedules : IsDue(s, seen[s.doc])}
  /\ Becomes("ticker", [Rest EXCEPT !.pc = "due"])
  /\ UNCHANGED <<disk, page, seen, runs, clock, asked, crashes, past>>

\* The document taken for the schedule's own: the repository's if it lists the id.
Source(s) == IF s.id \in DOMAIN seen[s.target].last THEN s.target ELSE Ecosystem
TickNext(s) ==
  /\ At("ticker", "due") /\ s \in due
  /\ (\E t \in due : t.doc = Ecosystem) => s.doc = Ecosystem
  /\ due' = due \ {s}
  /\ Becomes("ticker", [Rest EXCEPT !.pc = "check", !.kind = "launch",
                                    !.doc = Source(s), !.what = s])
  /\ UNCHANGED <<disk, page, seen, runs, clock, asked, crashes, past>>

TickEnd ==
  /\ At("ticker", "due") /\ due = {}
  /\ Becomes("ticker", Sleep) /\ Forget
  /\ UNCHANGED <<disk, page, runs, clock, asked, crashes, past>>

-----------------------------------------------------------------------------
(***************************************************************************)
(* The rest of the world.                                                  *)
(***************************************************************************)
\* Of two runs in a repository both, one or none may have an entry.
RunEnds(r) ==
  /\ alive[r] > 0 /\ alive' = [alive EXCEPT ![r] = @ - 1]
  /\ tracked' = tracked \ {r} \/ (alive[r] > 1 /\ UNCHANGED tracked)
  /\ UNCHANGED <<disk, page, act, tick, clock, asked, crashes, past>>

MinutePasses ==
  /\ clock < MaxTime /\ clock' = clock + 1
  /\ act' = [a \in Threads |-> IF act[a] = Sleep THEN Rest ELSE act[a]]
  /\ UNCHANGED <<disk, page, tick, runs, asked, crashes, past>>

\* The server dies and is started again; files and pages remain.
Crash ==
  /\ crashes < MaxCrashes /\ crashes' = crashes + 1
  /\ act' = [a \in Threads |-> Rest] /\ Forget
  /\ alive' = [r \in Repos |-> 0] /\ tracked' = {}
  /\ excused' = excused \cup UNION {Unstamped(a) : a \in Threads}
  /\ UNCHANGED <<disk, page, clock, asked, newest, launched, mixed, raced>>

Requests ==
  \E b \in Tabs :
    \/ Put(b) \/ Refuse(b)
    \/ \E d \in Shown : Get(b, d)
    \/ \E r \in Repos \cap Shown : Register(b, r)
    \/ \E s \in Schedules : RunNow(b, s)
Saves == \E a \in Threads : OpenTemp(a) \/ WriteTemp(a) \/ Replace(a) \/ ReplaceFails(a)
Launches == \E a \in Threads : Check(a) \/ TurnDown(a) \/ StartRun(a) \/ Stamp(a)
Ticker ==
  \/ TickDue \/ TickEnd
  \/ \E d \in Docs : TickRead(d)
  \/ \E s \in Schedules : TickNext(s)
World == MinutePasses \/ Crash \/ \E r \in Repos : RunEnds(r)

Next == Requests \/ Saves \/ Launches \/ Ticker \/ World
Spec == Init /\ [][Next]_vars

-----------------------------------------------------------------------------
Activities ==
  [pc : {"rest", "sleep", "read", "due", "check", "start", "stamp", "save", "open", "replace"},
   kind : {"put", "name", "launch", None}, doc : Docs \cup {None},
   what : Schedules \cup {None}, copy : Contents, edit : Edits \cup {None},
   fd : {"none", "temp", "file", "gone"}]

\* Types: files hold documents or broken text, pages show documents, every
\* thread is at a step of save, launch or tick.
TypeOK ==
  /\ file \in [Docs -> Contents \cup {Cut, Garbled}]
  /\ temp \in [Docs -> Contents \cup {Cut, Garbled, None}]
  /\ page \in [Tabs -> [doc : Docs, text : Shows] \cup {None}]
  /\ act \in [Threads -> Activities]
  /\ seen \in [Docs -> Contents \cup {None}] /\ due \subseteq Schedules
  /\ alive \in [Repos -> Nat] /\ tracked \subseteq Repos
  /\ clock \in Times /\ asked \in 0..MaxRequests /\ crashes \in 0..MaxCrashes
  /\ newest \in [Docs -> Hooks]
  /\ launched \in [Schedules -> Times \cup {None}]
  /\ mixed \subseteq Docs /\ excused \subseteq Schedules /\ raced \subseteq Repos

\* Nothing saved is lost (restore_secrets, record_schedule_run, _write_atomic):
\* unless two saves of it overlapped, a document is whole and has the webhooks
\* of the page last saved, each with the secret that a user last gave it since
\* its URL is listed, though pages do not show it, were got before it was given,
\* and stamps and crashes came in between.  (A URL that is edited is another: its
\* webhook keeps no secret.)
NothingLost ==
  \A d \in Docs \ mixed : file[d] \notin {Cut, Garbled} /\ file[d].hooks = newest[d]

Fires(s) == At("ticker", "start") /\ act["ticker"].what = s /\ act'["ticker"].pc = "stamp"
OnlyOne(s) == \A t \in Schedules : t.id = s.id => t = s

\* A schedule fires once for a moment of its own (scheduler_tick with the stamps
\* it reads): the ticker launches it only if one of its moments came since the
\* last launch, be that its own or a request's, unless the stamp was overwritten
\* or never made, or the launch came while the tick was running.
OncePerMoment ==
  [][\A s \in Schedules :
       Fires(s) /\ OnlyOne(s) /\ s \notin excused /\ s.doc \notin mixed /\ launched[s] # None
         => \E m \in Moments(s, launched[s]) : m <= clock]_vars

\* The scheduler keeps to one run in a repository (launch_schedule_blocking)
\* unless two launches passed its test at one time, or the run it should have
\* seen has lost its entry to a namesake.
OneRunPerRepo == \A r \in Repos \ raced : alive[r] <= 1
=============================================================================
