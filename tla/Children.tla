------------------------------ MODULE Children ------------------------------
(***************************************************************************)
(* The child processes of missions (agentgraph/procs.py) and everyone who  *)
(* starts or ends them: command-line workers (CliWorker of dispatcher.py)  *)
(* and gate checks (gates.py) in the mission's thread, the interrupt       *)
(* handler and the shutdown of the server (app.py) in threads of their     *)
(* own.  The kernel is modelled as on Linux: a child leads a group of its  *)
(* own with whatever it forks, stays a zombie until its parent waits for   *)
(* it, and may ignore SIGTERM.  Pids are not given away again.  What the   *)
(* kernel does for children whose parent is gone (PR_SET_PDEATHSIG) is the *)
(* code's last resort and left out: the properties are about its own work. *)
(*                                                                         *)
(* Of a mission's loop only what starts and ends calls is left: AgentHost  *)
(* has the rest.  Agents that are not command-line programs have no child  *)
(* in the registry and are left out.                                       *)
(***************************************************************************)
EXTENDS Naturals, FiniteSets

CONSTANTS
  Runs,     \* the missions, a thread each
  Cli,      \* calls of command-line workers
  Checks,   \* the checks of gates
  Probes,   \* those of them that start a server and ask it for routes
  Of,       \* the mission of a call or a check
  Earlier,  \* the checks a gate runs before this one
  Width,    \* the slots of a mission's semaphore
  Asked,    \* the missions someone asks to interrupt, once
  Sweep,    \* the shutdown, as someone who ends children
  None      \* no child

Calls == Cli \cup Checks
Killers == Asked \cup {Sweep}

ASSUME ChildrenAssumption ==
  /\ Cli \cap Checks = {} /\ Probes \subseteq Checks
  /\ Of \in [Calls -> Runs]
  /\ Earlier \in [Checks -> SUBSET Checks]
  /\ Width \in Nat \ {0} /\ Asked \subseteq Runs
  /\ Sweep \notin Runs /\ None \notin Calls

VARIABLES
  phase,     \* where the loop of a mission is
  stop,      \* its stop_event
  pc,        \* where a call is
  answered,  \* the calls that have an answer or an error to give
  recorded,  \* the calls whose answer is in the log
  child,     \* the process of a call, and the group it leads
  registry,  \* procs._registry, by the call that a pid belongs to
  killer,    \* terminate_run and sweep_all
  cut        \* history: calls that an interrupt found at work and ended

loop == <<phase, stop, recorded>>
vars == <<phase, stop, pc, answered, recorded, child, registry, killer, cut>>

Mine(r) == {c \in Calls : Of[c] = r}
Lives(r) == phase[r] \notin {"idle", "over"}

Init ==
  /\ phase = [r \in Runs |-> "idle"] /\ stop = [r \in Runs |-> FALSE]
  /\ pc = [c \in Calls |-> "idle"]
  /\ child = [c \in Calls |-> "none"]
  /\ answered = {} /\ recorded = {} /\ registry = {} /\ cut = {}
  /\ killer = [k \in Killers |-> [pc |-> "idle", todo |-> {}, on |-> None]]

-----------------------------------------------------------------------------
(***************************************************************************)
(* The kernel.  A child that is a zombie may have left others in its       *)
(* group; none once the group is killed.                                   *)
(***************************************************************************)
Dead(c) == child[c] \in {"zombie", "killed"}

Exit(c) ==
  /\ child[c] = "running" /\ child' = [child EXCEPT ![c] = "zombie"]
  /\ UNCHANGED <<loop, pc, answered, registry, killer, cut>>

\* terminate_tree asks the group to end, which each of it may do or not ...
Term(c) == \E state \in {child[c], IF Dead(c) THEN child[c] ELSE "zombie"} :
             child' = [child EXCEPT ![c] = state]

\* Mutant: a request is all there is.
AskedOnly(c) == UNCHANGED child
\* ... and, if the child has not been waited for by the deadline, kills it.
Kill(c) == child' = [child EXCEPT ![c] = IF child[c] = "gone" THEN "gone" ELSE "killed"]

-----------------------------------------------------------------------------
(***************************************************************************)
(* A call, in its mission's thread.                                        *)
(***************************************************************************)
\* The thread does nothing else while it ends a child, and in a gate's check.
Blocked(r) ==
  \E c \in Mine(r) :
    \/ pc[c] \in {"kill", "wait", "leave"}
    \/ c \in Checks /\ pc[c] \in {"spawned", "running"}

Task(c) == phase[Of[c]] = "sleep" /\ ~Blocked(Of[c])
Open(c) == pc[c] \in {"spawned", "running"}

MayStart(c) ==
  /\ Task(c) /\ pc[c] = "idle"
  /\ c \in Cli => Cardinality({d \in Mine(Of[c]) \cap Cli : Open(d)}) < Width
  /\ c \in Checks => /\ Mine(Of[c]) \cap Cli \subseteq recorded
                     /\ \A d \in Earlier[c] : pc[d] = "done"

Spawn(c) ==
  /\ MayStart(c)
  /\ pc' = [pc EXCEPT ![c] = "spawned"]
  /\ child' = [child EXCEPT ![c] = "running"]
  /\ UNCHANGED <<loop, answered, registry, killer, cut>>

SpawnFails(c) ==
  /\ MayStart(c)
  /\ pc' = [pc EXCEPT ![c] = "done"] /\ answered' = answered \cup {c}
  /\ UNCHANGED <<loop, child, registry, killer, cut>>

\* procs.register, of a tracked_process, a probe or a worker; the spawn of a
\* worker is awaited.
Register(c) ==
  /\ pc[c] = "spawned" /\ pc' = [pc EXCEPT ![c] = "running"]
  /\ c \in Cli => Task(c)
  /\ registry' = registry \cup {c}
  /\ UNCHANGED <<loop, answered, child, killer, cut>>

\* asyncio waits for the children of workers on its own.
Reap(c) ==
  /\ c \in Cli /\ Dead(c) /\ child' = [child EXCEPT ![c] = "gone"]
  /\ UNCHANGED <<loop, pc, answered, registry, killer, cut>>

Says(c, next) ==
  /\ answered' = answered \cup {c}
  /\ pc' = [pc EXCEPT ![c] = next]
  /\ UNCHANGED <<loop, registry, killer, cut>>

\* communicate returns with an exit code: there is nothing left to end.
CliReturns(c) ==
  /\ c \in Cli /\ pc[c] = "running" /\ Task(c) /\ child[c] = "gone"
  /\ Says(c, "leave") /\ UNCHANGED child

CommandReturns(c) ==
  /\ c \in Checks \ Probes /\ pc[c] = "running" /\ Dead(c)
  /\ child' = [child EXCEPT ![c] = "gone"]
  /\ Says(c, "leave")

\* A probe has asked its routes, or its server was not ready by the deadline;
\* its server is ended in any case.  One that was found dead is waited for.
ProbeReturns(c) ==
  /\ c \in Probes /\ pc[c] = "running"
  /\ child' \in {child} \cup (IF Dead(c) THEN {[child EXCEPT ![c] = "gone"]} ELSE {})
  /\ Says(c, "kill")

\* asyncio.wait_for cancels a worker, communicate raises TimeoutExpired.  (The
\* gate ends its child twice then, the second time one that is dead.)
TimeOut(c) ==
  /\ pc[c] = "running" /\ c \notin Probes /\ (c \in Cli => Task(c))
  /\ pc' = [pc EXCEPT ![c] = "kill"] /\ answered' = answered \cup {c}
  /\ UNCHANGED <<loop, child, registry, killer, cut>>

\* A worker whose spawn is still awaited has no process to end: asyncio kills
\* and waits for the child, and for that alone.
TimeOutEarly(c) ==
  /\ c \in Cli /\ pc[c] = "spawned" /\ Task(c)
  /\ pc' = [pc EXCEPT ![c] = "done"] /\ answered' = answered \cup {c}
  /\ child' = [child EXCEPT ![c] = "gone"]
  /\ UNCHANGED <<loop, registry, killer, cut>>

Terminate(c) ==
  /\ pc[c] = "kill"
  /\ IF child[c] = "gone" THEN UNCHANGED child ELSE Term(c)
  /\ pc' = [pc EXCEPT ![c] = IF child[c] = "gone" THEN "leave" ELSE "wait"]
  /\ UNCHANGED <<loop, answered, registry, killer, cut>>

\* Mutant: terminate_tree waits for as long as the child is there.
WaitsForIt(c) ==
  /\ pc[c] = "wait" /\ child[c] = "gone"
  /\ pc' = [pc EXCEPT ![c] = "leave"]
  /\ UNCHANGED <<loop, answered, child, registry, killer, cut>>

GiveUp(c) ==
  /\ pc[c] = "wait" /\ Kill(c)
  /\ pc' = [pc EXCEPT ![c] = "leave"]
  /\ UNCHANGED <<loop, answered, registry, killer, cut>>

\* procs.unregister.
Leave(c) ==
  /\ pc[c] = "leave" /\ pc' = [pc EXCEPT ![c] = "done"]
  /\ registry' = registry \ {c}
  /\ UNCHANGED <<loop, answered, child, killer, cut>>

-----------------------------------------------------------------------------
(***************************************************************************)
(* The loop of a mission's thread.  A gate is one call, whose answer is    *)
(* there when all its checks are done.                                     *)
(***************************************************************************)
Gate(r) == Mine(r) \cap Checks
Landed(r) ==
  {{c} : c \in {d \in (Mine(r) \cap Cli) \ recorded : pc[d] = "done" /\ d \in answered}}
    \cup {g \in {Gate(r)} : g # {} /\ ~(g \subseteq recorded) /\ \A c \in g : pc[c] = "done"}

Launch(r) ==
  /\ phase[r] = "idle" /\ phase' = [phase EXCEPT ![r] = "turn"]
  /\ UNCHANGED <<stop, recorded, pc, answered, child, registry, killer, cut>>

Wake(r) ==
  /\ phase[r] = "sleep" /\ ~Blocked(r) /\ Landed(r) # {}
  /\ phase' = [phase EXCEPT ![r] = "turn"]
  /\ UNCHANGED <<stop, recorded, pc, answered, child, registry, killer, cut>>

\* Mutant: a cancelled worker does not end its child, as before the finally.
Abandoned(c) == "done"
Cancelled(c) == "kill"

\* The flag is tested at every turn; seen, it cancels the tasks that run.
StopSeen(r) ==
  /\ phase[r] = "turn" /\ stop[r]
  /\ phase' = [phase EXCEPT ![r] = "flush"]
  /\ pc' = [c \in Calls |-> IF c \notin Mine(r) \/ ~Open(c) THEN pc[c]
                            ELSE IF pc[c] = "running" THEN Cancelled(c) ELSE "done"]
  /\ child' = [c \in Calls |-> IF c \in Mine(r) /\ pc[c] = "spawned" THEN "gone" ELSE child[c]]
  /\ UNCHANGED <<stop, recorded, answered, registry, killer, cut>>

Inject(r) ==
  /\ phase[r] = "turn" /\ ~stop[r]
  /\ \E call \in Landed(r) : recorded' = recorded \cup call
  /\ UNCHANGED <<phase, stop, pc, answered, child, registry, killer, cut>>

\* Nothing to inject: the loop waits for a task, or is idle.
Sleep(r) ==
  /\ phase[r] = "turn" /\ ~stop[r] /\ Landed(r) = {}
  /\ phase' = [phase EXCEPT ![r] = IF Mine(r) \subseteq recorded THEN "over" ELSE "sleep"]
  /\ UNCHANGED <<stop, recorded, pc, answered, child, registry, killer, cut>>

\* The cancelled tasks are gathered, what has landed is recorded.
Flush(r) ==
  /\ phase[r] = "flush" /\ \A c \in Mine(r) : pc[c] \in {"idle", "done"}
  /\ phase' = [phase EXCEPT ![r] = "over"]
  /\ recorded' = recorded \cup UNION Landed(r)
  /\ UNCHANGED <<stop, pc, answered, child, registry, killer, cut>>

-----------------------------------------------------------------------------
(***************************************************************************)
(* Those who end the children of others.                                   *)
(***************************************************************************)
Sets(k, state) == killer' = [killer EXCEPT ![k] = state]

\* interrupt_mission sets the flag of a live thread ...
Interrupt(r) ==
  /\ Lives(r) /\ killer[r].pc = "idle"
  /\ stop' = [stop EXCEPT ![r] = TRUE]
  /\ Sets(r, [killer[r] EXCEPT !.pc = "asked"])
  /\ UNCHANGED <<phase, recorded, pc, answered, child, registry, cut>>

\* ... and stop_missions the flags of all; it joins the threads for a while.
StopMissions ==
  /\ killer[Sweep].pc = "idle"
  /\ stop' = [r \in Runs |-> stop[r] \/ Lives(r)]
  /\ Sets(Sweep, [killer[Sweep] EXCEPT !.pc = "asked"])
  /\ UNCHANGED <<phase, recorded, pc, answered, child, registry, cut>>

\* terminate_run and sweep_all work on a copy of the registry.
Look(k) ==
  /\ killer[k].pc = "asked"
  /\ Sets(k, [killer[k] EXCEPT !.pc = "killing",
                !.todo = IF k = Sweep THEN registry ELSE registry \cap Mine(k)])
  /\ UNCHANGED <<loop, pc, answered, child, registry, cut>>

\* Mutant: it never lowers its arm.
KeepsAiming(k, c) == [killer[k] EXCEPT !.todo = @ \ {c}]
Done(k, c) == [killer[k] EXCEPT !.todo = @ \ {c}, !.on = None]

Aim(k, c) ==
  /\ killer[k].pc = "killing" /\ killer[k].on = None /\ c \in killer[k].todo
  /\ IF child[c] = "gone"
     THEN /\ UNCHANGED <<child, cut>>
          /\ Sets(k, Done(k, c)) /\ registry' = registry \ {c}
     ELSE /\ Term(c)
          /\ cut' = cut \cup (IF k # Sweep /\ child[c] = "running" /\ pc[c] = "running"
                              THEN {c} ELSE {})
          /\ Sets(k, [killer[k] EXCEPT !.on = c]) /\ UNCHANGED registry
  /\ UNCHANGED <<loop, pc, answered>>

Strike(k) ==
  /\ killer[k].on # None
  /\ Kill(killer[k].on)
  /\ Sets(k, Done(k, killer[k].on)) /\ registry' = registry \ {killer[k].on}
  /\ UNCHANGED <<loop, pc, answered, cut>>

-----------------------------------------------------------------------------
CallStep(c) ==
  \/ Spawn(c) \/ SpawnFails(c) \/ Register(c)
  \/ CliReturns(c) \/ CommandReturns(c) \/ ProbeReturns(c)
  \/ TimeOut(c) \/ TimeOutEarly(c)
  \/ Terminate(c) \/ GiveUp(c) \/ Leave(c)
LoopStep(r) == Wake(r) \/ StopSeen(r) \/ Inject(r) \/ Sleep(r) \/ Flush(r)
KillerStep(k) == Look(k) \/ Strike(k) \/ \E c \in Calls : Aim(k, c)

Next ==
  \/ \E c \in Calls : CallStep(c) \/ Exit(c) \/ Reap(c)
  \/ \E r \in Runs : LoopStep(r) \/ Launch(r)
  \/ \E r \in Asked : Interrupt(r)
  \/ StopMissions
  \/ \E k \in Killers : KillerStep(k)

\* Threads run, and every wait has a deadline: of a call, of a gate's check,
\* of terminate_tree.  A child need not end by itself, nor anyone interrupt.
Fairness ==
  /\ \A c \in Calls : WF_vars(CallStep(c))
  /\ \A r \in Runs : WF_vars(LoopStep(r))
  /\ \A k \in Killers : WF_vars(KillerStep(k))

Spec == Init /\ [][Next]_vars /\ Fairness

-----------------------------------------------------------------------------
(***************************************************************************)
(* Properties.                                                             *)
(***************************************************************************)
Killing == [pc : {"idle", "asked", "killing"}, todo : SUBSET Calls, on : Calls \cup {None}]

\* Every variable has its type; a call that has begun has a process, unless it
\* could not be spawned; who ends a child has it on the list.
TypeOK ==
  /\ phase \in [Runs -> {"idle", "turn", "sleep", "flush", "over"}]
  /\ stop \in [Runs -> BOOLEAN]
  /\ pc \in [Calls -> {"idle", "spawned", "running", "kill", "wait", "leave", "done"}]
  /\ child \in [Calls -> {"none", "running", "zombie", "killed", "gone"}]
  /\ killer \in [Killers -> Killing]
  /\ \A c \in Calls : child[c] = "none" => pc[c] \in {"idle", "done"}
  /\ \A k \in Killers : killer[k].on # None => killer[k].on \in killer[k].todo
  /\ answered \in SUBSET Calls /\ recorded \in SUBSET Calls
  /\ registry \in SUBSET Calls /\ cut \in SUBSET Calls

\* procs.py, "a registry of live children": whoever looks into the registry
\* finds every child that runs, but for one that its thread has just spawned;
\* in particular nobody forgets a pid that is still alive.
LiveIsRegistered ==
  \A c \in Calls : child[c] = "running" => c \in registry \/ pc[c] = "spawned"

\* However a mission ends, no child of it runs on, none is remembered, and the
\* group of each has been killed, unless the child was waited for before that.
OverLeavesNothing ==
  \A r \in Runs : phase[r] = "over" =>
    \A c \in Mine(r) :
      /\ child[c] \notin {"running", "zombie"} /\ c \notin registry

\* Every mission ends, and every interrupt and the shutdown are through with
\* what they found, though no child ever ends by itself.
Settled ==
  /\ \A r \in Runs : phase[r] \in {"idle", "over"}
  /\ \A k \in Killers : killer[k].pc # "asked" /\ killer[k].todo = {}
EverythingEnds == []<>Settled

\* dispatcher.py, on a resume: "Work that completed is served free; work that
\* did not runs live."  A call that an interrupt found at work and ended
\* did not complete: the log holds no answer to it.
CutIsNotAnswered == cut \cap recorded = {}

=============================================================================
