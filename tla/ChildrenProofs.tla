--------------------------- MODULE ChildrenProofs ---------------------------
(***************************************************************************)
(* Theorems about Children, for any missions, calls and interrupts: the    *)
(* registry names every child that runs, and a mission that is over leaves *)
(* nothing behind.  What a thread, an interrupt and the shutdown do to one *)
(* child at one time is an interleaving of these steps, so neither needs   *)
(* to know of the others.                                                  *)
(***************************************************************************)
EXTENDS Children, TLAPS

\* A child that its thread is through with has been waited for, or its group
\* was killed; one that somebody has on his list was registered.
CallsInv ==
  \A c \in Calls :
    /\ pc[c] = "idle" => child[c] = "none"
    /\ pc[c] \in {"leave", "done"} => child[c] \notin {"running", "zombie"}
    /\ c \in registry => pc[c] \in {"running", "kill", "wait", "leave"}
    /\ c \in recorded => pc[c] = "done"

KillersInv ==
  \A k \in Killers :
    /\ killer[k].pc # "killing" => killer[k].on = None
    /\ \A c \in killer[k].todo : pc[c] \notin {"idle", "spawned"} /\ child[c] # "none"

\* Nothing of a mission that is over is under way.
OverInv ==
  \A r \in Runs : phase[r] = "over" => \A c \in Mine(r) : pc[c] \in {"idle", "done"}

IInv == TypeOK /\ CallsInv /\ KillersInv /\ OverInv /\ LiveIsRegistered

USE ChildrenAssumption

LEMMA InitInv == Init => IInv
BY DEF Init, IInv, TypeOK, CallsInv, KillersInv, OverInv, LiveIsRegistered,
       Killing, Killers, Calls, Mine

LEMMA KeepsType == IInv /\ [Next]_vars => TypeOK'
<1> SUFFICES ASSUME IInv, [Next]_vars PROVE TypeOK'
  OBVIOUS
<1> USE DEF IInv, TypeOK, loop
<1>1. ASSUME NEW c \in Calls, CallStep(c) PROVE TypeOK'
  <2>1. CASE Spawn(c) BY <2>1 DEF Spawn, MayStart
  <2>2. CASE SpawnFails(c) BY <2>2 DEF SpawnFails, MayStart
  <2>3. CASE Register(c) BY <2>3 DEF Register
  <2>4. CASE CliReturns(c) BY <2>4 DEF CliReturns, Says
  <2>5. CASE CommandReturns(c) BY <2>5 DEF CommandReturns, Says, Dead
  <2>6. CASE ProbeReturns(c) BY <2>6 DEF ProbeReturns, Says, Dead
  <2>7. CASE TimeOut(c) BY <2>7 DEF TimeOut
  <2>8. CASE TimeOutEarly(c) BY <2>8 DEF TimeOutEarly
  <2>9. CASE Terminate(c) BY <2>9 DEF Terminate, Term, Dead
  <2>10. CASE GiveUp(c) BY <2>10 DEF GiveUp, Kill
  <2>11. CASE Leave(c) BY <2>11 DEF Leave
  <2> QED BY <1>1, <2>1, <2>2, <2>3, <2>4, <2>5, <2>6, <2>7, <2>8, <2>9, <2>10, <2>11
          DEF CallStep
<1>2. ASSUME NEW c \in Calls, Exit(c) \/ Reap(c) PROVE TypeOK'
  BY <1>2 DEF Exit, Reap, Dead
<1>3. ASSUME NEW r \in Runs, LoopStep(r) PROVE TypeOK'
  <2>1. CASE Wake(r) BY <2>1 DEF Wake
  <2>2. CASE StopSeen(r) BY <2>2 DEF StopSeen, Cancelled, Mine
  <2>3. CASE Inject(r) BY <2>3 DEF Inject, Landed, Mine, Gate
  <2>4. CASE Sleep(r) BY <2>4 DEF Sleep
  <2>5. CASE Flush(r) BY <2>5 DEF Flush, Landed, Mine, Gate
  <2> QED BY <1>3, <2>1, <2>2, <2>3, <2>4, <2>5 DEF LoopStep
<1>4. ASSUME NEW r \in Runs, Launch(r) PROVE TypeOK'
  BY <1>4 DEF Launch
<1>5. ASSUME NEW r \in Asked, Interrupt(r) PROVE TypeOK'
  BY <1>5 DEF Interrupt, Sets, Killers, Killing
<1>6. CASE StopMissions
  BY <1>6 DEF StopMissions, Sets, Killers, Killing, Lives
<1>7. ASSUME NEW k \in Killers, KillerStep(k) PROVE TypeOK'
  <2>0. killer[k] \in Killing
    OBVIOUS
  <2>1. CASE Look(k)
    <3>1. killer[k].on = None
      BY <2>1 DEF Look, KillersInv
    <3>2. killer'[k] \in Killing /\ killer'[k].on = None
      BY <2>0, <2>1, <3>1 DEF Look, Sets, Killing
    <3> QED BY <2>1, <3>2 DEF Look, Sets
  <2>2. CASE Strike(k)
    <3>1. killer'[k] \in Killing /\ killer'[k].on = None
      BY <2>0, <2>2 DEF Strike, Sets, Done, Killing
    <3> QED BY <2>2, <3>1 DEF Strike, Kill, Sets
  <2>3. ASSUME NEW c \in Calls, Aim(k, c) PROVE TypeOK'
    <3>1. /\ killer'[k] \in Killing
          /\ killer'[k].on # None => killer'[k].on \in killer'[k].todo
      <4>1. CASE child[c] = "gone"
        <5>1. killer'[k] = Done(k, c)
          BY <2>3, <4>1 DEF Aim, Sets
        <5>2. killer'[k] = [pc |-> killer[k].pc, todo |-> killer[k].todo \ {c}, on |-> None]
          BY <2>0, <5>1 DEF Done, Killing
        <5> QED BY <2>0, <5>2 DEF Killing
      <4>2. CASE child[c] # "gone"
        BY <2>0, <2>3, <4>2 DEF Aim, Sets, Killing
      <4> QED BY <4>1, <4>2
    <3> QED BY <2>3, <3>1 DEF Aim, Term, Dead, Sets
  <2> QED BY <1>7, <2>1, <2>2, <2>3 DEF KillerStep
<1>8. CASE UNCHANGED vars
  BY <1>8 DEF vars
<1> QED BY <1>1, <1>2, <1>3, <1>4, <1>5, <1>6, <1>7, <1>8 DEF Next

LEMMA KeepsCalls == IInv /\ [Next]_vars => CallsInv'
<1> SUFFICES ASSUME IInv, [Next]_vars PROVE CallsInv'
  OBVIOUS
<1> USE DEF IInv, TypeOK, loop, CallsInv, KillersInv
<1>1. ASSUME NEW c \in Calls, CallStep(c) PROVE CallsInv'
  <2>1. CASE Spawn(c) BY <2>1 DEF Spawn, MayStart, Task
  <2>2. CASE SpawnFails(c) BY <2>2 DEF SpawnFails, MayStart, Task
  <2>3. CASE Register(c) BY <2>3 DEF Register
  <2>4. CASE CliReturns(c) BY <2>4 DEF CliReturns, Says
  <2>5. CASE CommandReturns(c) BY <2>5 DEF CommandReturns, Says, Dead
  <2>6. CASE ProbeReturns(c) BY <2>6 DEF ProbeReturns, Says, Dead
  <2>7. CASE TimeOut(c) BY <2>7 DEF TimeOut
  <2>8. CASE TimeOutEarly(c) BY <2>8 DEF TimeOutEarly
  <2>9. CASE Terminate(c) BY <2>9 DEF Terminate, Term, Dead
  <2>10. CASE GiveUp(c) BY <2>10 DEF GiveUp, Kill
  <2>11. CASE Leave(c) BY <2>11 DEF Leave
  <2> QED BY <1>1, <2>1, <2>2, <2>3, <2>4, <2>5, <2>6, <2>7, <2>8, <2>9, <2>10, <2>11
          DEF CallStep
<1>2. ASSUME NEW c \in Calls, Exit(c) \/ Reap(c) PROVE CallsInv'
  BY <1>2 DEF Exit, Reap, Dead
<1>3. ASSUME NEW r \in Runs, LoopStep(r) PROVE CallsInv'
  <2>1. CASE Wake(r) BY <2>1 DEF Wake
  <2>2. CASE StopSeen(r) BY <2>2 DEF StopSeen, Cancelled, Mine, Open
  <2>3. CASE Inject(r) BY <2>3 DEF Inject, Landed, Mine, Gate
  <2>4. CASE Sleep(r) BY <2>4 DEF Sleep
  <2>5. CASE Flush(r) BY <2>5 DEF Flush, Landed, Mine, Gate
  <2> QED BY <1>3, <2>1, <2>2, <2>3, <2>4, <2>5 DEF LoopStep
<1>4. ASSUME NEW r \in Runs, Launch(r) PROVE CallsInv'
  BY <1>4 DEF Launch
<1>5. ASSUME NEW r \in Asked, Interrupt(r) PROVE CallsInv'
  BY <1>5 DEF Interrupt, Sets, Killers
<1>6. CASE StopMissions
  BY <1>6 DEF StopMissions, Sets, Killers
<1>7. ASSUME NEW k \in Killers, KillerStep(k) PROVE CallsInv'
  <2>1. CASE Look(k) BY <2>1 DEF Look, Sets
  <2>2. CASE Strike(k) BY <2>2 DEF Strike, Kill, Sets
  <2>3. ASSUME NEW c \in Calls, Aim(k, c) PROVE CallsInv'
    BY <2>3 DEF Aim, Term, Dead, Sets
  <2> QED BY <1>7, <2>1, <2>2, <2>3 DEF KillerStep
<1>8. CASE UNCHANGED vars
  BY <1>8 DEF vars
<1> QED BY <1>1, <1>2, <1>3, <1>4, <1>5, <1>6, <1>7, <1>8 DEF Next

LEMMA KeepsKillers == IInv /\ [Next]_vars => KillersInv'
<1> SUFFICES ASSUME IInv, [Next]_vars PROVE KillersInv'
  OBVIOUS
<1> USE DEF IInv, TypeOK, loop, CallsInv, KillersInv
<1>0. ASSUME UNCHANGED killer,
              \A d \in Calls : pc[d] \notin {"idle", "spawned"} => pc'[d] \notin {"idle", "spawned"},
              \A d \in Calls : child[d] # "none" => child'[d] # "none"
      PROVE  KillersInv'
  <2>1. ASSUME NEW k \in Killers, NEW c \in killer[k].todo
        PROVE  pc'[c] \notin {"idle", "spawned"} /\ child'[c] # "none"
    <3>1. c \in Calls
      BY DEF Killing
    <3>2. pc[c] \notin {"idle", "spawned"} /\ child[c] # "none"
      OBVIOUS
    <3> QED BY <1>0, <3>1, <3>2
  <2> QED BY <1>0, <2>1
<1>1. ASSUME NEW c \in Calls, CallStep(c) PROVE KillersInv'
  <2>1. CASE Spawn(c) BY <2>1 DEF Spawn, MayStart
  <2>2. CASE SpawnFails(c) BY <2>2 DEF SpawnFails, MayStart
  <2>3. CASE Register(c) BY <2>3 DEF Register
  <2>4. CASE CliReturns(c) BY <2>4 DEF CliReturns, Says
  <2>5. CASE CommandReturns(c) BY <2>5 DEF CommandReturns, Says, Dead
  <2>6. CASE ProbeReturns(c)
    <3>1. \A d \in Calls : child[d] # "none" => child'[d] # "none"
      BY <2>6 DEF ProbeReturns, Dead
    <3> QED BY <1>0, <2>6, <3>1 DEF ProbeReturns, Says
  <2>7. CASE TimeOut(c) BY <2>7 DEF TimeOut
  <2>8. CASE TimeOutEarly(c) BY <2>8 DEF TimeOutEarly
  <2>9. CASE Terminate(c) BY <1>0, <2>9 DEF Terminate, Term, Dead
  <2>10. CASE GiveUp(c) BY <2>10 DEF GiveUp, Kill
  <2>11. CASE Leave(c) BY <2>11 DEF Leave
  <2> QED BY <1>1, <2>1, <2>2, <2>3, <2>4, <2>5, <2>6, <2>7, <2>8, <2>9, <2>10, <2>11
          DEF CallStep
<1>2. ASSUME NEW c \in Calls, Exit(c) \/ Reap(c) PROVE KillersInv'
  BY <1>0, <1>2 DEF Exit, Reap, Dead
<1>3. ASSUME NEW r \in Runs, LoopStep(r) PROVE KillersInv'
  <2>1. CASE Wake(r) BY <2>1 DEF Wake
  <2>2. CASE StopSeen(r) BY <1>0, <2>2 DEF StopSeen, Cancelled, Mine, Open
  <2>3. CASE Inject(r) BY <2>3 DEF Inject, Landed, Mine, Gate
  <2>4. CASE Sleep(r) BY <2>4 DEF Sleep
  <2>5. CASE Flush(r) BY <2>5 DEF Flush, Landed, Mine, Gate
  <2> QED BY <1>3, <2>1, <2>2, <2>3, <2>4, <2>5 DEF LoopStep
<1>4. ASSUME NEW r \in Runs, Launch(r) PROVE KillersInv'
  BY <1>4 DEF Launch
<1>5. ASSUME NEW r \in Asked, Interrupt(r) PROVE KillersInv'
  BY <1>5 DEF Interrupt, Sets, Killers
<1>6. CASE StopMissions
  BY <1>6 DEF StopMissions, Sets, Killers
<1>7. ASSUME NEW k \in Killers, KillerStep(k) PROVE KillersInv'
  <2>0. killer[k] \in Killing
    OBVIOUS
  <2>1. CASE Look(k) BY <2>1 DEF Look, Sets
  <2>2. CASE Strike(k)
    <3>1. killer'[k] = [pc |-> killer[k].pc, todo |-> killer[k].todo \ {killer[k].on}, on |-> None]
      <4>1. killer'[k] = Done(k, killer[k].on)
        BY <2>2 DEF Strike, Sets
      <4> QED BY <2>0, <4>1 DEF Done, Killing
    <3>2. \A d \in Calls : child[d] # "none" => child'[d] # "none"
      BY <2>2 DEF Strike, Kill
    <3>3. \A j \in Killers : killer'[j].todo \subseteq killer[j].todo /\ killer[j].todo \subseteq Calls
      BY <2>2, <3>1 DEF Strike, Sets, Killing
    <3>4. \A j \in Killers : killer'[j].pc # "killing" => killer'[j].on = None
      BY <2>2, <3>1 DEF Strike, Sets
    <3>5. UNCHANGED pc
      BY <2>2 DEF Strike
    <3> QED BY <3>2, <3>3, <3>4, <3>5
  <2>3. ASSUME NEW c \in Calls, Aim(k, c) PROVE KillersInv'
    <3>1. \A d \in Calls : child[d] # "none" => child'[d] # "none"
      BY <2>3 DEF Aim, Term, Dead
    <3>2. /\ killer'[k].todo \subseteq killer[k].todo /\ killer[k].todo \subseteq Calls
          /\ killer'[k].pc = "killing"
      <4>1. killer'[k] \in {Done(k, c), [killer[k] EXCEPT !.on = c]}
        BY <2>3 DEF Aim, Sets
      <4>2. CASE killer'[k] = Done(k, c)
        BY <2>0, <2>3, <4>2 DEF Aim, Done, Killing
      <4>3. CASE killer'[k] = [killer[k] EXCEPT !.on = c]
        BY <2>0, <2>3, <4>3 DEF Aim, Killing
      <4> QED BY <4>1, <4>2, <4>3
    <3>3. \A j \in Killers : j # k => killer'[j] = killer[j]
      BY <2>3 DEF Aim, Sets
    <3>4. \A j \in Killers : killer'[j].todo \subseteq killer[j].todo /\ killer[j].todo \subseteq Calls
      BY <3>2, <3>3 DEF Killing
    <3>5. \A j \in Killers : killer'[j].pc # "killing" => killer'[j].on = None
      BY <3>2, <3>3
    <3>6. UNCHANGED pc
      BY <2>3 DEF Aim
    <3> QED BY <3>1, <3>4, <3>5, <3>6
  <2> QED BY <1>7, <2>1, <2>2, <2>3 DEF KillerStep
<1>8. CASE UNCHANGED vars
  BY <1>8 DEF vars
<1> QED BY <1>1, <1>2, <1>3, <1>4, <1>5, <1>6, <1>7, <1>8 DEF Next

LEMMA KeepsOver == IInv /\ [Next]_vars => OverInv'
<1> SUFFICES ASSUME IInv, [Next]_vars PROVE OverInv'
  OBVIOUS
<1> USE DEF IInv, TypeOK, loop, CallsInv, OverInv
<1>1. ASSUME NEW c \in Calls, CallStep(c) PROVE OverInv'
  <2>1. CASE Spawn(c) BY <2>1 DEF Spawn, MayStart, Task, Mine
  <2>2. CASE SpawnFails(c) BY <2>2 DEF SpawnFails, MayStart, Task, Mine
  <2>3. CASE Register(c) BY <2>3 DEF Register
  <2>4. CASE CliReturns(c) BY <2>4 DEF CliReturns, Says
  <2>5. CASE CommandReturns(c) BY <2>5 DEF CommandReturns, Says, Dead
  <2>6. CASE ProbeReturns(c) BY <2>6 DEF ProbeReturns, Says, Dead
  <2>7. CASE TimeOut(c) BY <2>7 DEF TimeOut
  <2>8. CASE TimeOutEarly(c) BY <2>8 DEF TimeOutEarly
  <2>9. CASE Terminate(c) BY <2>9 DEF Terminate, Term, Dead
  <2>10. CASE GiveUp(c) BY <2>10 DEF GiveUp, Kill
  <2>11. CASE Leave(c) BY <2>11 DEF Leave
  <2> QED BY <1>1, <2>1, <2>2, <2>3, <2>4, <2>5, <2>6, <2>7, <2>8, <2>9, <2>10, <2>11
          DEF CallStep
<1>2. ASSUME NEW c \in Calls, Exit(c) \/ Reap(c) PROVE OverInv'
  BY <1>2 DEF Exit, Reap, Dead
<1>3. ASSUME NEW r \in Runs, LoopStep(r) PROVE OverInv'
  <2>1. CASE Wake(r) BY <2>1 DEF Wake
  <2>2. CASE StopSeen(r) BY <2>2 DEF StopSeen, Cancelled, Mine, Open
  <2>3. CASE Inject(r) BY <2>3 DEF Inject, Landed, Mine, Gate
  <2>4. CASE Sleep(r) BY <2>4 DEF Sleep
  <2>5. CASE Flush(r) BY <2>5 DEF Flush, Landed, Mine, Gate
  <2> QED BY <1>3, <2>1, <2>2, <2>3, <2>4, <2>5 DEF LoopStep
<1>4. ASSUME NEW r \in Runs, Launch(r) PROVE OverInv'
  BY <1>4 DEF Launch
<1>5. ASSUME NEW r \in Asked, Interrupt(r) PROVE OverInv'
  BY <1>5 DEF Interrupt, Sets, Killers
<1>6. CASE StopMissions
  BY <1>6 DEF StopMissions, Sets, Killers
<1>7. ASSUME NEW k \in Killers, KillerStep(k) PROVE OverInv'
  <2>1. CASE Look(k) BY <2>1 DEF Look, Sets
  <2>2. CASE Strike(k) BY <2>2 DEF Strike, Kill, Sets
  <2>3. ASSUME NEW c \in Calls, Aim(k, c) PROVE OverInv'
    BY <2>3 DEF Aim, Term, Dead, Sets
  <2> QED BY <1>7, <2>1, <2>2, <2>3 DEF KillerStep
<1>8. CASE UNCHANGED vars
  BY <1>8 DEF vars
<1> QED BY <1>1, <1>2, <1>3, <1>4, <1>5, <1>6, <1>7, <1>8 DEF Next

LEMMA KeepsLive == IInv /\ [Next]_vars => LiveIsRegistered'
<1> SUFFICES ASSUME IInv, [Next]_vars PROVE LiveIsRegistered'
  OBVIOUS
<1> USE DEF IInv, TypeOK, loop, CallsInv, LiveIsRegistered
<1>1. ASSUME NEW c \in Calls, CallStep(c) PROVE LiveIsRegistered'
  <2>1. CASE Spawn(c) BY <2>1 DEF Spawn, MayStart
  <2>2. CASE SpawnFails(c) BY <2>2 DEF SpawnFails, MayStart
  <2>3. CASE Register(c) BY <2>3 DEF Register
  <2>4. CASE CliReturns(c) BY <2>4 DEF CliReturns, Says
  <2>5. CASE CommandReturns(c) BY <2>5 DEF CommandReturns, Says, Dead
  <2>6. CASE ProbeReturns(c) BY <2>6 DEF ProbeReturns, Says, Dead
  <2>7. CASE TimeOut(c) BY <2>7 DEF TimeOut
  <2>8. CASE TimeOutEarly(c) BY <2>8 DEF TimeOutEarly
  <2>9. CASE Terminate(c) BY <2>9 DEF Terminate, Term, Dead
  <2>10. CASE GiveUp(c) BY <2>10 DEF GiveUp, Kill
  <2>11. CASE Leave(c) BY <2>11 DEF Leave
  <2> QED BY <1>1, <2>1, <2>2, <2>3, <2>4, <2>5, <2>6, <2>7, <2>8, <2>9, <2>10, <2>11
          DEF CallStep
<1>2. ASSUME NEW c \in Calls, Exit(c) \/ Reap(c) PROVE LiveIsRegistered'
  BY <1>2 DEF Exit, Reap, Dead
<1>3. ASSUME NEW r \in Runs, LoopStep(r) PROVE LiveIsRegistered'
  <2>1. CASE Wake(r) BY <2>1 DEF Wake
  <2>2. CASE StopSeen(r) BY <2>2 DEF StopSeen, Cancelled, Mine, Open
  <2>3. CASE Inject(r) BY <2>3 DEF Inject, Landed, Mine, Gate
  <2>4. CASE Sleep(r) BY <2>4 DEF Sleep
  <2>5. CASE Flush(r) BY <2>5 DEF Flush, Landed, Mine, Gate
  <2> QED BY <1>3, <2>1, <2>2, <2>3, <2>4, <2>5 DEF LoopStep
<1>4. ASSUME NEW r \in Runs, Launch(r) PROVE LiveIsRegistered'
  BY <1>4 DEF Launch
<1>5. ASSUME NEW r \in Asked, Interrupt(r) PROVE LiveIsRegistered'
  BY <1>5 DEF Interrupt, Sets, Killers
<1>6. CASE StopMissions
  BY <1>6 DEF StopMissions, Sets, Killers
<1>7. ASSUME NEW k \in Killers, KillerStep(k) PROVE LiveIsRegistered'
  <2>1. CASE Look(k) BY <2>1 DEF Look, Sets
  <2>2. CASE Strike(k) BY <2>2 DEF Strike, Kill, Sets
  <2>3. ASSUME NEW c \in Calls, Aim(k, c) PROVE LiveIsRegistered'
    BY <2>3 DEF Aim, Term, Dead, Sets
  <2> QED BY <1>7, <2>1, <2>2, <2>3 DEF KillerStep
<1>8. CASE UNCHANGED vars
  BY <1>8 DEF vars
<1> QED BY <1>1, <1>2, <1>3, <1>4, <1>5, <1>6, <1>7, <1>8 DEF Next

THEOREM Invariance == Spec => []IInv
<1>1. IInv /\ [Next]_vars => IInv'
  BY KeepsType, KeepsCalls, KeepsKillers, KeepsOver, KeepsLive DEF IInv
<1> QED BY InitInv, <1>1, PTL DEF Spec

\* The variables keep their types.
THEOREM TypeCorrect == Spec => []TypeOK
BY Invariance, PTL DEF IInv

\* procs.py: interrupt and shutdown find in the registry every child that
\* runs, but for those that are being spawned.
THEOREM RegistryIsComplete == Spec => []LiveIsRegistered
BY Invariance, PTL DEF IInv

\* A mission that is over leaves no child, no group that was not killed or
\* waited for, and nothing in the registry.
THEOREM NothingLeft == Spec => []OverLeavesNothing
<1>1. IInv => OverLeavesNothing
  BY DEF IInv, TypeOK, CallsInv, OverInv, OverLeavesNothing, Mine
<1> QED BY Invariance, <1>1, PTL
=============================================================================
