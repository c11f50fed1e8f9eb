----------------------- MODULE ProcessSupervisorProofs -----------------------
(***************************************************************************)
(* Proofs about the supervisor of background processes, for every number of   *)
(* callers, processes and children: a terminated process is reported as such, *)
(* an answer that all has ended is true, and no signal reaches the id of a    *)
(* child that was reaped while the supervisor is shut down at most once.      *)
(***************************************************************************)
EXTENDS ProcessSupervisor, Integers, FiniteSetTheorems, TLAPS

-----------------------------------------------------------------------------
(* Types *)

\* A caller with a spawned child that is not listed yet; one that stops listed
\* processes and waits for them; a supervising task past the wait for its child.
Starting == {"register", "recheck", "insert", "abort", "abort_wait"}
Stopping == {"terminate", "session", "close"}
Over == {"release", "scan", "done"}
Ending == {"publish"} \cup Over \cup DOMAIN Reasons

LaunchTypes ==
    /\ child \in [Launches -> {"none", "running", "dying", "zombie", "reaped"}]
    /\ pid \in [Launches -> BOOLEAN] /\ reaped \in [Launches -> BOOLEAN]
    /\ lifecycle \in [Launches -> Callers \cup {NoOne}]
    /\ active \subseteq Launches
    /\ operation \in [Launches -> Launches \cup {NoOne}]
    /\ intent \in [Launches -> DOMAIN Reasons]
    /\ control \subseteq Launches /\ cancelled \subseteq Launches /\ timedOut \subseteq Launches
    /\ state \in [Launches -> {"none", "Running", "Exited"} \cup DOMAIN Reasons]
    /\ scanned \subseteq Launches
    /\ sup \in [Launches -> {"idle", "select", "wait"} \cup Ending]
    /\ wait \in [Launches -> {"probe", "reap", "done"}]

CallerTypes ==
    /\ pc \in [Callers -> {"idle", "start", "kill", "signal", "gate"} \cup Starting \cup Stopping]
    /\ arg \in [Callers -> Ids \cup Sessions \cup {"now", "after", NoOne}]
    /\ todo \in [Callers -> SUBSET Launches] /\ waiting \in [Callers -> SUBSET Launches]
    /\ \A a \in Callers :
        /\ pc[a] \in Starting \cup {"start"} => arg[a] \in Ids
        /\ pc[a] \in Starting => \E l \in Launches : todo[a] = {l}
        /\ pc[a] = "session" => arg[a] \in Sessions

SupervisorTypes ==
    /\ processes \in [Ids -> Launches \cup {NoOne}]
    /\ gate \in Callers \cup {NoOne}
    /\ terminating \in [Sessions -> Int]
    /\ shutdown \in BOOLEAN
    /\ shutdowns \in Nat
    /\ misfired \in BOOLEAN /\ accepted \subseteq Launches /\ closed \in BOOLEAN

Types == LaunchTypes /\ CallerTypes /\ SupervisorTypes

\* Every variable has its type; a session is never marked less than not at all.
TypeOK == Types /\ terminating \in [Sessions -> Nat]

USE ProcessAssumption

\* The reasons and their order.
LEMMA ReasonDomain == DOMAIN Reasons = {"none", "TimedOut", "Cancelled", "Terminated"}
BY DEF Reasons

\* A latched reason is one of the two, and never weaker than the first.
LEMMA LatchedType ==
    ASSUME NEW old \in DOMAIN Reasons, NEW new \in DOMAIN Reasons
    PROVE  /\ Latched(old, new) \in DOMAIN Reasons
           /\ old = "Terminated" => Latched(old, new) = "Terminated"
           /\ new = "Terminated" => Latched(old, new) = "Terminated"
BY DEF Reasons, Latched

\* What the supervising task reads from its tokens is a reason.
LEMMA ReadyType ==
    ASSUME Types, NEW l \in Launches
    PROVE  /\ Ready(l) \in DOMAIN Reasons /\ Relatched(l) \in DOMAIN Reasons
           /\ intent[l] = "Terminated" => Relatched(l) = "Terminated"
<1>1. intent[l] \in DOMAIN Reasons /\ "Terminated" \in DOMAIN Reasons /\ "Cancelled" \in DOMAIN Reasons
  BY ReasonDomain DEF Types, LaunchTypes
<1>2. Ready(l) \in DOMAIN Reasons
  BY ReasonDomain DEF Ready
<1>3. Latched(intent[l], "Terminated") \in DOMAIN Reasons
  BY <1>1, LatchedType
<1>. QED
  BY <1>1, <1>2, <1>3, LatchedType DEF Relatched

\* The child of a caller that starts one.
LEMMA SpawnedType ==
    ASSUME Types, NEW a \in Callers, pc[a] \in Starting
    PROVE  todo[a] = {Spawned(a)} /\ Spawned(a) \in Launches
BY DEF Types, CallerTypes, Spawned
-----------------------------------------------------------------------------
(* Steps *)

\* The steps of callers that leave the launches alone.
CallerOnly(a) ==
    \/ \E i \in Ids : StartCall(a, i)
    \/ \E s \in Sessions : TerminateSession(a, s)
    \/ \E returns \in {"now", "after"} : Shutdown(a, returns)
    \/ StartRefused(a) \/ StartBroken(a) \/ ShutdownCancel(a) \/ ShutdownCollect(a)
    \/ AwaitDone(a) \/ AwaitTimeout(a)
    \/ \E l \in Launches : SkipEnded(a, l) \/ SeeRunning(a, l)

\* The steps of callers that change a launch.
OnLaunch(a) ==
    \/ StartRegister(a) \/ StartRecheck(a) \/ StartAbort(a) \/ StartAborted(a) \/ StartInsert(a)
    \/ \E i \in Ids : Terminate(a, i)
    \/ \E l \in Launches :
        StartSpawn(a, l) \/ KillTake(a, l) \/ KillSignal(a, l) \/ StopSeen(a, l)

\* The steps of the supervising task, of the child and of its tokens.
OfLaunch(l) == Supervise(l) \/ Exit(l) \/ CancelOrTimeout(l)

\* A step is one of a caller, of a launch, or forgets an ended process.
LEMMA NextShapes ==
    ASSUME [Next]_vars
    PROVE  \/ \E a \in Callers : CallerOnly(a) \/ OnLaunch(a)
           \/ \E l \in Launches : OfLaunch(l)
           \/ \E i \in Ids : Prune(i)
           \/ UNCHANGED vars
BY DEF Next, Call, CallerStep, CallerOnly, OnLaunch, OfLaunch

\* A step of a caller alone leaves the launches alone; one of a launch leaves
\* the callers alone.
LEMMA CallerFrame ==
    ASSUME NEW a \in Callers, CallerOnly(a)
    PROVE  UNCHANGED launchVars /\ UNCHANGED processes /\ gate' = gate
BY DEF CallerOnly, StartCall, TerminateSession, Shutdown, StartRefused, StartBroken, ShutdownCancel,
       ShutdownCollect, AwaitDone, AwaitTimeout, SkipEnded, SeeRunning

\* A step of a supervising task leaves the callers and the registry alone.
LEMMA LaunchFrame ==
    ASSUME NEW l \in Launches, OfLaunch(l)
    PROVE  UNCHANGED callerVars /\ UNCHANGED <<processes, gate, terminating, shutdown, accepted, closed, shutdowns>>
BY DEF OfLaunch, Supervise, SuperviseStop, WaitProbe, WaitReap, SuperviseExit, PublishRead,
       PublishState, SuperviseRelease, SuperviseScan, Exit, CancelOrTimeout, ghosts

\* The types hold at the start.
LEMMA TypesInit == Init => Types
<1>. SUFFICES ASSUME Init PROVE Types
  OBVIOUS
<1>1. LaunchTypes
  BY ReasonDomain DEF Init, LaunchTypes, Ending, Over
<1>2. CallerTypes
  BY DEF Init, CallerTypes, Starting, Stopping
<1>3. SupervisorTypes
  <2>1. shutdown \in BOOLEAN /\ misfired \in BOOLEAN /\ closed \in BOOLEAN
    BY DEF Init
  <2>. QED
    BY <2>1 DEF Init, SupervisorTypes
<1>. QED
  BY <1>1, <1>2, <1>3 DEF Types

\* Every step keeps the types of the launches.
LEMMA LaunchTypesStep ==
    ASSUME Types, [Next]_vars
    PROVE  LaunchTypes'
<1>. USE DEF LaunchTypes
<1>t. LaunchTypes
  BY DEF Types
<1>r. DOMAIN Reasons = {"none", "TimedOut", "Cancelled", "Terminated"}
  BY ReasonDomain
<1>1. ASSUME UNCHANGED launchVars
      PROVE  LaunchTypes'
  BY <1>t, <1>1 DEF launchVars
<1>2. ASSUME NEW a \in Callers, OnLaunch(a)
      PROVE  LaunchTypes'
  <2>s. pc[a] \in Starting => Spawned(a) \in Launches
    BY SpawnedType
  <2>p. \A i \in Ids : processes[i] \in Launches \cup {NoOne}
    BY DEF Types, SupervisorTypes
  <2>1. CASE StartRegister(a)
    BY <1>t, <2>1, <2>s DEF StartRegister, Starting
  <2>2. CASE StartRecheck(a)
    BY <1>t, <2>2 DEF StartRecheck
  <2>3. CASE StartAbort(a)
    BY <1>t, <2>3 DEF StartAbort, Signals
  <2>4. CASE StartAborted(a)
    BY <1>t, <2>4 DEF StartAborted
  <2>5. CASE StartInsert(a)
    BY <1>t, <2>5 DEF StartInsert
  <2>6. ASSUME NEW i \in Ids, Terminate(a, i)
        PROVE  LaunchTypes'
    <3>1. PICK l \in Launches : l = processes[i]
      BY <2>p, <2>6 DEF Terminate
    <3>2. Latched(intent[l], "Terminated") \in DOMAIN Reasons
      BY <1>t, <1>r, LatchedType
    <3>3. intent' = [intent EXCEPT ![l] = Latched(@, "Terminated")]
      BY <2>6, <3>1 DEF Terminate
    <3>4. control' = control \cup {l} /\ TerminateEntry(l)
      BY <2>6, <3>1 DEF Terminate
    <3>5. UNCHANGED <<reaped, lifecycle, active, operation, cancelled, timedOut, state, scanned, sup,
                      wait>>
      BY <2>6 DEF Terminate
    <3>. QED
      BY <1>t, <3>2, <3>3, <3>4, <3>5 DEF TerminateEntry, Signals
  <2>7. ASSUME NEW l \in Launches, StartSpawn(a, l)
        PROVE  LaunchTypes'
    BY <1>t, <2>7 DEF StartSpawn
  <2>8. ASSUME NEW l \in Launches, KillTake(a, l)
        PROVE  LaunchTypes'
    <3>1. pid' = pid \/ pid' = [pid EXCEPT ![l] = FALSE]
      BY <1>t, <2>8 DEF KillTake
    <3>2. pid' \in [Launches -> BOOLEAN]
      BY <1>t, <3>1
    <3>3. lifecycle' = lifecycle \/ lifecycle' = [lifecycle EXCEPT ![l] = a]
      BY <1>t, <2>8 DEF KillTake
    <3>. QED
      BY <1>t, <2>8, <3>2, <3>3 DEF KillTake
  <2>9. ASSUME NEW l \in Launches, KillSignal(a, l)
        PROVE  LaunchTypes'
    <3>1. Latched(intent[l], "Cancelled") \in DOMAIN Reasons
      BY <1>t, <1>r, LatchedType
    <3>. QED
      BY <1>t, <2>9, <3>1 DEF KillSignal, Signals
  <2>10. ASSUME NEW l \in Launches, StopSeen(a, l)
        PROVE  LaunchTypes'
    <3>1. Latched(intent[l], IF pc[a] = "session" THEN "Terminated" ELSE "Cancelled") \in DOMAIN Reasons
      BY <1>t, <1>r, LatchedType
    <3>. QED
      BY <1>t, <2>10, <3>1 DEF StopSeen, TerminateEntry, Signals
  <2>. QED
    BY <1>2, <2>1, <2>2, <2>3, <2>4, <2>5, <2>6, <2>7, <2>8, <2>9, <2>10 DEF OnLaunch
<1>3. ASSUME NEW l \in Launches, OfLaunch(l)
      PROVE  LaunchTypes'
  <2>r. Ready(l) \in DOMAIN Reasons /\ Relatched(l) \in DOMAIN Reasons
    BY ReadyType
  <2>l. Latched(intent[l], Ready(l)) \in DOMAIN Reasons
    BY <1>t, <2>r, LatchedType
  <2>1. CASE SuperviseStop(l)
    BY <1>t, <2>l, <2>1 DEF SuperviseStop, TerminateEntry, Signals
  <2>2. CASE WaitProbe(l) \/ WaitReap(l) \/ SuperviseRelease(l)
    BY <1>t, <2>2 DEF WaitProbe, WaitReap, SuperviseRelease, Ending, Over
  <2>3. CASE SuperviseExit(l)
    BY <1>t, <2>r, <2>3 DEF SuperviseExit, Ending
  <2>4. CASE PublishRead(l)
    <3>1. intent'[l] = Relatched(l)
      BY <1>t, <2>4 DEF PublishRead
    <3>. QED
      BY <1>t, <2>r, <2>4, <3>1 DEF PublishRead, Ending
  <2>5. CASE PublishState(l)
    BY <1>t, <1>r, <2>5 DEF PublishState, Ending, Over
  <2>6. CASE SuperviseScan(l)
    BY <1>t, <2>6 DEF SuperviseScan, Ending, Over
  <2>7. CASE Exit(l)
    BY <1>t, <2>7 DEF Exit
  <2>8. CASE CancelOrTimeout(l)
    BY <1>t, <2>8 DEF CancelOrTimeout
  <2>. QED
    BY <1>3, <2>1, <2>2, <2>3, <2>4, <2>5, <2>6, <2>7, <2>8 DEF OfLaunch, Supervise
<1>. QED
  BY <1>1, <1>2, <1>3, NextShapes, CallerFrame DEF Prune, vars
\* Every step keeps the types of the callers.
LEMMA CallerTypesStep ==
    ASSUME Types, [Next]_vars
    PROVE  CallerTypes'
<1>. USE DEF CallerTypes, Starting, Stopping
<1>t. CallerTypes /\ \A i \in Ids : processes[i] \in Launches \cup {NoOne}
  BY DEF Types, SupervisorTypes
<1>1. ASSUME UNCHANGED callerVars
      PROVE  CallerTypes'
  BY <1>t, <1>1 DEF callerVars
<1>2. ASSUME NEW a \in Callers, Return(a)
      PROVE  CallerTypes'
  BY <1>t, <1>2 DEF Return
<1>3. ASSUME NEW a \in Callers, CallerOnly(a)
      PROVE  CallerTypes'
  <2>1. ASSUME NEW i \in Ids, StartCall(a, i)
        PROVE  CallerTypes'
    BY <1>t, <2>1 DEF StartCall
  <2>2. ASSUME NEW s \in Sessions, TerminateSession(a, s)
        PROVE  CallerTypes'
    <3>1. {processes[i] : i \in {j \in Ids : SessionOf[j] = s}} \ {NoOne} \subseteq Launches
      BY <1>t
    <3>. QED
      BY <1>t, <2>2, <3>1 DEF TerminateSession
  <2>3. ASSUME NEW returns \in {"now", "after"}, Shutdown(a, returns)
        PROVE  CallerTypes'
    <3>1. active \subseteq Launches
      BY DEF Types, LaunchTypes
    <3>. QED
      BY <1>t, <2>3, <3>1 DEF Shutdown
  <2>4. CASE StartBroken(a)
    BY <1>t, <2>4 DEF StartBroken, Goto
  <2>5. CASE ShutdownCancel(a)
    <3>1. CASE Return(a)
      BY <1>2, <3>1
    <3>2. CASE Goto(a, "gate")
      BY <1>t, <3>2, <2>5 DEF Goto, ShutdownCancel
    <3>. QED
      BY <2>5, <3>1, <3>2 DEF ShutdownCancel
  <2>6. CASE ShutdownCollect(a)
    <3>1. Entries \subseteq Launches
      BY <1>t DEF Entries
    <3>. QED
      BY <1>t, <2>6, <3>1 DEF ShutdownCollect
  <2>7. ASSUME NEW l \in Launches, SkipEnded(a, l)
        PROVE  CallerTypes'
    <3>1. waiting' = waiting \/ waiting' = [waiting EXCEPT ![a] = @ \cup {l}]
      BY <1>t, <2>7 DEF SkipEnded
    <3>. QED
      BY <1>t, <2>7, <3>1 DEF SkipEnded
  <2>8. ASSUME NEW l \in Launches, SeeRunning(a, l)
        PROVE  CallerTypes'
    BY <1>t, <2>8 DEF SeeRunning
  <2>. QED
    BY <1>2, <1>3, <2>1, <2>2, <2>3, <2>4, <2>5, <2>6, <2>7, <2>8
    DEF CallerOnly, StartRefused, AwaitDone, AwaitTimeout
<1>4. ASSUME NEW a \in Callers, OnLaunch(a)
      PROVE  CallerTypes'
  <2>1. CASE StartRegister(a) \/ StartAbort(a)
    BY <1>t, <2>1 DEF StartRegister, StartAbort, Goto
  <2>2. CASE StartRecheck(a)
    BY <1>t, <2>2 DEF StartRecheck, Goto
  <2>3. CASE StartAborted(a) \/ StartInsert(a)
    BY <1>2, <2>3 DEF StartAborted, StartInsert
  <2>4. ASSUME NEW i \in Ids, Terminate(a, i)
        PROVE  CallerTypes'
    <3>1. PICK l \in Launches : l = processes[i]
      BY <1>t, <2>4 DEF Terminate
    <3>2. /\ pc' = [pc EXCEPT ![a] = "terminate"] /\ waiting' = [waiting EXCEPT ![a] = {l}]
          /\ UNCHANGED <<arg, todo>>
      BY <2>4, <3>1 DEF Terminate
    <3>. QED
      BY <1>t, <3>2
  <2>5. ASSUME NEW l \in Launches, StartSpawn(a, l)
        PROVE  CallerTypes'
    BY <1>t, <2>5 DEF StartSpawn
  <2>6. ASSUME NEW l \in Launches, KillTake(a, l)
        PROVE  CallerTypes'
    <3>1. /\ pc[a] = "kill" /\ UNCHANGED <<arg, waiting>>
          /\ \/ pc' = pc /\ todo' = [todo EXCEPT ![a] = @ \ {l}]
             \/ pc' = [pc EXCEPT ![a] = "signal"] /\ todo' = todo
      BY <2>6 DEF KillTake, Goto
    <3>. QED
      BY <1>t, <3>1
  <2>7. ASSUME NEW l \in Launches, KillSignal(a, l)
        PROVE  CallerTypes'
    BY <1>t, <2>7 DEF KillSignal
  <2>8. ASSUME NEW l \in Launches, StopSeen(a, l)
        PROVE  CallerTypes'
    BY <1>t, <2>8 DEF StopSeen
  <2>. QED
    BY <1>4, <2>1, <2>2, <2>3, <2>4, <2>5, <2>6, <2>7, <2>8 DEF OnLaunch
<1>. QED
  BY <1>1, <1>3, <1>4, NextShapes, LaunchFrame DEF Prune, vars

\* Every step keeps the types of the supervisor.
LEMMA SupervisorTypesStep ==
    ASSUME Types, [Next]_vars
    PROVE  SupervisorTypes'
<1>. USE DEF SupervisorTypes
<1>t. SupervisorTypes
  BY DEF Types
<1>1. ASSUME NEW a \in Callers, CallerOnly(a)
      PROVE  SupervisorTypes'
  <2>u. UNCHANGED <<processes, gate, misfired, accepted>>
    BY <1>1 DEF CallerOnly, StartCall, TerminateSession, Shutdown, StartRefused, StartBroken,
       ShutdownCancel, ShutdownCollect, AwaitDone, AwaitTimeout, SkipEnded, SeeRunning, ghosts
  <2>1. shutdown' \in BOOLEAN /\ closed' \in BOOLEAN
    BY <1>t, <1>1 DEF CallerOnly, StartCall, TerminateSession, Shutdown, StartRefused, StartBroken,
       ShutdownCancel, ShutdownCollect, AwaitDone, AwaitTimeout, SkipEnded, SeeRunning, ghosts
  <2>2. shutdowns' \in Nat
    BY <1>t, <1>1 DEF CallerOnly, StartCall, TerminateSession, Shutdown, StartRefused, StartBroken,
       ShutdownCancel, ShutdownCollect, AwaitDone, AwaitTimeout, SkipEnded, SeeRunning, ghosts
  <2>3. terminating' \in [Sessions -> Int]
    <3>1. pc[a] = "session" => arg[a] \in Sessions
      BY DEF Types, CallerTypes
    <3>2. ASSUME AwaitDone(a) \/ AwaitTimeout(a)
          PROVE  terminating' \in [Sessions -> Int]
      BY <1>t, <3>1, <3>2 DEF AwaitDone, AwaitTimeout, Unmarked
    <3>3. ASSUME NEW s \in Sessions, TerminateSession(a, s)
          PROVE  terminating' \in [Sessions -> Int]
      BY <1>t, <3>3 DEF TerminateSession
    <3>. QED
      BY <1>t, <1>1, <3>2, <3>3 DEF CallerOnly, StartCall, Shutdown, StartRefused, StartBroken,
         ShutdownCancel, ShutdownCollect, SkipEnded, SeeRunning
  <2>. QED
    BY <1>t, <2>u, <2>1, <2>2, <2>3
<1>2. ASSUME NEW a \in Callers, OnLaunch(a)
      PROVE  SupervisorTypes'
  <2>u. UNCHANGED <<terminating, shutdown, closed, shutdowns>>
    BY <1>2 DEF OnLaunch, StartRegister, StartRecheck, StartAbort, StartAborted, StartInsert,
       Terminate, StartSpawn, KillTake, KillSignal, StopSeen, ghosts
  <2>1. misfired' \in BOOLEAN
    BY <1>t, <1>2 DEF OnLaunch, StartRegister, StartRecheck, StartAbort, StartAborted, StartInsert,
       Terminate, StartSpawn, KillTake, KillSignal, StopSeen, ghosts, TerminateEntry, Signals
  <2>2. gate' \in Callers \cup {NoOne}
    BY <1>t, <1>2 DEF OnLaunch, StartRegister, StartRecheck, StartAbort, StartAborted, StartInsert,
       Terminate, StartSpawn, KillTake, KillSignal, StopSeen
  <2>3. accepted' \subseteq Launches
    <3>1. ASSUME NEW i \in Ids, Terminate(a, i)
          PROVE  accepted' \subseteq Launches
      <4>1. accepted' = accepted \cup {processes[i]} /\ processes[i] # NoOne
        BY <3>1 DEF Terminate
      <4>. QED
        BY <1>t, <4>1
    <3>. QED
      BY <1>t, <1>2, <3>1 DEF OnLaunch, StartRegister, StartRecheck, StartAbort, StartAborted,
         StartInsert, StartSpawn, KillTake, KillSignal, StopSeen, ghosts
  <2>4. processes' \in [Ids -> Launches \cup {NoOne}]
    <3>1. CASE StartInsert(a)
      <4>1. Spawned(a) \in Launches
        BY <3>1, SpawnedType DEF StartInsert, Starting
      <4>. QED
        BY <1>t, <3>1, <4>1 DEF StartInsert
    <3>. QED
      BY <1>t, <1>2, <3>1 DEF OnLaunch, StartRegister, StartRecheck, StartAbort, StartAborted,
         Terminate, StartSpawn, KillTake, KillSignal, StopSeen
  <2>. QED
    BY <1>t, <2>u, <2>1, <2>2, <2>3, <2>4
<1>3. ASSUME NEW l \in Launches, OfLaunch(l)
      PROVE  SupervisorTypes'
  <2>1. misfired' \in BOOLEAN
    BY <1>t, <1>3 DEF OfLaunch, Supervise, SuperviseStop, TerminateEntry, Signals, WaitProbe,
       WaitReap, SuperviseExit, PublishRead, PublishState, SuperviseRelease, SuperviseScan, Exit,
       CancelOrTimeout, ghosts
  <2>. QED
    BY <1>t, <1>3, <2>1, LaunchFrame
<1>4. ASSUME NEW i \in Ids, Prune(i)
      PROVE  SupervisorTypes'
  BY <1>t, <1>4 DEF Prune, ghosts
<1>5. ASSUME UNCHANGED vars
      PROVE  SupervisorTypes'
  BY <1>t, <1>5 DEF vars, ghosts
<1>. QED
  BY <1>1, <1>2, <1>3, <1>4, <1>5, NextShapes

\* Every step keeps the types.
LEMMA TypesStep == Types /\ [Next]_vars => Types'
BY LaunchTypesStep, CallerTypesStep, SupervisorTypesStep DEF Types

\* The types hold, for the proofs that follow.
LEMMA TypesHold == Spec => []Types
BY TypesInit, TypesStep, PTL DEF Spec
-----------------------------------------------------------------------------
(* The life of a launch *)

\* The system still has a process for the launch.
Alive(l) == child[l] \in {"running", "dying", "zombie"}

\* How far the supervising task is agrees with the child, with what the wait has
\* given up and with what is published.
LaunchInv ==
    \A l \in Launches :
        /\ sup[l] = "idle" => wait[l] = "probe" /\ ~reaped[l]
        /\ sup[l] # "idle" /\ wait[l] = "probe" => Alive(l)
        /\ wait[l] = "reap" => child[l] = "zombie"
        /\ wait[l] = "done" => child[l] = "reaped"
        /\ wait[l] \in {"reap", "done"} => reaped[l]
        /\ reaped[l] => l \notin active
        /\ sup[l] \in Ending => wait[l] = "done"
        /\ Terminal(l) <=> sup[l] \in Over
        /\ l \in scanned => sup[l] = "done"

\* A caller that starts a child holds the gate, and nobody else has the child.
StartInv ==
    \A a \in Callers : pc[a] \in Starting =>
        /\ gate = a /\ processes[arg[a]] = NoOne
        /\ \A l \in todo[a] : sup[l] = "idle" /\ Alive(l)

\* What is listed, or is being stopped or waited for, has a supervising task.
ListedInv ==
    /\ \A i \in Ids : processes[i] # NoOne => sup[processes[i]] # "idle"
    /\ \A a \in Callers :
        /\ pc[a] \in Stopping => \A l \in todo[a] \cup waiting[a] : sup[l] # "idle"
        /\ pc[a] \notin Stopping => waiting[a] = {}
        /\ pc[a] = "idle" => todo[a] = {}

LifeInv == LaunchInv /\ StartInv /\ ListedInv

\* The children whose process is signalled stay alive, the others as they are.
Kin == \A l \in Launches : child'[l] = child[l] \/ (child[l] = "running" /\ child'[l] = "dying")

\* A signal makes a running child die and touches no other.
LEMMA SignalKin ==
    ASSUME Types, NEW l \in Launches, Signals(l)
    PROVE  Kin
BY DEF Signals, Kin, Types, LaunchTypes

\* A termination of a listed entry does the same.
LEMMA EntryKin ==
    ASSUME Types, NEW l \in Launches, TerminateEntry(l)
    PROVE  Kin
<1>1. CASE UNCHANGED child
  BY <1>1 DEF Kin
<1>2. CASE Signals(l)
  BY <1>2, SignalKin
<1>. QED
  BY <1>1, <1>2 DEF TerminateEntry

\* No supervising task has ended before the child has.
LEMMA NoChildNoTask ==
    ASSUME LaunchInv, Types, NEW l \in Launches, child[l] = "none"
    PROVE  sup[l] = "idle"
BY DEF LaunchInv, Alive, Types, LaunchTypes

\* Every step keeps a launch and its child in step.
LEMMA LaunchInvStep ==
    ASSUME Types, LifeInv, [Next]_vars
    PROVE  LaunchInv'
<1>t. LaunchTypes /\ LaunchInv
  BY DEF Types, LifeInv
<1>e. /\ "idle" \notin Ending /\ "select" \notin Ending /\ "wait" \notin Ending /\ Over \subseteq Ending
      /\ DOMAIN Reasons \subseteq Ending /\ "publish" \in Ending /\ "publish" \notin Over
      /\ \A r \in DOMAIN Reasons : r \notin Over /\ r # "idle"
      /\ "idle" \notin Over /\ "select" \notin Over /\ "wait" \notin Over
  BY ReasonDomain DEF Ending, Over
<1>k. ASSUME Kin, UNCHANGED <<reaped, wait, sup, state, scanned>>, active' \subseteq active
      PROVE  LaunchInv'
  BY <1>t, <1>k DEF Kin, LaunchInv, Alive, Terminal
<1>u. ASSUME UNCHANGED launchVars
      PROVE  LaunchInv'
  BY <1>k, <1>u DEF launchVars, Kin
<1>1. ASSUME NEW a \in Callers, OnLaunch(a)
      PROVE  LaunchInv'
  <2>1. ASSUME pc[a] \in Starting
        PROVE  /\ Spawned(a) \in Launches
               /\ sup[Spawned(a)] = "idle" /\ Alive(Spawned(a))
    BY <2>1, SpawnedType DEF LifeInv, StartInv
  <2>2. CASE StartRegister(a)
    <3>1. sup[Spawned(a)] = "idle"
      BY <2>1, <2>2 DEF StartRegister, Starting
    <3>. QED
      BY <1>t, <2>2, <3>1 DEF StartRegister, LaunchInv, Alive, Terminal
  <2>3. CASE StartRecheck(a)
    BY <1>k, <2>3 DEF StartRecheck, Kin
  <2>4. CASE StartAbort(a)
    <3>1. Kin
      BY <2>1, <2>4, SignalKin DEF StartAbort, Starting
    <3>. QED
      BY <1>k, <2>4, <3>1 DEF StartAbort
  <2>5. CASE StartAborted(a)
    <3>1. sup[Spawned(a)] = "idle"
      BY <2>1, <2>5 DEF StartAborted, Starting
    <3>. QED
      BY <1>t, <2>5, <3>1 DEF StartAborted, LaunchInv, LaunchTypes, Alive, Terminal
  <2>6. CASE StartInsert(a)
    <3>1. PICK l \in Launches : l = Spawned(a) /\ sup[l] = "idle" /\ Alive(l)
      BY <2>1, <2>6 DEF StartInsert, Starting
    <3>2. /\ state' = [state EXCEPT ![l] = "Running"] /\ sup' = [sup EXCEPT ![l] = "select"]
          /\ UNCHANGED <<child, reaped, active, scanned, wait>>
      BY <2>6, <3>1 DEF StartInsert
    <3>. QED
      BY <1>t, <1>e, <3>1, <3>2 DEF LaunchInv, LaunchTypes, Alive, Terminal
  <2>7. ASSUME NEW i \in Ids, Terminate(a, i)
        PROVE  LaunchInv'
    <3>1. PICK l \in Launches : l = processes[i] /\ TerminateEntry(l)
      BY <2>7 DEF Terminate, Types, SupervisorTypes
    <3>2. Kin
      BY <3>1, EntryKin
    <3>. QED
      BY <1>k, <2>7, <3>2 DEF Terminate
  <2>8. ASSUME NEW l \in Launches, StartSpawn(a, l)
        PROVE  LaunchInv'
    <3>1. sup[l] = "idle"
      BY <1>t, <2>8, NoChildNoTask DEF StartSpawn
    <3>. QED
      BY <1>t, <2>8, <3>1 DEF StartSpawn, LaunchInv, LaunchTypes, Alive, Terminal
  <2>9. ASSUME NEW l \in Launches, KillTake(a, l)
        PROVE  LaunchInv'
    BY <1>k, <2>9 DEF KillTake, Kin
  <2>10. ASSUME NEW l \in Launches, KillSignal(a, l)
         PROVE  LaunchInv'
    BY <1>k, <2>10, SignalKin DEF KillSignal
  <2>11. ASSUME NEW l \in Launches, StopSeen(a, l)
         PROVE  LaunchInv'
    BY <1>k, <2>11, EntryKin DEF StopSeen
  <2>. QED
    BY <1>1, <2>2, <2>3, <2>4, <2>5, <2>6, <2>7, <2>8, <2>9, <2>10, <2>11 DEF OnLaunch
<1>2. ASSUME NEW l \in Launches, OfLaunch(l)
      PROVE  LaunchInv'
  <2>. USE DEF LaunchInv, LaunchTypes, Alive, Terminal
  <2>1. CASE SuperviseStop(l)
    <3>1. Kin
      BY <2>1, EntryKin DEF SuperviseStop
    <3>. QED
      BY <1>t, <1>e, <2>1, <3>1 DEF SuperviseStop, Kin
  <2>2. CASE WaitProbe(l)
    BY <1>t, <1>e, <2>2 DEF WaitProbe
  <2>3. CASE WaitReap(l)
    BY <1>t, <1>e, <2>3 DEF WaitReap
  <2>4. CASE SuperviseExit(l)
    BY <1>t, <1>e, <2>4 DEF SuperviseExit
  <2>5. CASE PublishRead(l)
    <3>0. intent'[l] = Relatched(l)
      BY <1>t, <2>5 DEF PublishRead
    <3>1. PICK r \in DOMAIN Reasons : sup' = [sup EXCEPT ![l] = r]
      BY <2>5, <3>0, ReadyType DEF PublishRead
    <3>. QED
      BY <1>t, <1>e, <2>5, <3>1 DEF PublishRead
  <2>6. CASE PublishState(l)
    <3>1. PICK s : s \notin {"none", "Running"} /\ state' = [state EXCEPT ![l] = s]
      BY <2>6, ReasonDomain DEF PublishState
    <3>. QED
      BY <1>t, <1>e, <2>6, <3>1 DEF PublishState, Over, Ending
  <2>7. CASE SuperviseRelease(l)
    BY <1>t, <1>e, <2>7 DEF SuperviseRelease, Over, Ending
  <2>8. CASE SuperviseScan(l)
    BY <1>t, <1>e, <2>8 DEF SuperviseScan, Over, Ending
  <2>9. CASE Exit(l)
    BY <1>t, <2>9 DEF Exit
  <2>10. CASE CancelOrTimeout(l)
    BY <1>t, <2>10 DEF CancelOrTimeout
  <2>. QED
    BY <1>2, <2>1, <2>2, <2>3, <2>4, <2>5, <2>6, <2>7, <2>8, <2>9, <2>10 DEF OfLaunch, Supervise
<1>. QED
  BY <1>u, <1>1, <1>2, NextShapes, CallerFrame DEF Prune, vars
\* A step of one caller leaves the others where they are.
Apart(a) ==
    \A b \in Callers \ {a} :
        pc'[b] = pc[b] /\ arg'[b] = arg[b] /\ todo'[b] = todo[b] /\ waiting'[b] = waiting[b]

\* The other callers stay where they are while one takes a step.
LEMMA OthersWait ==
    ASSUME Types, NEW a \in Callers, CallerOnly(a) \/ OnLaunch(a)
    PROVE  Apart(a)
<1>t. CallerTypes
  BY DEF Types
<1>1. CASE CallerOnly(a)
  BY <1>t, <1>1 DEF Apart, CallerTypes, CallerOnly, StartCall, TerminateSession, Shutdown, StartRefused,
     StartBroken, ShutdownCancel, ShutdownCollect, AwaitDone, AwaitTimeout, SkipEnded, SeeRunning,
     Return, Goto
<1>2. CASE OnLaunch(a)
  BY <1>t, <1>2, ZenonT(60) DEF Apart, CallerTypes, OnLaunch, StartRegister, StartRecheck, StartAbort, StartAborted,
     StartInsert, Terminate, StartSpawn, KillTake, KillSignal, StopSeen, Return, Goto
<1>. QED
  BY <1>1, <1>2

\* What a launch does by itself: a child without a task stays as alive as it is.
LEMMA TaskStays ==
    ASSUME Types, LaunchInv, NEW l \in Launches, OfLaunch(l), NEW m \in Launches
    PROVE  /\ sup[m] = "idle" <=> sup'[m] = "idle"
           /\ sup[m] = "idle" => (Alive(m) => Alive(m)')
<1>t. LaunchTypes /\ DOMAIN Reasons = {"none", "TimedOut", "Cancelled", "Terminated"}
  BY ReasonDomain DEF Types
<1>. USE DEF LaunchInv, LaunchTypes, Alive
<1>1. CASE SuperviseStop(l)
  <2>1. Kin
    BY <1>1, EntryKin DEF SuperviseStop
  <2>. QED
    BY <1>t, <1>1, <2>1 DEF SuperviseStop, Kin
<1>2. CASE WaitProbe(l) \/ WaitReap(l) \/ SuperviseExit(l) \/ SuperviseRelease(l) \/ SuperviseScan(l)
  BY <1>t, <1>2 DEF WaitProbe, WaitReap, SuperviseExit, SuperviseRelease, SuperviseScan
<1>3. CASE PublishRead(l)
  <2>0. intent'[l] = Relatched(l)
    BY <1>t, <1>3 DEF PublishRead
  <2>1. PICK r \in DOMAIN Reasons : sup' = [sup EXCEPT ![l] = r]
    BY <1>3, <2>0, ReadyType DEF PublishRead
  <2>. QED
    BY <1>t, <1>3, <2>1 DEF PublishRead
<1>4. CASE PublishState(l)
  BY <1>t, <1>4 DEF PublishState
<1>5. CASE Exit(l) \/ CancelOrTimeout(l)
  BY <1>t, <1>5 DEF Exit, CancelOrTimeout
<1>. QED
  BY <1>1, <1>2, <1>3, <1>4, <1>5 DEF OfLaunch, Supervise

\* Every step keeps what a starting caller knows of its launch.
LEMMA StartInvStep ==
    ASSUME Types, LifeInv, [Next]_vars
    PROVE  StartInv'
<1>t. CallerTypes /\ LaunchTypes /\ SupervisorTypes /\ LaunchInv /\ StartInv
  BY DEF Types, LifeInv
<1>1. ASSUME NEW a \in Callers, Apart(a), pc'[a] \notin Starting, UNCHANGED <<processes, gate, sup>>, Kin
      PROVE  StartInv'
  BY <1>t, <1>1 DEF StartInv, Apart, Kin, Alive, CallerTypes, LaunchTypes
<1>2. ASSUME NEW a \in Callers, Apart(a), pc[a] \in Starting, UNCHANGED <<processes, gate, sup>>, Kin,
             arg'[a] = arg[a], todo'[a] = todo[a]
      PROVE  StartInv'
  BY <1>t, <1>2 DEF StartInv, Apart, Kin, Alive, CallerTypes, LaunchTypes
<1>3. ASSUME NEW a \in Callers, CallerOnly(a)
      PROVE  StartInv'
  <2>1. Apart(a) /\ UNCHANGED <<processes, gate, sup>> /\ Kin
    BY <1>3, OthersWait, CallerFrame DEF launchVars, Kin
  <2>2. CASE StartBroken(a)
    BY <1>2, <2>1, <2>2 DEF StartBroken, Goto, Starting
  <2>3. CASE ~StartBroken(a)
    <3>1. pc'[a] \notin Starting
      BY <1>t, <1>3, <2>3 DEF CallerTypes, CallerOnly, StartCall, TerminateSession, Shutdown,
         StartRefused, ShutdownCancel, ShutdownCollect, AwaitDone, AwaitTimeout, SkipEnded, SeeRunning,
         Return, Goto, Starting, Stopping, Awaits
    <3>. QED
      BY <1>1, <2>1, <3>1
  <2>. QED
    BY <2>2, <2>3
<1>4. ASSUME NEW a \in Callers, OnLaunch(a)
      PROVE  StartInv'
  <2>a. Apart(a)
    BY <1>4, OthersWait
  <2>s. pc[a] \in Starting => /\ Spawned(a) \in Launches /\ gate = a
                              /\ \A b \in Callers : b # a => pc[b] \notin Starting
    BY <1>t, SpawnedType DEF StartInv
  <2>1. CASE StartRegister(a) \/ StartRecheck(a)
    BY <1>2, <2>a, <2>1 DEF StartRegister, StartRecheck, Goto, Starting, Kin
  <2>2. CASE StartAbort(a)
    BY <1>2, <2>a, <2>s, <2>2, SignalKin DEF StartAbort, Goto, Starting
  <2>3. CASE StartAborted(a) \/ StartInsert(a)
    <3>1. pc'[a] \notin Starting
      BY <1>t, <2>3 DEF StartAborted, StartInsert, Return, CallerTypes, Starting
    <3>2. \A b \in Callers : b # a => pc[b] \notin Starting
      BY <2>s, <2>3 DEF StartAborted, StartInsert, Starting
    <3>. QED
      BY <2>a, <3>1, <3>2 DEF StartInv, Apart
  <2>4. ASSUME NEW i \in Ids, Terminate(a, i)
        PROVE  StartInv'
    <3>1. PICK l \in Launches : l = processes[i] /\ TerminateEntry(l)
      BY <1>t, <2>4 DEF Terminate, SupervisorTypes
    <3>2. pc'[a] \notin Starting
      BY <1>t, <2>4 DEF Terminate, CallerTypes, Starting
    <3>. QED
      BY <1>1, <2>a, <2>4, <3>1, <3>2, EntryKin DEF Terminate
  <2>5. ASSUME NEW l \in Launches, StartSpawn(a, l)
        PROVE  StartInv'
    <3>1. sup[l] = "idle"
      BY <1>t, <2>5, NoChildNoTask DEF StartSpawn
    <3>2. \A b \in Callers : pc[b] \notin Starting
      BY <1>t, <2>5 DEF StartInv, StartSpawn
    <3>3. /\ gate' = a /\ processes' = processes /\ processes[arg[a]] = NoOne /\ arg' = arg
          /\ sup' = sup /\ child'[l] = "running" /\ todo'[a] = {l}
      BY <1>t, <2>5 DEF StartSpawn, MayStart, CallerTypes, LaunchTypes
    <3>. QED
      BY <2>a, <3>1, <3>2, <3>3 DEF StartInv, Apart, Alive
  <2>6. ASSUME NEW l \in Launches, KillTake(a, l)
        PROVE  StartInv'
    <3>1. pc'[a] \notin Starting
      BY <1>t, <2>6 DEF KillTake, Goto, CallerTypes, Starting
    <3>. QED
      BY <1>1, <2>a, <2>6, <3>1 DEF KillTake, Kin
  <2>7. ASSUME NEW l \in Launches, KillSignal(a, l)
        PROVE  StartInv'
    <3>1. pc'[a] \notin Starting
      BY <1>t, <2>7 DEF KillSignal, CallerTypes, Starting
    <3>. QED
      BY <1>1, <2>a, <2>7, <3>1, SignalKin DEF KillSignal
  <2>8. ASSUME NEW l \in Launches, StopSeen(a, l)
        PROVE  StartInv'
    <3>1. pc'[a] \notin Starting
      BY <1>t, <2>8 DEF StopSeen, CallerTypes, Starting
    <3>. QED
      BY <1>1, <2>a, <2>8, <3>1, EntryKin DEF StopSeen
  <2>. QED
    BY <1>4, <2>1, <2>2, <2>3, <2>4, <2>5, <2>6, <2>7, <2>8 DEF OnLaunch
<1>5. ASSUME NEW l \in Launches, OfLaunch(l)
      PROVE  StartInv'
  <2>1. \A m \in Launches : sup[m] = "idle" /\ Alive(m) => sup'[m] = "idle" /\ Alive(m)'
    BY <1>t, <1>5, TaskStays
  <2>2. UNCHANGED <<pc, arg, todo, gate, processes>>
    BY <1>5, LaunchFrame DEF callerVars
  <2>. QED
    BY <1>t, <2>1, <2>2 DEF StartInv, CallerTypes
<1>6. ASSUME NEW i \in Ids, Prune(i)
      PROVE  StartInv'
  <2>1. /\ UNCHANGED <<pc, arg, todo, gate, sup, child>>
        /\ processes' = [processes EXCEPT ![i] = NoOne]
    BY <1>6 DEF Prune, launchVars, callerVars
  <2>. QED
    BY <1>t, <2>1 DEF StartInv, Alive, CallerTypes, SupervisorTypes
<1>7. ASSUME UNCHANGED vars
      PROVE  StartInv'
  BY <1>t, <1>7 DEF StartInv, Alive, vars, launchVars, callerVars
<1>. QED
  BY <1>3, <1>4, <1>5, <1>6, <1>7, NextShapes

\* Every step keeps the registry to launches that were inserted.
LEMMA ListedInvStep ==
    ASSUME Types, LifeInv, [Next]_vars
    PROVE  ListedInv'
<1>t. CallerTypes /\ LaunchTypes /\ SupervisorTypes /\ LaunchInv /\ ListedInv
  BY DEF Types, LifeInv
<1>1. ASSUME NEW a \in Callers, Apart(a), UNCHANGED <<processes, sup>>,
             pc'[a] \in Stopping => \A l \in todo'[a] \cup waiting'[a] : sup[l] # "idle",
             pc'[a] \notin Stopping => waiting'[a] = {}, pc'[a] = "idle" => todo'[a] = {}
      PROVE  ListedInv'
  BY <1>t, <1>1 DEF ListedInv, Apart
<1>2. ASSUME NEW a \in Callers, CallerOnly(a)
      PROVE  ListedInv'
  <2>a. Apart(a) /\ UNCHANGED <<processes, sup>>
    BY <1>2, OthersWait, CallerFrame DEF launchVars
  <2>1. CASE Return(a)
    BY <1>t, <1>1, <2>a, <2>1 DEF Return, CallerTypes, Stopping
  <2>2. CASE pc[a] \notin Stopping /\ pc'[a] \notin Stopping \cup {"idle"} /\ waiting' = waiting
    BY <1>t, <1>1, <2>a, <2>2 DEF ListedInv
  <2>3. ASSUME NEW s \in Sessions, TerminateSession(a, s)
        PROVE  ListedInv'
    <3>1. \A l \in todo'[a] : \E i \in Ids : l = processes[i] /\ l # NoOne
      BY <1>t, <2>3 DEF TerminateSession, CallerTypes
    <3>2. waiting'[a] = {} /\ pc'[a] \in Stopping /\ pc'[a] # "idle"
      BY <1>t, <2>3 DEF TerminateSession, ListedInv, Stopping, CallerTypes
    <3>. QED
      BY <1>t, <1>1, <2>a, <3>1, <3>2 DEF ListedInv
  <2>4. CASE ShutdownCollect(a)
    <3>1. \A l \in todo'[a] : \E i \in Ids : l = processes[i] /\ l # NoOne
      BY <1>t, <2>4 DEF ShutdownCollect, CallerTypes, Entries
    <3>2. waiting'[a] = {} /\ pc'[a] \in Stopping /\ pc'[a] # "idle"
      BY <1>t, <2>4 DEF ShutdownCollect, ListedInv, Stopping, CallerTypes
    <3>. QED
      BY <1>t, <1>1, <2>a, <3>1, <3>2 DEF ListedInv
  <2>5. ASSUME NEW l \in Launches, SkipEnded(a, l)
        PROVE  ListedInv'
    BY <1>t, <1>1, <2>a, <2>5 DEF SkipEnded, ListedInv, CallerTypes, Stopping
  <2>6. ASSUME NEW l \in Launches, SeeRunning(a, l)
        PROVE  ListedInv'
    BY <1>t, <1>1, <2>a, <2>6 DEF SeeRunning, ListedInv, CallerTypes, Stopping
  <2>7. CASE \/ \E i \in Ids : StartCall(a, i)
             \/ \E returns \in {"now", "after"} : Shutdown(a, returns)
             \/ StartBroken(a) \/ (ShutdownCancel(a) /\ Goto(a, "gate"))
    <3>1. pc[a] \notin Stopping /\ pc'[a] \notin Stopping \cup {"idle"} /\ waiting' = waiting
      BY <1>t, <2>7 DEF CallerTypes, StartCall, Shutdown, StartBroken, ShutdownCancel, Goto, Stopping
    <3>. QED
      BY <2>2, <3>1
  <2>. QED
    BY <1>2, <2>1, <2>3, <2>4, <2>5, <2>6, <2>7
    DEF CallerOnly, StartRefused, ShutdownCancel, AwaitDone, AwaitTimeout
<1>3. ASSUME NEW a \in Callers, OnLaunch(a)
      PROVE  ListedInv'
  <2>a. Apart(a)
    BY <1>3, OthersWait
  <2>1. CASE StartInsert(a)
    <3>1. PICK l \in Launches : l = Spawned(a)
      BY <2>1, SpawnedType DEF StartInsert, Starting
    <3>2. /\ processes' = [processes EXCEPT ![arg[a]] = l]
          /\ sup' = [sup EXCEPT ![l] = "select"]
          /\ pc'[a] = "idle" /\ waiting'[a] = {} /\ todo'[a] = {}
      BY <1>t, <2>1, <3>1 DEF StartInsert, Return, CallerTypes
    <3>3. \A m \in Launches : sup[m] # "idle" => sup'[m] # "idle"
      BY <1>t, <3>2 DEF LaunchTypes
    <3>4. ASSUME NEW i \in Ids, processes'[i] # NoOne
          PROVE  sup'[processes'[i]] # "idle"
      <4>1. processes'[i] = processes[i] \/ processes'[i] = l
        BY <1>t, <3>2 DEF SupervisorTypes
      <4>2. sup'[l] # "idle"
        BY <1>t, <3>2 DEF LaunchTypes
      <4>. QED
        BY <1>t, <3>3, <3>4, <4>1, <4>2 DEF ListedInv, SupervisorTypes
    <3>. QED
      BY <1>t, <2>a, <3>2, <3>3, <3>4 DEF ListedInv, Apart, CallerTypes, Stopping
  <2>2. CASE ~StartInsert(a)
    <3>u. UNCHANGED <<processes, sup>>
      BY <1>3, <2>2 DEF OnLaunch, StartRegister, StartRecheck, StartAbort, StartAborted, Terminate,
         StartSpawn, KillTake, KillSignal, StopSeen
    <3>1. ASSUME NEW i \in Ids, Terminate(a, i)
          PROVE  ListedInv'
      <4>1. /\ processes[i] # NoOne /\ pc[a] = "idle" /\ pc' = [pc EXCEPT ![a] = "terminate"]
            /\ waiting' = [waiting EXCEPT ![a] = {processes[i]}] /\ todo' = todo
        BY <3>1 DEF Terminate
      <4>2. sup[processes[i]] # "idle"
        BY <1>t, <4>1 DEF ListedInv
      <4>. QED
        BY <1>t, <1>1, <2>a, <3>u, <4>1, <4>2 DEF ListedInv, CallerTypes, Stopping
    <3>2. ASSUME NEW l \in Launches, StopSeen(a, l)
          PROVE  ListedInv'
      <4>1. /\ pc' = pc /\ pc[a] # "idle"
            /\ waiting' = waiting /\ todo' = [todo EXCEPT ![a] = @ \ {l}]
        BY <3>2 DEF StopSeen
      <4>. QED
        BY <1>t, <1>1, <2>a, <3>u, <4>1 DEF ListedInv, CallerTypes
    <3>3. CASE StartAborted(a)
      BY <1>t, <1>1, <2>a, <3>u, <3>3 DEF StartAborted, Return, CallerTypes, Stopping
    <3>4. CASE StartRegister(a) \/ StartRecheck(a) \/ StartAbort(a)
               \/ \E l \in Launches : StartSpawn(a, l) \/ KillTake(a, l) \/ KillSignal(a, l)
      <4>1. pc[a] \notin Stopping /\ pc'[a] \notin Stopping \cup {"idle"} /\ waiting' = waiting
        BY <1>t, <3>4, ZenonT(60) DEF StartRegister, StartRecheck, StartAbort, StartSpawn, KillTake, KillSignal,
           Goto, CallerTypes, Stopping
      <4>. QED
        BY <1>t, <1>1, <2>a, <3>u, <4>1 DEF ListedInv
    <3>. QED
      BY <1>3, <2>2, <3>1, <3>2, <3>3, <3>4 DEF OnLaunch
  <2>. QED
    BY <2>1, <2>2
<1>4. ASSUME NEW l \in Launches, OfLaunch(l)
      PROVE  ListedInv'
  <2>1. \A m \in Launches : sup[m] # "idle" => sup'[m] # "idle"
    BY <1>t, <1>4, TaskStays
  <2>2. UNCHANGED <<pc, todo, waiting, processes>>
    BY <1>4, LaunchFrame DEF callerVars
  <2>. QED
    BY <1>t, <2>1, <2>2 DEF ListedInv, CallerTypes, SupervisorTypes
<1>5. ASSUME NEW i \in Ids, Prune(i)
      PROVE  ListedInv'
  <2>1. /\ UNCHANGED <<pc, todo, waiting, sup>>
        /\ processes' = [processes EXCEPT ![i] = NoOne]
    BY <1>5 DEF Prune, launchVars, callerVars
  <2>. QED
    BY <1>t, <2>1 DEF ListedInv, SupervisorTypes
<1>6. ASSUME UNCHANGED vars
      PROVE  ListedInv'
  BY <1>t, <1>6 DEF ListedInv, vars, launchVars, callerVars
<1>. QED
  BY <1>2, <1>3, <1>4, <1>5, <1>6, NextShapes

\* Launches, callers and registry agree at the start.
LEMMA LifeInvInit == Init => LifeInv
BY ReasonDomain DEF Init, LifeInv, LaunchInv, StartInv, ListedInv, Alive, Terminal, Starting, Stopping,
   Ending, Over

\* Every step keeps launches, callers and registry in agreement.
LEMMA LifeInvStep == Types /\ LifeInv /\ [Next]_vars => LifeInv'
BY LaunchInvStep, StartInvStep, ListedInvStep DEF LifeInv
\* Types and the life of every launch, in every reachable state.
LEMMA LifeHolds == Spec => [](Types /\ LifeInv)
<1>1. Init => Types /\ LifeInv
  BY TypesInit, LifeInvInit
<1>2. Types /\ LifeInv /\ [Next]_vars => (Types /\ LifeInv)'
  BY TypesStep, LifeInvStep
<1>. QED
  BY <1>1, <1>2, PTL DEF Spec

-----------------------------------------------------------------------------
(* terminate() against every other end *)

\* The reason is published under the lock it was read under, and a process that
\* terminate() found running has the strongest reason from then on.
ReasonInv ==
    \A l \in Launches :
        /\ sup[l] \in DOMAIN Reasons => operation[l] = l
        /\ l \in accepted =>
            /\ intent[l] = "Terminated"
            /\ sup[l] \in DOMAIN Reasons => sup[l] = "Terminated"
            /\ Terminal(l) => state[l] = "Terminated"

\* Every step keeps an accepted termination the one that is published.
LEMMA ReasonInvStep ==
    ASSUME Types, LifeInv, ReasonInv, [Next]_vars
    PROVE  ReasonInv'
<1>t. LaunchTypes /\ LaunchInv /\ DOMAIN Reasons = {"none", "TimedOut", "Cancelled", "Terminated"}
  BY ReasonDomain DEF Types, LifeInv
<1>p. \A i \in Ids : processes[i] \in Launches \cup {NoOne}
  BY DEF Types, SupervisorTypes
<1>1. ASSUME UNCHANGED <<sup, operation, intent, state, accepted>>
      PROVE  ReasonInv'
  BY <1>1 DEF ReasonInv, Terminal
<1>2. ASSUME NEW l \in Launches, NEW r \in DOMAIN Reasons, UNCHANGED <<sup, operation, state, accepted>>,
             intent' = [intent EXCEPT ![l] = Latched(@, r)]
      PROVE  ReasonInv'
  <2>1. \A m \in Launches : intent[m] = "Terminated" => intent'[m] = "Terminated"
    BY <1>t, <1>2, LatchedType DEF LaunchTypes
  <2>. QED
    BY <1>2, <2>1 DEF ReasonInv, Terminal
<1>3. ASSUME NEW a \in Callers, CallerOnly(a)
      PROVE  ReasonInv'
  <2>1. UNCHANGED accepted
    BY <1>3 DEF CallerOnly, StartCall, TerminateSession, Shutdown, StartRefused, StartBroken,
       ShutdownCancel, ShutdownCollect, AwaitDone, AwaitTimeout, SkipEnded, SeeRunning, ghosts
  <2>. QED
    BY <1>1, <1>3, <2>1, CallerFrame DEF launchVars
<1>4. ASSUME NEW a \in Callers, OnLaunch(a)
      PROVE  ReasonInv'
  <2>1. CASE StartRegister(a) \/ StartRecheck(a) \/ StartAbort(a) \/ StartAborted(a)
             \/ \E l \in Launches : StartSpawn(a, l) \/ KillTake(a, l)
    BY <1>1, <2>1 DEF StartRegister, StartRecheck, StartAbort, StartAborted, StartSpawn, KillTake, ghosts
  <2>2. CASE StartInsert(a)
    <3>1. PICK l \in Launches : l = Spawned(a)
      BY <2>2, SpawnedType DEF StartInsert, Starting
    <3>2. /\ state' = [state EXCEPT ![l] = "Running"] /\ sup' = [sup EXCEPT ![l] = "select"]
          /\ UNCHANGED <<operation, intent, accepted>>
      BY <2>2, <3>1 DEF StartInsert, ghosts
    <3>. QED
      BY <1>t, <3>2 DEF ReasonInv, Terminal, LaunchTypes
  <2>3. ASSUME NEW i \in Ids, Terminate(a, i)
        PROVE  ReasonInv'
    <3>1. PICK l \in Launches : l = processes[i]
      BY <1>p, <2>3 DEF Terminate
    <3>2. /\ operation[l] = NoOne /\ ~Terminal(l)
          /\ intent' = [intent EXCEPT ![l] = Latched(@, "Terminated")]
          /\ accepted' = accepted \cup {l}
          /\ UNCHANGED <<operation, state, sup>>
      BY <2>3, <3>1 DEF Terminate
    <3>3. /\ intent'[l] = "Terminated"
          /\ \A m \in Launches : intent[m] = "Terminated" => intent'[m] = "Terminated"
      BY <1>t, <3>2, LatchedType DEF LaunchTypes
    <3>4. sup[l] \notin DOMAIN Reasons
      BY <3>2 DEF ReasonInv
    <3>. QED
      BY <3>2, <3>3, <3>4 DEF ReasonInv, Terminal
  <2>4. ASSUME NEW l \in Launches, KillSignal(a, l)
        PROVE  ReasonInv'
    BY <1>t, <1>2, <2>4 DEF KillSignal
  <2>5. ASSUME NEW l \in Launches, StopSeen(a, l)
        PROVE  ReasonInv'
    BY <1>t, <1>2, <2>5 DEF StopSeen
  <2>. QED
    BY <1>4, <2>1, <2>2, <2>3, <2>4, <2>5 DEF OnLaunch
<1>5. ASSUME NEW l \in Launches, OfLaunch(l)
      PROVE  ReasonInv'
  <2>r. /\ Ready(l) \in DOMAIN Reasons /\ Relatched(l) \in DOMAIN Reasons
        /\ intent[l] = "Terminated" => Relatched(l) = "Terminated"
    BY ReadyType
  <2>u. UNCHANGED accepted
    BY <1>5, LaunchFrame
  <2>1. CASE WaitProbe(l) \/ WaitReap(l) \/ Exit(l) \/ CancelOrTimeout(l)
    BY <1>1, <2>u, <2>1 DEF WaitProbe, WaitReap, Exit, CancelOrTimeout
  <2>2. CASE SuperviseRelease(l) \/ SuperviseScan(l)
    BY <1>t, <2>u, <2>2 DEF SuperviseRelease, SuperviseScan, ReasonInv, Terminal, LaunchTypes
  <2>3. CASE SuperviseStop(l)
    <3>1. \A m \in Launches : intent[m] = "Terminated" => intent'[m] = "Terminated"
      BY <1>t, <2>r, <2>3, LatchedType DEF SuperviseStop, LaunchTypes
    <3>. QED
      BY <1>t, <2>u, <2>3, <3>1 DEF SuperviseStop, ReasonInv, Terminal, LaunchTypes
  <2>4. CASE SuperviseExit(l)
    <3>1. \A m \in Launches : intent[m] = "Terminated" => intent'[m] = "Terminated"
      BY <1>t, <2>r, <2>4 DEF SuperviseExit, LaunchTypes
    <3>. QED
      BY <1>t, <2>u, <2>4, <3>1 DEF SuperviseExit, ReasonInv, Terminal, LaunchTypes
  <2>5. CASE PublishRead(l)
    <3>1. /\ intent' = [intent EXCEPT ![l] = Relatched(l)] /\ sup' = [sup EXCEPT ![l] = Relatched(l)]
          /\ operation' = [operation EXCEPT ![l] = l] /\ UNCHANGED state
      BY <1>t, <2>5 DEF PublishRead, LaunchTypes
    <3>2. ~Terminal(l)
      BY <1>t, <2>5 DEF PublishRead, LaunchInv, Over
    <3>. QED
      BY <1>t, <2>u, <2>r, <3>1, <3>2 DEF ReasonInv, Terminal, LaunchTypes
  <2>6. CASE PublishState(l)
    BY <1>t, <2>u, <2>6 DEF PublishState, ReasonInv, Terminal, LaunchTypes
  <2>. QED
    BY <1>5, <2>1, <2>2, <2>3, <2>4, <2>5, <2>6 DEF OfLaunch, Supervise
<1>. QED
  BY <1>1, <1>3, <1>4, <1>5, NextShapes DEF Prune, vars, launchVars, ghosts

\* A process that terminate() found running ends as Terminated, whatever else
\* ends it: the reason is only ever strengthened, and the reason is read and
\* published under the operation lock that terminate() takes.
THEOREM TerminateAlwaysWins == Spec => []TerminateWins
<1>1. Init => ReasonInv
  BY ReasonDomain DEF Init, ReasonInv
<1>2. Types /\ LifeInv /\ ReasonInv /\ [Next]_vars => ReasonInv'
  BY ReasonInvStep
<1>3. Types /\ ReasonInv => TerminateWins
  BY DEF ReasonInv, TerminateWins, Types, SupervisorTypes
<1>. QED
  BY <1>1, <1>2, <1>3, LifeHolds, PTL DEF Spec
-----------------------------------------------------------------------------
(* Signals and reused process ids *)

Killing == {"kill", "signal"}

\* A lifecycle lock that a shutdown holds is held between its two steps, and a
\* caller holds one lock at a time.
LockInv ==
    /\ \A l \in Launches : lifecycle[l] # NoOne => pc[lifecycle[l]] = "signal"
    /\ \A l, m \in Launches : lifecycle[l] # NoOne /\ lifecycle[l] = lifecycle[m] => l = m

\* With one shutdown there is one caller that kills, and it has not cancelled the
\* supervisor's token yet.
OneShutdownInv ==
    /\ shutdowns = 0 => ~shutdown /\ \A a \in Callers : pc[a] \notin Killing
    /\ shutdowns <= 1 =>
        \A a \in Callers : pc[a] \in Killing =>
            ~shutdown /\ \A b \in Callers : pc[b] \in Killing => b = a

\* With one shutdown a locked or registered child is alive, and one that is taken
\* back was neither locked nor registered when its caller decided so.
SignalInv ==
    shutdowns <= 1 =>
        /\ ~misfired
        /\ \A l \in Launches : lifecycle[l] # NoOne => ~reaped[l] /\ Alive(l)
        /\ \A a \in Callers : pc[a] \in {"register", "abort", "abort_wait"} =>
            \A l \in todo[a] : l \notin active /\ lifecycle[l] = NoOne
        /\ \A l \in active : Alive(l)

\* No step makes the count of shutdowns smaller.
LEMMA ShutdownsGrow ==
    ASSUME Types, [Next]_vars
    PROVE  /\ shutdowns \in Nat /\ shutdowns' \in Nat
           /\ \/ shutdowns' = shutdowns
              \/ shutdowns' = shutdowns + 1 /\
                 \E a \in Callers, returns \in {"now", "after"} : Shutdown(a, returns)
<1>1. shutdowns \in Nat
  BY DEF Types, SupervisorTypes
<1>2. ASSUME NEW a \in Callers, CallerOnly(a)
      PROVE  \/ shutdowns' = shutdowns
             \/ shutdowns' = shutdowns + 1 /\ \E returns \in {"now", "after"} : Shutdown(a, returns)
  BY <1>2 DEF CallerOnly, StartCall, TerminateSession, Shutdown, StartRefused, StartBroken,
     ShutdownCancel, ShutdownCollect, AwaitDone, AwaitTimeout, SkipEnded, SeeRunning, ghosts
<1>3. ASSUME NEW a \in Callers, OnLaunch(a)
      PROVE  shutdowns' = shutdowns
  BY <1>3 DEF OnLaunch, StartRegister, StartRecheck, StartAbort, StartAborted, StartInsert,
     Terminate, StartSpawn, KillTake, KillSignal, StopSeen, ghosts
<1>4. \/ shutdowns' = shutdowns
      \/ shutdowns' = shutdowns + 1 /\
         \E a \in Callers, returns \in {"now", "after"} : Shutdown(a, returns)
  BY <1>2, <1>3, NextShapes, LaunchFrame DEF Prune, vars, ghosts
<1>. QED
  BY <1>1, <1>4

\* Which steps move a caller into, inside or out of a kill.
LEMMA KillSteps ==
    ASSUME Types, NEW a \in Callers, CallerOnly(a) \/ OnLaunch(a)
    PROVE  \/ pc[a] \notin Killing /\ pc'[a] \notin Killing /\ shutdown' = shutdown
              /\ lifecycle' = lifecycle
           \/ \E returns \in {"now", "after"} : Shutdown(a, returns)
           \/ \E l \in Launches : KillTake(a, l) \/ KillSignal(a, l)
           \/ ShutdownCancel(a)
<1>t. CallerTypes
  BY DEF Types
<1>1. CASE CallerOnly(a)
  BY <1>t, <1>1, CallerFrame DEF CallerTypes, CallerOnly, StartCall, TerminateSession, StartRefused,
     StartBroken, ShutdownCollect, AwaitDone, AwaitTimeout, SkipEnded, SeeRunning, Awaits,
     Return, Goto, Killing, Stopping, launchVars
<1>2. CASE OnLaunch(a)
  BY <1>t, <1>2 DEF CallerTypes, OnLaunch, StartRegister, StartRecheck, StartAbort, StartAborted,
     StartInsert, Terminate, StartSpawn, StopSeen, Return, Goto, Killing
<1>. QED
  BY <1>1, <1>2

\* Every step keeps a lifecycle lock with the caller that signals.
LEMMA LockInvStep ==
    ASSUME Types, LockInv, [Next]_vars
    PROVE  LockInv'
<1>t. CallerTypes /\ LaunchTypes
  BY DEF Types
<1>1. ASSUME UNCHANGED <<pc, lifecycle>>
      PROVE  LockInv'
  BY <1>1 DEF LockInv
<1>2. ASSUME NEW a \in Callers, Apart(a), pc[a] # "signal", lifecycle' = lifecycle
      PROVE  LockInv'
  BY <1>t, <1>2 DEF LockInv, Apart, LaunchTypes
<1>3. ASSUME NEW a \in Callers, CallerOnly(a) \/ OnLaunch(a)
      PROVE  LockInv'
  <2>a. Apart(a)
    BY <1>3, OthersWait
  <2>1. CASE pc[a] \notin Killing /\ pc'[a] \notin Killing /\ lifecycle' = lifecycle
    BY <1>2, <2>a, <2>1 DEF Killing
  <2>2. ASSUME NEW returns \in {"now", "after"}, Shutdown(a, returns)
        PROVE  LockInv'
    BY <1>2, <2>a, <2>2 DEF Shutdown, launchVars
  <2>3. CASE ShutdownCancel(a)
    BY <1>2, <2>a, <2>3 DEF ShutdownCancel, launchVars
  <2>4. ASSUME NEW l \in Launches, KillTake(a, l)
        PROVE  LockInv'
    <3>1. CASE lifecycle' = lifecycle
      BY <1>2, <2>a, <2>4, <3>1 DEF KillTake
    <3>2. CASE lifecycle' = [lifecycle EXCEPT ![l] = a] /\ Goto(a, "signal")
      <4>1. pc'[a] = "signal" /\ \A m \in Launches : lifecycle[m] # a
        BY <1>t, <2>4, <3>2 DEF KillTake, Goto, CallerTypes, LockInv
      <4>. QED
        BY <1>t, <2>a, <3>2, <4>1 DEF LockInv, Apart, LaunchTypes
    <3>. QED
      BY <2>4, <3>1, <3>2 DEF KillTake
  <2>5. ASSUME NEW l \in Launches, KillSignal(a, l)
        PROVE  LockInv'
    <3>1. /\ lifecycle[l] = a /\ lifecycle' = [lifecycle EXCEPT ![l] = NoOne]
      BY <2>5 DEF KillSignal
    <3>2. \A m \in Launches : lifecycle[m] = a => m = l
      BY <3>1 DEF LockInv
    <3>. QED
      BY <1>t, <2>a, <3>1, <3>2 DEF LockInv, Apart, LaunchTypes
  <2>. QED
    BY <1>3, <2>1, <2>2, <2>3, <2>4, <2>5, KillSteps
<1>4. ASSUME NEW l \in Launches, OfLaunch(l)
      PROVE  UNCHANGED <<pc, lifecycle>>
  BY <1>4 DEF OfLaunch, Supervise, SuperviseStop, WaitProbe, WaitReap, SuperviseExit, PublishRead,
     PublishState, SuperviseRelease, SuperviseScan, Exit, CancelOrTimeout, callerVars
<1>. QED
  BY <1>1, <1>3, <1>4, NextShapes DEF Prune, vars, launchVars, callerVars

\* Until a second shutdown, one caller kills, before the token is cancelled.
LEMMA OneShutdownStep ==
    ASSUME Types, OneShutdownInv, [Next]_vars
    PROVE  OneShutdownInv'
<1>t. CallerTypes /\ shutdowns \in Nat
  BY DEF Types, SupervisorTypes
<1>1. ASSUME UNCHANGED <<pc, shutdown, shutdowns>>
      PROVE  OneShutdownInv'
  BY <1>1 DEF OneShutdownInv
<1>2. ASSUME NEW a \in Callers, Apart(a), UNCHANGED <<shutdown, shutdowns>>,
             pc'[a] \in Killing => pc[a] \in Killing
      PROVE  OneShutdownInv'
  BY <1>2 DEF OneShutdownInv, Apart
<1>3. ASSUME NEW a \in Callers, CallerOnly(a) \/ OnLaunch(a)
      PROVE  OneShutdownInv'
  <2>a. Apart(a)
    BY <1>3, OthersWait
  <2>1. ASSUME NEW returns \in {"now", "after"}, Shutdown(a, returns)
        PROVE  OneShutdownInv'
    <3>1. shutdowns' = shutdowns + 1 /\ shutdown' = shutdown
      BY <2>1 DEF Shutdown
    <3>2. shutdowns' # 0 /\ (shutdowns' <= 1 => shutdowns = 0)
      BY <1>t, <3>1
    <3>. QED
      BY <2>a, <3>1, <3>2 DEF OneShutdownInv, Apart
  <2>2. CASE ShutdownCancel(a)
    <3>1. /\ pc[a] \in Killing /\ shutdowns' = shutdowns
          /\ pc'[a] \notin Killing
      BY <1>t, <2>2 DEF ShutdownCancel, Return, Goto, CallerTypes, Killing, ghosts
    <3>2. shutdowns # 0
      BY <3>1 DEF OneShutdownInv
    <3>. QED
      BY <2>a, <3>1, <3>2 DEF OneShutdownInv, Apart
  <2>3. ASSUME NEW l \in Launches, KillTake(a, l) \/ KillSignal(a, l)
        PROVE  OneShutdownInv'
    BY <1>2, <2>a, <2>3 DEF KillTake, KillSignal, Killing, ghosts
  <2>4. CASE /\ pc[a] \notin Killing /\ pc'[a] \notin Killing /\ shutdown' = shutdown
             /\ ~\E returns \in {"now", "after"} : Shutdown(a, returns)
    <3>1. shutdowns' = shutdowns
      BY <1>3, <2>4 DEF CallerOnly, StartCall, TerminateSession, StartRefused, StartBroken,
         ShutdownCancel, ShutdownCollect, AwaitDone, AwaitTimeout, SkipEnded, SeeRunning, ghosts,
         OnLaunch, StartRegister, StartRecheck, StartAbort, StartAborted, StartInsert,
         Terminate, StartSpawn, KillTake, KillSignal, StopSeen
    <3>. QED
      BY <1>2, <2>a, <2>4, <3>1
  <2>. QED
    BY <1>3, <2>1, <2>2, <2>3, <2>4, KillSteps
<1>. QED
  BY <1>1, <1>3, NextShapes, LaunchFrame DEF Prune, vars, callerVars, ghosts
\* A termination of a listed process never signals a child that was reaped: its
\* task marks it under the lock before it is.
LEMMA EntryIsSafe ==
    ASSUME Types, LaunchInv, NEW l \in Launches, sup[l] # "idle", TerminateEntry(l)
    PROVE  misfired' = misfired
<1>1. ~reaped[l] => child[l] # "reaped"
  BY DEF Types, LaunchTypes, LaunchInv, Alive
<1>2. misfired \in BOOLEAN
  BY DEF Types, SupervisorTypes
<1>. QED
  BY <1>1, <1>2 DEF TerminateEntry, Signals

\* Until a second shutdown, a child that is locked or registered is alive.
LEMMA SignalInvStep ==
    ASSUME Types, LifeInv, LockInv, OneShutdownInv, SignalInv, [Next]_vars
    PROVE  SignalInv'
<1>t. CallerTypes /\ LaunchTypes /\ LaunchInv /\ StartInv /\ ListedInv
  BY DEF Types, LifeInv
<1>p. \A i \in Ids : processes[i] \in Launches \cup {NoOne}
  BY DEF Types, SupervisorTypes
<1>s. shutdowns' <= 1 => shutdowns <= 1
  BY ShutdownsGrow
<1>. SUFFICES ASSUME shutdowns' <= 1, shutdowns <= 1
              PROVE  SignalInv'
  BY <1>s DEF SignalInv
<1>i. /\ ~misfired
      /\ \A l \in Launches : lifecycle[l] # NoOne => ~reaped[l] /\ Alive(l)
      /\ \A a \in Callers : pc[a] \in {"register", "abort", "abort_wait"} =>
          \A l \in todo[a] : l \notin active /\ lifecycle[l] = NoOne
      /\ \A l \in active : Alive(l)
  BY DEF SignalInv
<1>1. ASSUME NEW a \in Callers, Apart(a), UNCHANGED <<reaped, active, lifecycle>>, Kin,
             misfired' = misfired, pc'[a] \notin {"register", "abort", "abort_wait"}
      PROVE  SignalInv'
  BY <1>t, <1>i, <1>1 DEF SignalInv, Apart, Kin, Alive, LaunchTypes, CallerTypes
<1>2. ASSUME NEW a \in Callers, CallerOnly(a)
      PROVE  SignalInv'
  <2>a. /\ Apart(a) /\ UNCHANGED <<reaped, active, lifecycle, child>> /\ Kin
    BY <1>2, OthersWait, CallerFrame DEF launchVars, Kin
  <2>m. misfired' = misfired
    BY <1>2 DEF CallerOnly, StartCall, TerminateSession, Shutdown, StartRefused, StartBroken,
       ShutdownCancel, ShutdownCollect, AwaitDone, AwaitTimeout, SkipEnded, SeeRunning, ghosts
  <2>1. CASE StartBroken(a)
    <3>1. pc[a] = "register" /\ todo' = todo
      BY <2>1 DEF StartBroken, Goto
    <3>. QED
      BY <1>t, <1>i, <2>a, <2>m, <3>1 DEF SignalInv, Apart, Alive, CallerTypes
  <2>2. CASE ~StartBroken(a)
    <3>1. pc'[a] \notin Starting
      BY <1>t, <1>2, <2>2 DEF CallerTypes, CallerOnly, StartCall, TerminateSession, Shutdown,
         StartRefused, ShutdownCancel, ShutdownCollect, AwaitDone, AwaitTimeout, SkipEnded, SeeRunning,
         Return, Goto, Starting, Stopping, Awaits
    <3>. QED
      BY <1>1, <2>a, <2>m, <3>1 DEF Starting
  <2>. QED
    BY <2>1, <2>2
<1>3. ASSUME NEW a \in Callers, OnLaunch(a)
      PROVE  SignalInv'
  <2>a. Apart(a)
    BY <1>3, OthersWait
  <2>s. pc[a] \in Starting =>
            /\ Spawned(a) \in Launches /\ Spawned(a) \in todo[a] /\ Alive(Spawned(a))
            /\ \A b \in Callers : b # a => pc[b] \notin Starting
    BY <1>t, SpawnedType DEF StartInv
  <2>1. CASE StartRegister(a)
    <3>1. /\ active' = active \cup {Spawned(a)} /\ UNCHANGED <<child, reaped, lifecycle, misfired>>
          /\ pc'[a] = "recheck" /\ pc[a] \in Starting
      BY <1>t, <2>1 DEF StartRegister, Goto, CallerTypes, Starting, ghosts
    <3>2. \A b \in Callers : pc'[b] \notin {"register", "abort", "abort_wait"}
      BY <2>a, <2>s, <3>1 DEF Apart, Starting
    <3>. QED
      BY <1>i, <2>s, <3>1, <3>2 DEF SignalInv, Alive
  <2>2. CASE StartRecheck(a)
    <3>1. /\ UNCHANGED <<child, reaped, lifecycle, misfired, todo>>
          /\ pc[a] \in Starting
      BY <2>2 DEF StartRecheck, Goto, Starting, ghosts
    <3>2. CASE ~shutdown
      <4>1. active' = active /\ pc'[a] = "insert"
        BY <1>t, <2>2, <3>2 DEF StartRecheck, Goto, CallerTypes
      <4>. QED
        BY <1>1, <2>a, <3>1, <4>1 DEF Kin
    <3>3. CASE shutdown
      <4>1. active' = active \ {Spawned(a)}
        BY <2>2, <3>3 DEF StartRecheck
      <4>2. \A l \in Launches : lifecycle[l] = NoOne
        <5>1. \A b \in Callers : pc[b] # "signal"
          BY <3>3 DEF OneShutdownInv, Killing
        <5>. QED
          BY <1>t, <5>1 DEF LockInv, LaunchTypes
      <4>3. \A l \in todo[a] : l = Spawned(a)
        BY <3>1, SpawnedType
      <4>. QED
        BY <1>t, <1>i, <2>a, <2>s, <3>1, <4>1, <4>2, <4>3 DEF SignalInv, Apart, Alive, CallerTypes,
           Starting
    <3>. QED
      BY <3>2, <3>3
  <2>3. CASE StartAbort(a)
    <3>1. Kin /\ ~misfired'
      <4>1. pc[a] \in Starting /\ Signals(Spawned(a))
        BY <2>3 DEF StartAbort, Starting
      <4>2. child[Spawned(a)] # "reaped"
        BY <2>s, <4>1 DEF Alive
      <4>3. Kin
        BY <2>s, <4>1, SignalKin
      <4>. QED
        BY <1>i, <4>1, <4>2, <4>3 DEF Signals
    <3>2. UNCHANGED <<reaped, lifecycle, active, todo>> /\ pc[a] = "abort"
      BY <2>3 DEF StartAbort, Goto
    <3>. QED
      BY <1>t, <1>i, <2>a, <3>1, <3>2 DEF SignalInv, Apart, Kin, Alive, LaunchTypes, CallerTypes
  <2>4. CASE StartAborted(a)
    <3>1. /\ pc[a] = "abort_wait" /\ child' = [child EXCEPT ![Spawned(a)] = "reaped"]
          /\ UNCHANGED <<reaped, lifecycle, active, misfired>> /\ pc'[a] = "idle"
      BY <1>t, <2>4 DEF StartAborted, Return, CallerTypes, ghosts
    <3>2. Spawned(a) \notin active /\ lifecycle[Spawned(a)] = NoOne
      BY <1>i, <2>s, <3>1 DEF Starting
    <3>3. \A b \in Callers : pc'[b] \notin {"register", "abort", "abort_wait"}
      BY <2>a, <2>s, <3>1 DEF Apart, Starting
    <3>. QED
      BY <1>t, <1>i, <3>1, <3>2, <3>3 DEF SignalInv, Alive, LaunchTypes
  <2>5. CASE StartInsert(a)
    BY <1>t, <1>1, <2>a, <2>5 DEF StartInsert, Return, CallerTypes, Kin, ghosts
  <2>6. ASSUME NEW i \in Ids, Terminate(a, i)
        PROVE  SignalInv'
    <3>1. PICK l \in Launches : l = processes[i] /\ TerminateEntry(l)
      BY <1>p, <2>6 DEF Terminate
    <3>2. sup[l] # "idle"
      BY <1>t, <2>6, <3>1 DEF ListedInv, Terminate
    <3>3. Kin /\ misfired' = misfired
      BY <1>t, <3>1, <3>2, EntryKin, EntryIsSafe
    <3>4. UNCHANGED <<reaped, lifecycle, active>> /\ pc'[a] = "terminate"
      BY <1>t, <2>6 DEF Terminate, CallerTypes
    <3>. QED
      BY <1>1, <2>a, <3>3, <3>4
  <2>7. ASSUME NEW l \in Launches, StartSpawn(a, l)
        PROVE  SignalInv'
    <3>1. /\ child[l] = "none" /\ child' = [child EXCEPT ![l] = "running"] /\ gate = NoOne
          /\ todo'[a] = {l} /\ UNCHANGED <<reaped, lifecycle, active, misfired>>
      BY <1>t, <2>7 DEF StartSpawn, CallerTypes, ghosts
    <3>2. l \notin active /\ lifecycle[l] = NoOne
      BY <1>i, <3>1 DEF Alive
    <3>3. \A b \in Callers : b # a => pc'[b] \notin {"register", "abort", "abort_wait"}
      BY <1>t, <2>a, <3>1 DEF Apart, StartInv, Starting
    <3>. QED
      BY <1>t, <1>i, <3>1, <3>2, <3>3 DEF SignalInv, Alive, LaunchTypes
  <2>8. ASSUME NEW l \in Launches, KillTake(a, l)
        PROVE  SignalInv'
    <3>1. /\ UNCHANGED <<child, reaped, active, misfired>> /\ pc[a] = "kill"
          /\ pc'[a] \in Killing
      BY <1>t, <2>8 DEF KillTake, Goto, CallerTypes, Killing, ghosts
    <3>2. CASE lifecycle' = lifecycle
      BY <1>1, <2>a, <3>1, <3>2 DEF Kin, Killing
    <3>3. CASE ~reaped[l] /\ l \in active /\ lifecycle' = [lifecycle EXCEPT ![l] = a]
      BY <1>t, <1>i, <2>a, <3>1, <3>3 DEF SignalInv, Alive, LaunchTypes, CallerTypes, Apart, Killing
    <3>. QED
      BY <2>8, <3>2, <3>3 DEF KillTake
  <2>9. ASSUME NEW l \in Launches, KillSignal(a, l)
        PROVE  SignalInv'
    <3>1. /\ lifecycle[l] = a /\ lifecycle' = [lifecycle EXCEPT ![l] = NoOne] /\ Signals(l)
          /\ UNCHANGED <<reaped, active>> /\ pc'[a] = "kill"
      BY <1>t, <2>9 DEF KillSignal, CallerTypes
    <3>2. child[l] # "reaped"
      BY <1>i, <3>1 DEF Alive
    <3>3. ~misfired' /\ Kin
      BY <1>i, <3>1, <3>2, SignalKin DEF Signals
    <3>. QED
      BY <1>t, <1>i, <2>a, <3>1, <3>3 DEF SignalInv, Alive, Kin, LaunchTypes, CallerTypes, Apart
  <2>10. ASSUME NEW l \in Launches, StopSeen(a, l)
         PROVE  SignalInv'
    <3>1. sup[l] # "idle" /\ TerminateEntry(l)
      BY <1>t, <2>10 DEF StopSeen, ListedInv, Stopping
    <3>2. Kin /\ misfired' = misfired
      BY <1>t, <3>1, EntryKin, EntryIsSafe
    <3>3. UNCHANGED <<reaped, lifecycle, active, pc>> /\ pc[a] \in Stopping
      BY <2>10 DEF StopSeen, Stopping
    <3>. QED
      BY <1>1, <2>a, <3>2, <3>3 DEF Stopping
  <2>. QED
    BY <1>3, <2>1, <2>2, <2>3, <2>4, <2>5, <2>6, <2>7, <2>8, <2>9, <2>10 DEF OnLaunch
<1>4. ASSUME NEW l \in Launches, OfLaunch(l)
      PROVE  SignalInv'
  <2>u. UNCHANGED <<pc, todo>>
    BY <1>4, LaunchFrame DEF callerVars
  <2>1. ASSUME UNCHANGED <<reaped, lifecycle, misfired>>, active' \subseteq active,
               \A m \in Launches : Alive(m) => Alive(m)'
        PROVE  SignalInv'
    BY <1>t, <1>i, <2>u, <2>1 DEF SignalInv, CallerTypes, LaunchTypes
  <2>2. CASE SuperviseStop(l)
    <3>1. Kin /\ misfired' = misfired
      BY <1>t, <2>2, EntryKin, EntryIsSafe DEF SuperviseStop
    <3>. QED
      BY <2>1, <2>2, <3>1 DEF SuperviseStop, Kin, Alive
  <2>3. CASE WaitProbe(l)
    BY <1>t, <1>i, <2>u, <2>3 DEF WaitProbe, SignalInv, Alive, CallerTypes, LaunchTypes, ghosts
  <2>4. CASE WaitReap(l)
    <3>1. l \notin active /\ lifecycle[l] = NoOne
      BY <1>t, <1>i, <2>4 DEF WaitReap, LaunchInv
    <3>. QED
      BY <1>t, <1>i, <2>u, <2>4, <3>1 DEF WaitReap, SignalInv, Alive, CallerTypes, LaunchTypes, ghosts
  <2>5. CASE Exit(l)
    BY <1>t, <2>1, <2>5 DEF Exit, Alive, LaunchTypes, ghosts
  <2>6. CASE \/ SuperviseExit(l) \/ PublishRead(l) \/ PublishState(l) \/ SuperviseRelease(l)
             \/ SuperviseScan(l) \/ CancelOrTimeout(l)
    BY <2>1, <2>6 DEF SuperviseExit, PublishRead, PublishState, SuperviseRelease, SuperviseScan,
       CancelOrTimeout, Alive, ghosts
  <2>. QED
    BY <1>4, <2>2, <2>3, <2>4, <2>5, <2>6 DEF OfLaunch, Supervise
<1>5. ASSUME UNCHANGED <<pc, todo, reaped, lifecycle, active, child, misfired>>
      PROVE  SignalInv'
  BY <1>i, <1>5 DEF SignalInv, Alive
<1>. QED
  BY <1>2, <1>3, <1>4, <1>5, NextShapes DEF Prune, vars, launchVars, callerVars, ghosts

\* A signal can only reach the id of a reaped child when a second shutdown began:
\* the first holds a lifecycle lock that the start of the child does not take,
\* and only another shutdown can make that start take its child back meanwhile.
THEOREM StaleSignalTakesTwo == Spec => [](misfired => shutdowns >= 2)
<1>1. Init => LockInv /\ OneShutdownInv /\ SignalInv
  BY DEF Init, LockInv, OneShutdownInv, SignalInv, Killing
<1>2. Types /\ LifeInv /\ LockInv /\ OneShutdownInv /\ SignalInv /\ [Next]_vars
        => (LockInv /\ OneShutdownInv /\ SignalInv)'
  BY LockInvStep, OneShutdownStep, SignalInvStep
<1>3. Types /\ SignalInv => (misfired => shutdowns >= 2)
  BY DEF SignalInv, Types, SupervisorTypes
<1>. QED
  BY <1>1, <1>2, <1>3, LifeHolds, PTL DEF Spec

\* As long as shutdown and shutdown_and_wait are called once between them, no
\* signal of any call reaches the id of a child that was reaped.
THEOREM SignalsAreOurs == MaxShutdowns <= 1 => (Spec => []NoStaleSignal)
<1>. SUFFICES ASSUME MaxShutdowns <= 1 PROVE Spec => []NoStaleSignal
  OBVIOUS
<1>1. Init => shutdowns <= MaxShutdowns
  BY DEF Init
<1>2. Types /\ shutdowns <= MaxShutdowns /\ [Next]_vars => (shutdowns <= MaxShutdowns)'
  BY ShutdownsGrow DEF Shutdown
<1>3. Types /\ (misfired => shutdowns >= 2) /\ shutdowns <= MaxShutdowns => NoStaleSignal
  BY DEF NoStaleSignal, Types, SupervisorTypes
<1>. QED
  BY <1>1, <1>2, <1>3, LifeHolds, StaleSignalTakesTwo, PTL DEF Spec
-----------------------------------------------------------------------------
(* An answer that all has ended *)

\* A living child is in the hands of the caller that starts it, or is listed.
KeptInv ==
    \A l \in Launches : Alive(l) =>
        \/ \E a \in Callers : pc[a] \in Starting /\ l \in todo[a]
        \/ \E i \in Ids : processes[i] = l

\* What shutdown_and_wait has collected covers every living child, and no start
\* is in flight any more; so when it has returned Ok nothing lives.
CloseInv ==
    /\ \A a \in Callers :
        /\ pc[a] \in {"gate", "close"} => shutdown
        /\ pc[a] = "close" =>
            /\ \A l \in Launches : Alive(l) => l \in todo[a] \cup waiting[a]
            /\ \A b \in Callers : pc[b] \notin Starting
    /\ closed =>
        /\ shutdown
        /\ \A l \in Launches : ~Alive(l)
        /\ \A b \in Callers : pc[b] \notin Starting

\* A child comes to life only when a caller spawns it.
LEMMA AliveShrinks ==
    ASSUME Types, LifeInv, [Next]_vars, NEW l \in Launches, Alive(l)'
    PROVE  Alive(l) \/ \E a \in Callers : StartSpawn(a, l)
<1>t. LaunchTypes /\ LaunchInv
  BY DEF Types, LifeInv
<1>. USE DEF Alive, LaunchTypes
<1>k. ASSUME Kin PROVE Alive(l)
  BY <1>k DEF Kin
<1>u. ASSUME UNCHANGED child PROVE Alive(l)
  BY <1>u
<1>1. ASSUME NEW a \in Callers, OnLaunch(a)
      PROVE  Alive(l) \/ StartSpawn(a, l)
  <2>1. CASE StartRegister(a) \/ StartRecheck(a) \/ StartInsert(a) \/ \E m \in Launches : KillTake(a, m)
    BY <1>u, <2>1 DEF StartRegister, StartRecheck, StartInsert, KillTake
  <2>2. CASE StartAbort(a)
    BY <1>k, <2>2, SpawnedType, SignalKin DEF StartAbort, Starting
  <2>3. CASE StartAborted(a)
    BY <1>t, <2>3 DEF StartAborted
  <2>4. ASSUME NEW i \in Ids, Terminate(a, i)
        PROVE  Alive(l)
    <3>1. PICK m \in Launches : m = processes[i] /\ TerminateEntry(m)
      BY <2>4 DEF Terminate, Types, SupervisorTypes
    <3>. QED
      BY <1>k, <3>1, EntryKin
  <2>5. ASSUME NEW m \in Launches, StartSpawn(a, m)
        PROVE  Alive(l) \/ StartSpawn(a, l)
    BY <1>t, <2>5 DEF StartSpawn
  <2>6. ASSUME NEW m \in Launches, KillSignal(a, m) \/ StopSeen(a, m)
        PROVE  Alive(l)
    BY <1>k, <2>6, EntryKin, SignalKin DEF KillSignal, StopSeen
  <2>. QED
    BY <1>1, <2>1, <2>2, <2>3, <2>4, <2>5, <2>6 DEF OnLaunch
<1>2. ASSUME NEW m \in Launches, OfLaunch(m)
      PROVE  Alive(l)
  <2>1. CASE SuperviseStop(m)
    BY <1>k, <2>1, EntryKin DEF SuperviseStop
  <2>2. CASE ~SuperviseStop(m)
    BY <1>t, <1>2, <2>2 DEF OfLaunch, Supervise, WaitProbe, WaitReap, SuperviseExit, PublishRead,
       PublishState, SuperviseRelease, SuperviseScan, Exit, CancelOrTimeout
  <2>. QED
    BY <2>1, <2>2
<1>. QED
  BY <1>u, <1>1, <1>2, NextShapes, CallerFrame DEF Prune, vars, launchVars

\* A caller comes to hold a child only by spawning it, and holds it until it is
\* reaped or listed.
LEMMA StartingChanges ==
    ASSUME Types, [Next]_vars, NEW a \in Callers
    PROVE  \/ /\ pc[a] \in Starting <=> pc'[a] \in Starting
              /\ pc[a] \in Starting => todo'[a] = todo[a] /\ arg'[a] = arg[a]
           \/ \E l \in Launches : StartSpawn(a, l)
           \/ StartAborted(a) \/ StartInsert(a)
<1>t. CallerTypes
  BY DEF Types
<1>1. ASSUME NEW b \in Callers, CallerOnly(b) \/ OnLaunch(b), b # a
      PROVE  pc'[a] = pc[a] /\ todo'[a] = todo[a] /\ arg'[a] = arg[a]
  BY <1>1, OthersWait DEF Apart
<1>2. CASE CallerOnly(a)
  BY <1>t, <1>2 DEF CallerTypes, CallerOnly, StartCall, TerminateSession, Shutdown, StartBroken,
     StartRefused, ShutdownCancel, ShutdownCollect, AwaitDone, AwaitTimeout, SkipEnded, SeeRunning,
     Return, Goto, Starting, Stopping, Awaits
<1>3. CASE OnLaunch(a)
  BY <1>t, <1>3, ZenonT(60) DEF CallerTypes, OnLaunch, StartRegister, StartRecheck, StartAbort,
     Terminate, KillTake, KillSignal, StopSeen, Goto, Starting, Stopping
<1>4. CASE UNCHANGED callerVars
  BY <1>4 DEF callerVars
<1>. QED
  BY <1>1, <1>2, <1>3, <1>4, NextShapes, LaunchFrame DEF Prune, vars

\* Every step keeps a living child with its starter or in the list.
LEMMA KeptInvStep ==
    ASSUME Types, LifeInv, KeptInv, [Next]_vars
    PROVE  KeptInv'
<1>t. CallerTypes /\ LaunchTypes /\ SupervisorTypes /\ LaunchInv /\ StartInv
  BY DEF Types, LifeInv
<1>. SUFFICES ASSUME NEW l \in Launches, Alive(l)'
              PROVE  \/ \E a \in Callers : pc'[a] \in Starting /\ l \in todo'[a]
                     \/ \E i \in Ids : processes'[i] = l
  BY DEF KeptInv
<1>1. ASSUME NEW a \in Callers, StartSpawn(a, l)
      PROVE  pc'[a] \in Starting /\ l \in todo'[a]
  BY <1>t, <1>1 DEF StartSpawn, CallerTypes, Starting
<1>2. ASSUME NEW a \in Callers, pc[a] \in Starting, l \in todo[a], Alive(l)
      PROVE  \/ pc'[a] \in Starting /\ l \in todo'[a]
             \/ \E i \in Ids : processes'[i] = l
  <2>0. l = Spawned(a)
    BY <1>2, SpawnedType
  <2>1. CASE StartAborted(a)
    BY <1>t, <2>0, <2>1 DEF StartAborted, LaunchTypes, Alive
  <2>2. CASE StartInsert(a)
    <3>1. arg[a] \in Ids /\ processes' = [processes EXCEPT ![arg[a]] = l]
      BY <1>t, <1>2, <2>0, <2>2 DEF StartInsert, CallerTypes
    <3>. QED
      BY <1>t, <3>1 DEF SupervisorTypes
  <2>3. ~\E m \in Launches : StartSpawn(a, m)
    BY <1>2 DEF StartSpawn, Starting
  <2>. QED
    BY <1>2, <2>1, <2>2, <2>3, StartingChanges
<1>3. ASSUME NEW i \in Ids, processes[i] = l, Alive(l)
      PROVE  \E j \in Ids : processes'[j] = l
  <2>1. ASSUME NEW a \in Callers, StartInsert(a)
        PROVE  processes'[i] = l
    <3>1. arg[a] \in Ids /\ processes' = [processes EXCEPT ![arg[a]] = Spawned(a)]
      BY <1>t, <2>1 DEF StartInsert, CallerTypes, Starting
    <3>2. arg[a] # i
      BY <1>t, <1>3, <2>1 DEF StartInsert, StartInv, Starting
    <3>. QED
      BY <1>t, <1>3, <3>1, <3>2 DEF SupervisorTypes
  <2>2. ASSUME NEW j \in Ids, Prune(j)
        PROVE  processes'[i] = l
    <3>1. processes[j] # l
      BY <1>t, <1>3, <2>2 DEF Prune, LaunchInv, Ending, Over, Alive
    <3>. QED
      BY <1>t, <1>3, <2>2, <3>1 DEF Prune, SupervisorTypes
  <2>3. ASSUME NEW a \in Callers, OnLaunch(a), ~StartInsert(a)
        PROVE  processes' = processes
    BY <2>3 DEF OnLaunch, StartRegister, StartRecheck, StartAbort, StartAborted, Terminate,
       StartSpawn, KillTake, KillSignal, StopSeen
  <2>. QED
    BY <1>3, <2>1, <2>2, <2>3, NextShapes, CallerFrame, LaunchFrame DEF vars
<1>. QED
  BY <1>1, <1>2, <1>3, AliveShrinks DEF KeptInv
\* Once the token is cancelled it stays so; nothing is spawned under it.
LEMMA ShutdownStays ==
    ASSUME Types, LifeInv, [Next]_vars, shutdown
    PROVE  /\ shutdown'
           /\ \A l \in Launches : Alive(l)' => Alive(l)
           /\ \A a \in Callers : pc'[a] \in Starting => pc[a] \in Starting
<1>t. CallerTypes
  BY DEF Types
<1>1. shutdown'
  <2>1. ASSUME NEW a \in Callers, CallerOnly(a)
        PROVE  shutdown'
    BY <2>1 DEF CallerOnly, StartCall, TerminateSession, Shutdown, StartBroken,
       StartRefused, ShutdownCancel, ShutdownCollect, AwaitDone, AwaitTimeout, SkipEnded, SeeRunning
  <2>2. ASSUME NEW a \in Callers, OnLaunch(a)
        PROVE  shutdown'
    BY <2>2 DEF OnLaunch, StartRegister, StartRecheck, StartAbort, StartAborted, StartInsert,
       Terminate, StartSpawn, KillTake, KillSignal, StopSeen
  <2>. QED
    BY <2>1, <2>2, NextShapes, LaunchFrame DEF Prune, vars
<1>2. \A a \in Callers, l \in Launches : ~StartSpawn(a, l)
  BY DEF StartSpawn, MayStart
<1>3. \A l \in Launches : Alive(l)' => Alive(l)
  BY <1>2, AliveShrinks
<1>4. ASSUME NEW a \in Callers, pc'[a] \in Starting
      PROVE  pc[a] \in Starting
  <2>1. ~StartAborted(a) /\ ~StartInsert(a)
    BY <1>t, <1>4 DEF StartAborted, StartInsert, Return, CallerTypes, Starting
  <2>. QED
    BY <1>2, <1>4, <2>1, StartingChanges
<1>. QED
  BY <1>1, <1>3, <1>4

\* How a caller comes to collect and wait for the end of everything.
LEMMA CloseSteps ==
    ASSUME Types, NEW a \in Callers, CallerOnly(a) \/ OnLaunch(a)
    PROVE  /\ pc'[a] = "gate" => ShutdownCancel(a)
           /\ pc'[a] = "close" =>
                \/ ShutdownCollect(a)
                \/ pc[a] = "close" /\ todo[a] \cup waiting[a] \subseteq todo'[a] \cup waiting'[a]
           /\ closed' # closed => pc[a] = "close" /\ AwaitDone(a)
<1>t. CallerTypes
  BY DEF Types
<1>1. CASE CallerOnly(a)
  <2>1. ASSUME NEW l \in Launches, SkipEnded(a, l)
        PROVE  /\ pc' = pc /\ closed' = closed /\ pc[a] \in {"session", "close"}
               /\ pc[a] = "close" => todo[a] \cup waiting[a] \subseteq todo'[a] \cup waiting'[a]
    BY <1>t, <2>1 DEF SkipEnded, CallerTypes, ghosts
  <2>2. ASSUME NEW l \in Launches, SeeRunning(a, l)
        PROVE  /\ pc' = pc /\ closed' = closed /\ pc[a] \in {"session", "close"}
               /\ pc[a] = "close" => todo[a] \cup waiting[a] \subseteq todo'[a] \cup waiting'[a]
    BY <1>t, <2>2 DEF SeeRunning, CallerTypes, ghosts
  <2>3. CASE AwaitDone(a)
    <3>1. pc'[a] = "idle"
      BY <1>t, <2>3 DEF AwaitDone, Return, CallerTypes
    <3>2. closed \in BOOLEAN /\ closed' = (closed \/ pc[a] = "close")
      BY <2>3 DEF AwaitDone, Types, SupervisorTypes
    <3>. QED
      BY <2>3, <3>1, <3>2
  <2>4. CASE ~AwaitDone(a) /\ ~\E l \in Launches : SkipEnded(a, l) \/ SeeRunning(a, l)
    BY <1>t, <1>1, <2>4 DEF CallerTypes, CallerOnly, StartCall, TerminateSession, Shutdown, StartBroken,
       StartRefused, ShutdownCancel, ShutdownCollect, AwaitTimeout, Return, Goto, ghosts
  <2>. QED
    BY <2>1, <2>2, <2>3, <2>4
<1>2. CASE OnLaunch(a)
  <2>1. ASSUME NEW l \in Launches, StopSeen(a, l)
        PROVE  /\ pc' = pc /\ closed' = closed /\ pc[a] \in {"session", "close"}
               /\ pc[a] = "close" => todo[a] \cup waiting[a] \subseteq todo'[a] \cup waiting'[a]
    BY <1>t, <2>1 DEF StopSeen, CallerTypes
  <2>2. CASE ~\E l \in Launches : StopSeen(a, l)
    BY <1>t, <1>2, <2>2, ZenonT(60) DEF CallerTypes, OnLaunch, StartRegister, StartRecheck, StartAbort, StartAborted,
       StartInsert, Terminate, StartSpawn, KillTake, KillSignal, Return, Goto, ghosts
  <2>. QED
    BY <2>1, <2>2
<1>. QED
  BY <1>1, <1>2

\* Every step keeps the living children in the list of a closing shutdown.
LEMMA CloseInvStep ==
    ASSUME Types, LifeInv, KeptInv, CloseInv, [Next]_vars
    PROVE  CloseInv'
<1>t. CallerTypes /\ LaunchTypes /\ LaunchInv /\ StartInv
  BY DEF Types, LifeInv
<1>1. ASSUME NEW a \in Callers, pc'[a] = pc[a], todo'[a] = todo[a], waiting'[a] = waiting[a]
      PROVE  /\ pc'[a] \in {"gate", "close"} => shutdown'
             /\ pc'[a] = "close" =>
                /\ \A l \in Launches : Alive(l)' => l \in todo'[a] \cup waiting'[a]
                /\ \A b \in Callers : pc'[b] \notin Starting
  BY <1>1, ShutdownStays DEF CloseInv
<1>2. ASSUME closed' = closed
      PROVE  closed' =>
                /\ shutdown'
                /\ \A l \in Launches : ~Alive(l)'
                /\ \A b \in Callers : pc'[b] \notin Starting
  BY <1>2, ShutdownStays DEF CloseInv
<1>3. ASSUME NEW a \in Callers, CallerOnly(a) \/ OnLaunch(a)
      PROVE  CloseInv'
  <2>a. Apart(a)
    BY <1>3, OthersWait
  <2>1. pc'[a] \in {"gate", "close"} => shutdown'
    <3>1. pc'[a] = "gate" => shutdown'
      BY <1>3, CloseSteps DEF ShutdownCancel
    <3>2. pc'[a] = "close" => shutdown
      BY <1>3, CloseSteps DEF CloseInv, ShutdownCollect
    <3>. QED
      BY <3>1, <3>2, ShutdownStays
  <2>2. ASSUME pc'[a] = "close"
        PROVE  /\ \A l \in Launches : Alive(l)' => l \in todo'[a] \cup waiting'[a]
               /\ \A b \in Callers : pc'[b] \notin Starting
    <3>1. CASE ShutdownCollect(a)
      <4>1. shutdown /\ gate = NoOne /\ todo'[a] = Entries
        BY <1>t, <3>1 DEF ShutdownCollect, CloseInv, CallerTypes
      <4>2. \A b \in Callers : pc[b] \notin Starting
        BY <1>t, <4>1 DEF StartInv
      <4>3. \A l \in Launches : Alive(l) => l \in Entries
        BY <4>2 DEF KeptInv, Entries
      <4>. QED
        BY <4>1, <4>2, <4>3, ShutdownStays
    <3>2. CASE pc[a] = "close" /\ todo[a] \cup waiting[a] \subseteq todo'[a] \cup waiting'[a]
      BY <3>2, ShutdownStays DEF CloseInv
    <3>. QED
      BY <1>3, <2>2, <3>1, <3>2, CloseSteps
  <2>3. CASE pc[a] = "close" /\ AwaitDone(a)
    <3>1. todo[a] = {} /\ \A l \in waiting[a] : Terminal(l)
      BY <2>3 DEF AwaitDone, Awaits
    <3>2. \A l \in waiting[a] : ~Alive(l)
      BY <1>t, <3>1 DEF LaunchInv, Ending, Alive, CallerTypes
    <3>3. /\ shutdown
          /\ \A l \in Launches : ~Alive(l)
          /\ \A b \in Callers : pc[b] \notin Starting
      BY <2>3, <3>1, <3>2 DEF CloseInv
    <3>4. /\ shutdown'
          /\ \A l \in Launches : ~Alive(l)'
          /\ \A b \in Callers : pc'[b] \notin Starting
      BY <3>3, ShutdownStays
    <3>. QED
      BY <3>4 DEF CloseInv
  <2>4. CASE closed' = closed
    BY <1>1, <1>2, <2>a, <2>1, <2>2, <2>4 DEF CloseInv, Apart
  <2>. QED
    BY <1>3, <2>3, <2>4, CloseSteps
<1>4. ASSUME UNCHANGED <<pc, todo, waiting, closed>>
      PROVE  CloseInv'
  BY <1>1, <1>2, <1>4 DEF CloseInv
<1>. QED
  BY <1>3, <1>4, NextShapes, LaunchFrame DEF Prune, vars, callerVars, ghosts

-----------------------------------------------------------------------------
(* terminate_session *)

\* A session is marked once for every call that terminates it.
Marking(s) == {a \in Callers : pc[a] = "session" /\ arg[a] = s}

MarkInv ==
    \A s \in Sessions : IsFiniteSet(Marking(s)) /\ terminating[s] = Cardinality(Marking(s))

\* What terminate_session has collected covers every listed process of its
\* session that has not ended, and no start of the session is in flight.
SessionInv ==
    \A a \in Callers : pc[a] = "session" =>
        /\ \A i \in Ids : SessionOf[i] = arg[a] /\ processes[i] # NoOne =>
            Terminal(processes[i]) \/ processes[i] \in todo[a] \cup waiting[a]
        /\ \A b \in Callers : pc[b] \in Starting => SessionOf[arg[b]] # arg[a]

\* The calls that terminate a session, and when that changes.
LEMMA SessionSteps ==
    ASSUME Types, NEW a \in Callers, CallerOnly(a) \/ OnLaunch(a)
    PROVE  \/ \E s \in Sessions : TerminateSession(a, s)
           \/ pc[a] = "session" /\ (AwaitDone(a) \/ AwaitTimeout(a))
           \/ /\ terminating' = terminating
              /\ pc[a] = "session" <=> pc'[a] = "session"
              /\ pc[a] = "session" =>
                    /\ arg'[a] = arg[a] /\ processes' = processes
                    /\ \A l \in todo[a] \cup waiting[a] : Terminal(l) \/ l \in todo'[a] \cup waiting'[a]
<1>t. CallerTypes
  BY DEF Types
<1>1. CASE CallerOnly(a)
  <2>1. ASSUME NEW l \in Launches, SkipEnded(a, l) \/ SeeRunning(a, l)
        PROVE  /\ terminating' = terminating /\ pc' = pc /\ arg' = arg /\ processes' = processes
               /\ \A m \in todo[a] \cup waiting[a] : Terminal(m) \/ m \in todo'[a] \cup waiting'[a]
    BY <1>t, <2>1 DEF SkipEnded, SeeRunning, CallerTypes
  <2>2. CASE AwaitDone(a) \/ AwaitTimeout(a)
    BY <1>t, <2>2 DEF AwaitDone, AwaitTimeout, Return, Unmarked, CallerTypes
  <2>3. CASE /\ ~AwaitDone(a) /\ ~AwaitTimeout(a)
             /\ ~\E l \in Launches : SkipEnded(a, l) \/ SeeRunning(a, l)
    BY <1>t, <1>1, <2>3 DEF CallerTypes, CallerOnly, StartCall, Shutdown, StartBroken,
       StartRefused, ShutdownCancel, ShutdownCollect, Return, Goto
  <2>. QED
    BY <2>1, <2>2, <2>3
<1>2. CASE OnLaunch(a)
  <2>1. ASSUME NEW l \in Launches, StopSeen(a, l)
        PROVE  /\ terminating' = terminating /\ pc' = pc /\ arg' = arg /\ processes' = processes
               /\ todo[a] \cup waiting[a] \subseteq todo'[a] \cup waiting'[a]
    BY <1>t, <2>1 DEF StopSeen, CallerTypes
  <2>2. CASE ~\E l \in Launches : StopSeen(a, l)
    BY <1>t, <1>2, <2>2 DEF CallerTypes, OnLaunch, StartRegister, StartRecheck, StartAbort, StartAborted,
       StartInsert, Terminate, StartSpawn, KillTake, KillSignal, Return, Goto
  <2>. QED
    BY <2>1, <2>2
<1>. QED
  BY <1>1, <1>2

\* Every step keeps a session marked once per call that terminates it.
LEMMA MarkInvStep ==
    ASSUME Types, MarkInv, [Next]_vars
    PROVE  MarkInv'
<1>t. CallerTypes /\ terminating \in [Sessions -> Int]
  BY DEF Types, SupervisorTypes
<1>. SUFFICES ASSUME NEW s \in Sessions
              PROVE  IsFiniteSet(Marking(s))' /\ terminating'[s] = Cardinality(Marking(s))'
  BY DEF MarkInv
<1>m. IsFiniteSet(Marking(s)) /\ terminating[s] = Cardinality(Marking(s))
  BY DEF MarkInv
<1>1. ASSUME Marking(s)' = Marking(s), terminating'[s] = terminating[s]
      PROVE  IsFiniteSet(Marking(s))' /\ terminating'[s] = Cardinality(Marking(s))'
  BY <1>m, <1>1
<1>2. ASSUME NEW a \in Callers, CallerOnly(a) \/ OnLaunch(a)
      PROVE  IsFiniteSet(Marking(s))' /\ terminating'[s] = Cardinality(Marking(s))'
  <2>a. \A b \in Callers : b # a => pc'[b] = pc[b] /\ arg'[b] = arg[b]
    BY <1>2, OthersWait DEF Apart
  <2>1. ASSUME NEW r \in Sessions, TerminateSession(a, r)
        PROVE  IsFiniteSet(Marking(s))' /\ terminating'[s] = Cardinality(Marking(s))'
    <3>0. /\ pc[a] = "idle" /\ pc'[a] = "session" /\ arg'[a] = r
          /\ terminating' = [terminating EXCEPT ![r] = @ + 1]
      BY <1>t, <2>1 DEF TerminateSession, CallerTypes
    <3>1. CASE r # s
      <4>1. Marking(s)' = Marking(s) /\ terminating'[s] = terminating[s]
        BY <1>t, <2>a, <3>0, <3>1 DEF Marking
      <4>. QED
        BY <1>1, <4>1
    <3>2. CASE r = s
      <4>1. Marking(s)' = Marking(s) \cup {a} /\ a \notin Marking(s)
        BY <2>a, <3>0, <3>2 DEF Marking
      <4>2. terminating'[s] = terminating[s] + 1
        BY <1>t, <3>0, <3>2
      <4>. QED
        BY <1>m, <4>1, <4>2, FS_AddElement
    <3>. QED
      BY <3>1, <3>2
  <2>2. CASE pc[a] = "session" /\ (AwaitDone(a) \/ AwaitTimeout(a))
    <3>0. /\ pc'[a] = "idle" /\ arg[a] \in Sessions
          /\ terminating' = [terminating EXCEPT ![arg[a]] = @ - 1]
      BY <1>t, <2>2 DEF AwaitDone, AwaitTimeout, Return, Unmarked, CallerTypes
    <3>1. CASE arg[a] # s
      <4>1. Marking(s)' = Marking(s) /\ terminating'[s] = terminating[s]
        BY <1>t, <2>a, <3>0, <3>1 DEF Marking
      <4>. QED
        BY <1>1, <4>1
    <3>2. CASE arg[a] = s
      <4>1. Marking(s)' = Marking(s) \ {a} /\ a \in Marking(s)
        BY <2>2, <2>a, <3>0, <3>2 DEF Marking
      <4>2. terminating'[s] = terminating[s] - 1
        BY <1>t, <3>0, <3>2
      <4>. QED
        BY <1>m, <4>1, <4>2, FS_RemoveElement
    <3>. QED
      BY <3>1, <3>2
  <2>3. CASE /\ terminating' = terminating
             /\ pc[a] = "session" <=> pc'[a] = "session"
             /\ pc[a] = "session" => arg'[a] = arg[a]
    <3>1. Marking(s)' = Marking(s)
      BY <2>a, <2>3 DEF Marking
    <3>. QED
      BY <1>1, <2>3, <3>1
  <2>. QED
    BY <1>2, <2>1, <2>2, <2>3, SessionSteps
<1>3. ASSUME UNCHANGED <<pc, arg, terminating>>
      PROVE  IsFiniteSet(Marking(s))' /\ terminating'[s] = Cardinality(Marking(s))'
  BY <1>1, <1>3 DEF Marking
<1>. QED
  BY <1>2, <1>3, NextShapes, LaunchFrame DEF Prune, vars, callerVars
\* What has ended stays so.
LEMMA TerminalStays ==
    ASSUME Types, LifeInv, [Next]_vars, NEW l \in Launches, Terminal(l)
    PROVE  Terminal(l)'
<1>t. LaunchTypes /\ LaunchInv /\ StartInv
  BY DEF Types, LifeInv
<1>u. ASSUME UNCHANGED state PROVE Terminal(l)'
  BY <1>u DEF Terminal
<1>1. ASSUME NEW a \in Callers, OnLaunch(a)
      PROVE  Terminal(l)'
  <2>1. CASE StartInsert(a)
    <3>1. /\ Spawned(a) \in Launches /\ sup[Spawned(a)] = "idle"
          /\ state' = [state EXCEPT ![Spawned(a)] = "Running"]
      BY <1>t, <2>1, SpawnedType DEF StartInsert, Starting, StartInv
    <3>2. l # Spawned(a)
      BY <1>t, <3>1 DEF LaunchInv, Over
    <3>. QED
      BY <1>t, <3>1, <3>2 DEF Terminal, LaunchTypes
  <2>2. CASE ~StartInsert(a)
    BY <1>u, <1>1, <2>2 DEF OnLaunch, StartRegister, StartRecheck, StartAbort, StartAborted, Terminate,
       StartSpawn, KillTake, KillSignal, StopSeen
  <2>. QED
    BY <2>1, <2>2
<1>2. ASSUME NEW m \in Launches, OfLaunch(m)
      PROVE  Terminal(l)'
  <2>1. CASE PublishState(m)
    BY <1>t, <2>1, ReasonDomain DEF PublishState, Terminal, LaunchTypes
  <2>2. CASE ~PublishState(m)
    BY <1>u, <1>2, <2>2 DEF OfLaunch, Supervise, SuperviseStop, WaitProbe, WaitReap, SuperviseExit,
       PublishRead, SuperviseRelease, SuperviseScan, Exit, CancelOrTimeout
  <2>. QED
    BY <2>1, <2>2
<1>. QED
  BY <1>u, <1>1, <1>2, NextShapes, CallerFrame DEF Prune, vars, launchVars

\* The list changes when a start lists its child and when an ended one is forgotten.
LEMMA ListChanges ==
    ASSUME Types, [Next]_vars, NEW i \in Ids, processes'[i] # NoOne
    PROVE  \/ processes'[i] = processes[i]
           \/ \E a \in Callers : StartInsert(a) /\ arg[a] = i
<1>t. CallerTypes /\ SupervisorTypes
  BY DEF Types
<1>1. ASSUME NEW a \in Callers, OnLaunch(a)
      PROVE  processes'[i] = processes[i] \/ (StartInsert(a) /\ arg[a] = i)
  <2>1. CASE StartInsert(a)
    BY <1>t, <2>1 DEF StartInsert, SupervisorTypes
  <2>2. CASE ~StartInsert(a)
    BY <1>1, <2>2 DEF OnLaunch, StartRegister, StartRecheck, StartAbort, StartAborted, Terminate,
       StartSpawn, KillTake, KillSignal, StopSeen
  <2>. QED
    BY <2>1, <2>2
<1>2. ASSUME NEW j \in Ids, Prune(j)
      PROVE  processes'[i] = processes[i]
  BY <1>t, <1>2 DEF Prune, SupervisorTypes
<1>. QED
  BY <1>1, <1>2, NextShapes, CallerFrame, LaunchFrame DEF vars

\* Every step keeps the open processes of a session in the list of who ends it.
LEMMA SessionInvStep ==
    ASSUME Types, LifeInv, MarkInv, SessionInv, [Next]_vars
    PROVE  SessionInv'
<1>t. CallerTypes /\ SupervisorTypes /\ StartInv
  BY DEF Types, LifeInv
<1>. SUFFICES ASSUME NEW a \in Callers, pc'[a] = "session"
              PROVE  /\ \A i \in Ids : SessionOf[i] = arg'[a] /\ processes'[i] # NoOne =>
                          Terminal(processes[i])' \/ processes'[i] \in todo'[a] \cup waiting'[a]
                     /\ \A b \in Callers : pc'[b] \in Starting => SessionOf[arg'[b]] # arg'[a]
  BY DEF SessionInv
<1>1. ASSUME NEW s \in Sessions, TerminateSession(a, s)
      PROVE  /\ \A i \in Ids : SessionOf[i] = arg'[a] /\ processes'[i] # NoOne =>
                  Terminal(processes[i])' \/ processes'[i] \in todo'[a] \cup waiting'[a]
             /\ \A b \in Callers : pc'[b] \in Starting => SessionOf[arg'[b]] # arg'[a]
  <2>1. /\ gate = NoOne /\ processes' = processes /\ arg'[a] = s /\ pc'[a] = "session"
        /\ todo'[a] = {processes[i] : i \in {j \in Ids : SessionOf[j] = s}} \ {NoOne}
    BY <1>t, <1>1 DEF TerminateSession, CallerTypes
  <2>2. \A b \in Callers : pc[b] \notin Starting
    BY <1>t, <2>1 DEF StartInv
  <2>3. \A b \in Callers : pc'[b] \notin Starting
    <3>1. Apart(a)
      BY <1>1, OthersWait DEF CallerOnly
    <3>. QED
      BY <2>1, <2>2, <3>1 DEF Apart, Starting
  <2>. QED
    BY <2>1, <2>3
<1>2. ASSUME pc[a] = "session", arg'[a] = arg[a],
             \A l \in todo[a] \cup waiting[a] : Terminal(l) \/ l \in todo'[a] \cup waiting'[a]
      PROVE  /\ \A i \in Ids : SessionOf[i] = arg'[a] /\ processes'[i] # NoOne =>
                  Terminal(processes[i])' \/ processes'[i] \in todo'[a] \cup waiting'[a]
             /\ \A b \in Callers : pc'[b] \in Starting => SessionOf[arg'[b]] # arg'[a]
  <2>1. ASSUME NEW i \in Ids, SessionOf[i] = arg[a], processes'[i] # NoOne
        PROVE  Terminal(processes[i])' \/ processes'[i] \in todo'[a] \cup waiting'[a]
    <3>1. processes'[i] = processes[i]
      <4>1. ASSUME NEW b \in Callers, StartInsert(b)
            PROVE  arg[b] # i
        BY <1>2, <2>1, <4>1 DEF SessionInv, StartInsert, Starting
      <4>. QED
        BY <2>1, <4>1, ListChanges
    <3>2. PICK l \in Launches : l = processes[i] /\ l = processes'[i]
      BY <1>t, <2>1, <3>1 DEF SupervisorTypes
    <3>3. Terminal(l) \/ l \in todo[a] \cup waiting[a]
      BY <1>2, <2>1, <3>1, <3>2 DEF SessionInv
    <3>4. Terminal(l)' \/ l \in todo'[a] \cup waiting'[a]
      BY <1>2, <3>3, TerminalStays
    <3>. QED
      BY <3>2, <3>4 DEF Terminal
  <2>2. ASSUME NEW b \in Callers, pc'[b] \in Starting
        PROVE  SessionOf[arg'[b]] # arg[a]
    <3>1. CASE pc[b] \in Starting /\ arg'[b] = arg[b]
      BY <1>2, <3>1 DEF SessionInv
    <3>2. ASSUME NEW l \in Launches, StartSpawn(b, l)
          PROVE  SessionOf[arg'[b]] # arg[a]
      <4>1. terminating[SessionOf[arg[b]]] = 0 /\ arg' = arg
        BY <3>2 DEF StartSpawn, MayStart
      <4>2. arg[a] \in Sessions /\ a \in Marking(arg[a])
        BY <1>t, <1>2 DEF CallerTypes, Marking
      <4>3. terminating[arg[a]] # 0
        BY <4>2, FS_EmptySet DEF MarkInv
      <4>. QED
        BY <4>1, <4>3
    <3>3. ~StartAborted(b) /\ ~StartInsert(b)
      BY <1>t, <2>2 DEF StartAborted, StartInsert, Return, CallerTypes, Starting
    <3>. QED
      BY <2>2, <3>1, <3>2, <3>3, StartingChanges
  <2>. QED
    BY <1>2, <2>1, <2>2
<1>3. ASSUME NEW b \in Callers, CallerOnly(b) \/ OnLaunch(b), b # a
      PROVE  pc[a] = "session" /\ arg'[a] = arg[a] /\ todo'[a] = todo[a] /\ waiting'[a] = waiting[a]
  BY <1>3, OthersWait DEF Apart
<1>4. ASSUME CallerOnly(a) \/ OnLaunch(a)
      PROVE  \/ \E s \in Sessions : TerminateSession(a, s)
             \/ /\ pc[a] = "session" /\ arg'[a] = arg[a]
                /\ \A l \in todo[a] \cup waiting[a] : Terminal(l) \/ l \in todo'[a] \cup waiting'[a]
  <2>1. ~AwaitDone(a) /\ ~AwaitTimeout(a)
    BY <1>t DEF AwaitDone, AwaitTimeout, Return, CallerTypes
  <2>. QED
    BY <1>4, <2>1, SessionSteps
<1>5. ASSUME UNCHANGED callerVars
      PROVE  pc[a] = "session" /\ arg'[a] = arg[a] /\ todo'[a] = todo[a] /\ waiting'[a] = waiting[a]
  BY <1>5 DEF callerVars
<1>6. \/ \E s \in Sessions : TerminateSession(a, s)
      \/ /\ pc[a] = "session" /\ arg'[a] = arg[a]
         /\ \A l \in todo[a] \cup waiting[a] : Terminal(l) \/ l \in todo'[a] \cup waiting'[a]
  BY <1>3, <1>4, <1>5, NextShapes, LaunchFrame DEF Prune, vars
<1>. QED
  BY <1>1, <1>2, <1>6

-----------------------------------------------------------------------------
(* The theorems *)

\* Everything but what depends on the number of shutdowns.
EndInv == KeptInv /\ CloseInv /\ MarkInv /\ SessionInv

\* The invariants about the end of a launch hold together.
LEMMA EndHolds == Spec => []EndInv
<1>1. Init => EndInv
  <2>. SUFFICES ASSUME Init PROVE EndInv
    OBVIOUS
  <2>1. KeptInv /\ CloseInv /\ SessionInv
    BY DEF Init, KeptInv, CloseInv, SessionInv, Alive, Starting
  <2>2. \A s \in Sessions : Marking(s) = {} /\ terminating[s] = 0
    BY DEF Init, Marking
  <2>3. MarkInv
    BY <2>2, FS_EmptySet DEF MarkInv
  <2>. QED
    BY <2>1, <2>3 DEF EndInv
<1>2. Types /\ LifeInv /\ EndInv /\ [Next]_vars => EndInv'
  BY KeptInvStep, CloseInvStep, MarkInvStep, SessionInvStep DEF EndInv
<1>. QED
  BY <1>1, <1>2, LifeHolds, PTL DEF Spec

\* Every variable has its type; the count of the calls that terminate a session
\* never falls below zero.
THEOREM TypeCorrect == Spec => []TypeOK
<1>1. Types /\ EndInv => TypeOK
  BY FS_CardinalityType DEF EndInv, MarkInv, TypeOK, Types, SupervisorTypes
<1>. QED
  BY <1>1, LifeHolds, EndHolds, PTL

\* An Ok of shutdown_and_wait means that no child is left and none is started
\* from then on; an Ok of terminate_session that no child of the session is left
\* and no start of the session is in flight: the gate and the marks order every
\* start before the collection, or refuse it.
THEOREM EndIsComplete == Spec => TerminationIsComplete
<1>1. Types /\ LifeInv /\ EndInv /\ (Types /\ EndInv)' /\ [Next]_vars =>
        [/\ CloseLeavesNothing'
         /\ \A a \in Callers : pc[a] = "session" /\ AwaitDone(a) => SessionIsCleared(a)]_vars
  <2>. SUFFICES ASSUME Types, LifeInv, EndInv, Types', EndInv', [Next]_vars
                PROVE  /\ CloseLeavesNothing'
                       /\ \A a \in Callers : pc[a] = "session" /\ AwaitDone(a) => SessionIsCleared(a)
    OBVIOUS
  <2>1. CloseLeavesNothing'
    BY DEF CloseLeavesNothing, EndInv, CloseInv, Alive, Types, LaunchTypes
  <2>2. ASSUME NEW a \in Callers, pc[a] = "session", AwaitDone(a)
        PROVE  SessionIsCleared(a)
    <3>1. todo[a] = {} /\ \A l \in waiting[a] : Terminal(l)
      BY <2>2 DEF AwaitDone, Awaits
    <3>. QED
      BY <2>2, <3>1 DEF SessionIsCleared, EndInv, SessionInv, Starting
  <2>. QED
    BY <2>1, <2>2
<1>. QED
  BY <1>1, LifeHolds, EndHolds, PTL DEF Spec, TerminationIsComplete
=============================================================================
