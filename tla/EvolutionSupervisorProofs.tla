---------------------- MODULE EvolutionSupervisorProofs ----------------------
(***************************************************************************)
(* Proofs about the control plane of self-evolution, for every number of      *)
(* overlapping commands, candidates and epochs: nothing is deployed that did  *)
(* not pass the gate, an epoch moves with its candidate, a rolled-back        *)
(* candidate stays out, and a command that starts repairs what others left.   *)
(***************************************************************************)
EXTENDS EvolutionSupervisor, TLAPS

-----------------------------------------------------------------------------
(* Types *)

Pointed == Releases \cup {NoRelease}
Reconciling == {"log", "preview", "canary", "stable", "reconcile"}
Deploying == {"preview", "canary", "promote", "rollback"}
Acting == {"evaluate", "build", "observation"} \cup Deploying
Steps == {"idle", "ready", "recheck", "set_preview", "start_canary", "promote", "commit",
          "opportunity", "build", "paired", "input", "owner", "stable_owner", "health", "deploy"}
         \cup Reconciling

\* What the release store says a candidate became.
Late == {"Previewing", "Canarying", "Promoted", "RolledBack"}

Snapshots ==
    [status : [Candidates -> CandidateStatus \cup {"none"}], built : SUBSET Candidates,
     log : SUBSET Pointed, preview : Pointed, canary : Pointed, stable : Pointed]

ReleaseTypes == pointers \in [PointerNames -> Pointed] /\ rolledBack \subseteq Pointed

CandidateTypes ==
    /\ status \in [Candidates -> CandidateStatus \cup {"none"}]
    /\ epochOf \in [Candidates -> Epochs \cup {"none"}]
    /\ risk \in [Candidates -> {"low", "high"}]
    /\ tested \subseteq Candidates /\ built \subseteq Candidates
    /\ gates \in [Candidates -> SUBSET Verdicts]
    /\ health \in [Candidates -> SUBSET BOOLEAN]

EpochStatus ==
    {"none", "Generating", "Evaluating", "AwaitingPromotion", "Rejected", "Inconclusive",
     "BuildingRelease", "BudgetExhausted"} \cup Late

EpochRecords ==
    [status : EpochStatus, parent : Pointed, candidates : SUBSET Candidates, holdout : Nat]

EpochTypes == epoch \in [Epochs -> EpochRecords]

\* A command and what it has read go together.
CommandTypes(p) ==
    /\ pc[p] \in Reconciling \cup {"idle", "ready"} => cmd[p] = NoCommand
    /\ pc[p] \in Reconciling => sight[p] \in Snapshots
    /\ cmd[p].name = "bootstrap" => cmd[p].release \in Bootstraps
    /\ cmd[p].name = "observe" => cmd[p].release \in Sources /\ cmd[p].task \in Tasks
    /\ cmd[p].name = "start_epoch" => cmd[p].release \in Releases
    /\ cmd[p].name = "register" =>
        cmd[p].candidate \in Candidates /\ cmd[p].epoch \in Epochs /\ cmd[p].risk \in {"low", "high"}
    /\ cmd[p].name \in Acting => cmd[p].candidate \in Candidates
    /\ cmd[p].name = "observation" => cmd[p].healthy \in BOOLEAN
    /\ cmd[p].name = "evaluate" /\ pc[p] = "commit" =>
        sight[p].verdict \in Verdicts /\ sight[p].queries \in Nat

ProcTypes ==
    /\ pc \in [Procs -> Steps] /\ DOMAIN cmd = Procs /\ DOMAIN sight = Procs
    /\ \A p \in Procs : CommandTypes(p)

LaneTypes ==
    /\ observations \in [Releases -> SUBSET Tasks] /\ opportunities \subseteq Releases
    /\ expired \subseteq Epochs /\ attempts \subseteq Bootstraps /\ overtaken \in BOOLEAN

\* Every variable has its type.
TypeOK == ReleaseTypes /\ CandidateTypes /\ EpochTypes /\ LaneTypes /\ ProcTypes

USE CandidateReleases, NoReleaseAssumption, BudgetAssumption
-----------------------------------------------------------------------------
(* Steps *)

\* The steps of a command that only read, those that change the release store,
\* and those that are transactions of the supervisor's store.
Looks(p) ==
    \/ Stop(p) \/ ReconcileSnapshot(p) \/ ReconcileRead(p) \/ BootstrapRecheck(p)
    \/ EvaluatePaired(p) \/ PromoteOwner(p) \/ PromoteHealth(p) \/ RollbackOwner(p)
    \/ \E b \in Bootstraps : BootstrapCheck(p, b)
    \/ \E r \in Sources, t \in Tasks : ObserveCheck(p, r, t)
    \/ \E r \in Releases : StartEpochStable(p, r)
    \/ \E e \in Epochs, c \in Candidates, level \in {"low", "high"} : RegisterCheck(p, e, c, level)
    \/ \E verdict \in Verdicts, queries \in 1..(MaxHoldout + 1) : EvaluateInput(p, verdict, queries)
    \/ \E c \in Candidates :
        \/ EvaluateCheck(p, c) \/ BuildCheck(p, c) \/ RollbackCheck(p, c)
        \/ \E name \in DOMAIN Before : DeployCheck(p, name, c)
        \/ \E healthy \in BOOLEAN : ObservationCheck(p, c, healthy)

Releasing(p) == BootstrapDeploy(p) \/ DeployRelease(p) \/ RollbackRelease(p)

Commits(p) ==
    \/ ReconcileCommit(p) \/ ObserveCommit(p) \/ StartEpochCommit(p) \/ RegisterCommit(p)
    \/ EvaluateBuild(p) \/ EvaluateCommit(p) \/ BuildCommit(p) \/ DeployCommit(p)
    \/ ObservationCommit(p) \/ EnforceDeadlines(p)

\* A step reads, changes the release store or commits to the control store.
LEMMA NextShapes ==
    ASSUME [Next]_vars
    PROVE  \/ \E p \in Procs : Looks(p) \/ Releasing(p) \/ Commits(p)
           \/ \E e \in Epochs : Expire(e)
           \/ UNCHANGED vars
BY DEF Next, Command, Step, Looks, Releasing, Commits

\* A step that reads leaves both stores alone; one of the release store leaves
\* the supervisor's alone, and the other way round.
LEMMA LooksFrame ==
    ASSUME NEW p \in Procs, Looks(p)
    PROVE  UNCHANGED <<releaseVars, storeVars, expired, overtaken>>
BY DEF Looks, Stop, ReconcileSnapshot, ReconcileRead, BootstrapRecheck, EvaluatePaired, PromoteOwner,
       PromoteHealth, RollbackOwner, BootstrapCheck, ObserveCheck, StartEpochStable, RegisterCheck,
       EvaluateInput, EvaluateCheck, BuildCheck, RollbackCheck, DeployCheck, ObservationCheck, OnlyReads

\* A step on the release store leaves the control store alone.
LEMMA ReleasingFrame ==
    ASSUME NEW p \in Procs, Releasing(p)
    PROVE  UNCHANGED <<storeVars, expired, attempts>>
BY DEF Releasing, BootstrapDeploy, DeployRelease, RollbackRelease

\* A commit to the control store leaves the release store alone.
LEMMA CommitsFrame ==
    ASSUME NEW p \in Procs, Commits(p)
    PROVE  UNCHANGED <<releaseVars, expired, attempts>>
BY DEF Commits, ReconcileCommit, ObserveCommit, StartEpochCommit, RegisterCommit, EvaluateBuild,
       EvaluateCommit, BuildCommit, DeployCommit, ObservationCommit, EnforceDeadlines

-----------------------------------------------------------------------------
(* The processes *)

\* The other processes stay where they are.
Others(p) ==
    /\ pc' = [pc EXCEPT ![p] = pc'[p]] /\ DOMAIN cmd' = Procs /\ DOMAIN sight' = Procs
    /\ \A q \in Procs \ {p} : cmd'[q] = cmd[q] /\ pc'[q] = pc[q] /\ sight'[q] = sight[q]

\* What the four ways to move on do to a process.
LEMMA BeginEffect ==
    ASSUME ProcTypes, NEW p \in Procs, NEW command, NEW step, NEW seen, Begin(p, command, step, seen)
    PROVE  /\ Others(p) /\ pc[p] = "ready"
           /\ cmd'[p] = command /\ pc'[p] = step /\ sight'[p] = seen
BY DEF ProcTypes, Begin, Others

\* A process that goes on keeps its command and what it has read.
LEMMA GotoEffect ==
    ASSUME ProcTypes, NEW p \in Procs, NEW step, Goto(p, step)
    PROVE  /\ Others(p)
           /\ cmd'[p] = cmd[p] /\ pc'[p] = step /\ sight'[p] = sight[p]
BY DEF ProcTypes, Goto, Others

\* A process that reads keeps its command.
LEMMA ReadsEffect ==
    ASSUME ProcTypes, NEW p \in Procs, NEW step, NEW seen, Reads(p, step, seen)
    PROVE  /\ Others(p)
           /\ cmd'[p] = cmd[p] /\ pc'[p] = step /\ sight'[p] = seen
BY DEF ProcTypes, Reads, Others

\* A process that ends forgets its command and what it has read.
LEMMA DoneEffect ==
    ASSUME ProcTypes, NEW p \in Procs, Done(p)
    PROVE  /\ Others(p)
           /\ cmd'[p] = NoCommand /\ pc'[p] = "idle" /\ sight'[p] = NoSight
BY DEF ProcTypes, Done, Others

\* The commands of a process after it has begun one.
LEMMA LooksEffect ==
    ASSUME TypeOK, NEW p \in Procs, Looks(p)
    PROVE  Others(p) /\ pc'[p] \in Steps /\ CommandTypes(p)'
<1>t. ProcTypes /\ CommandTypes(p) /\ ReleaseTypes /\ CandidateTypes
  BY DEF TypeOK, ProcTypes
<1>. USE DEF CommandTypes, Acting, Deploying, Reconciling, Steps
<1>1. CASE Stop(p)
  BY <1>t, <1>1, DoneEffect DEF Stop, NoCommand
<1>2. CASE ReconcileSnapshot(p)
  <2>1. CASE Goto(p, "ready")
    BY <1>t, <1>2, <2>1, GotoEffect DEF ReconcileSnapshot, NoCommand
  <2>2. CASE Reads(p, "log", [status |-> status, built |-> built, log |-> {}, preview |-> NoRelease,
                              canary |-> NoRelease, stable |-> NoRelease])
    <3>1. [status |-> status, built |-> built, log |-> {}, preview |-> NoRelease,
           canary |-> NoRelease, stable |-> NoRelease] \in Snapshots
      BY <1>t DEF Snapshots, CandidateTypes, Pointed
    <3>. QED
      BY <1>t, <1>2, <2>2, <3>1, ReadsEffect DEF ReconcileSnapshot, NoCommand
  <2>. QED
    BY <1>2, <2>1, <2>2 DEF ReconcileSnapshot
<1>3. CASE ReconcileRead(p)
  <2>1. ASSUME NEW seen \in Snapshots, NEW step \in Reconciling, Reads(p, step, seen),
               pc[p] \in Reconciling
        PROVE  Others(p) /\ pc'[p] \in Steps /\ CommandTypes(p)'
    BY <1>t, <2>1, ReadsEffect DEF NoCommand
  <2>2. pc[p] \in Reconciling => sight[p] \in Snapshots
    BY <1>t
  <2>3. \A n \in {"preview", "canary", "stable"} : pointers[n] \in Pointed
    BY <1>t DEF ReleaseTypes, PointerNames
  <2>4. CASE pc[p] = "log" /\ Reads(p, "preview", [sight[p] EXCEPT !.log = rolledBack])
    <3>1. [sight[p] EXCEPT !.log = rolledBack] \in Snapshots
      BY <1>t, <2>2, <2>4 DEF Snapshots, ReleaseTypes
    <3>. QED
      BY <2>1, <2>4, <3>1
  <2>5. CASE pc[p] = "preview" /\ Reads(p, "canary", [sight[p] EXCEPT !.preview = pointers["preview"]])
    <3>1. [sight[p] EXCEPT !.preview = pointers["preview"]] \in Snapshots
      BY <2>2, <2>3, <2>5 DEF Snapshots
    <3>. QED
      BY <2>1, <2>5, <3>1
  <2>6. CASE pc[p] = "canary" /\ Reads(p, "stable", [sight[p] EXCEPT !.canary = pointers["canary"]])
    <3>1. [sight[p] EXCEPT !.canary = pointers["canary"]] \in Snapshots
      BY <2>2, <2>3, <2>6 DEF Snapshots
    <3>. QED
      BY <2>1, <2>6, <3>1
  <2>7. CASE pc[p] = "stable" /\ Reads(p, "reconcile", [sight[p] EXCEPT !.stable = pointers["stable"]])
    <3>1. [sight[p] EXCEPT !.stable = pointers["stable"]] \in Snapshots
      BY <2>2, <2>3, <2>7 DEF Snapshots
    <3>. QED
      BY <2>1, <2>7, <3>1
  <2>. QED
    BY <1>3, <2>4, <2>5, <2>6, <2>7 DEF ReconcileRead
<1>4. CASE BootstrapRecheck(p) \/ EvaluatePaired(p) \/ PromoteOwner(p) \/ PromoteHealth(p)
           \/ RollbackOwner(p)
  <2>1. ASSUME NEW step \in {"set_preview", "input", "health", "deploy", "stable_owner"}, Goto(p, step)
        PROVE  Others(p) /\ pc'[p] \in Steps /\ CommandTypes(p)'
    BY <1>t, <2>1, GotoEffect
  <2>. QED
    BY <1>4, <2>1 DEF BootstrapRecheck, EvaluatePaired, PromoteOwner, PromoteHealth, RollbackOwner
<1>5. ASSUME NEW b \in Bootstraps, BootstrapCheck(p, b)
      PROVE  Others(p) /\ pc'[p] \in Steps /\ CommandTypes(p)'
  BY <1>t, <1>5, BeginEffect DEF BootstrapCheck
<1>6. ASSUME NEW r \in Sources, NEW t \in Tasks, ObserveCheck(p, r, t)
      PROVE  Others(p) /\ pc'[p] \in Steps /\ CommandTypes(p)'
  BY <1>t, <1>6, BeginEffect DEF ObserveCheck
<1>7. ASSUME NEW r \in Releases, StartEpochStable(p, r)
      PROVE  Others(p) /\ pc'[p] \in Steps /\ CommandTypes(p)'
  BY <1>t, <1>7, BeginEffect DEF StartEpochStable
<1>8. ASSUME NEW e \in Epochs, NEW c \in Candidates, NEW level \in {"low", "high"},
             RegisterCheck(p, e, c, level)
      PROVE  Others(p) /\ pc'[p] \in Steps /\ CommandTypes(p)'
  BY <1>t, <1>8, BeginEffect DEF RegisterCheck
<1>9. ASSUME NEW verdict \in Verdicts, NEW queries \in 1..(MaxHoldout + 1),
             EvaluateInput(p, verdict, queries)
      PROVE  Others(p) /\ pc'[p] \in Steps /\ CommandTypes(p)'
  BY <1>t, <1>9, ReadsEffect DEF EvaluateInput, At
<1>10. ASSUME NEW c \in Candidates, EvaluateCheck(p, c) \/ BuildCheck(p, c) \/ RollbackCheck(p, c)
       PROVE  Others(p) /\ pc'[p] \in Steps /\ CommandTypes(p)'
  BY <1>t, <1>10, BeginEffect DEF EvaluateCheck, BuildCheck, RollbackCheck, For
<1>11. ASSUME NEW c \in Candidates, NEW name \in DOMAIN Before, DeployCheck(p, name, c)
       PROVE  Others(p) /\ pc'[p] \in Steps /\ CommandTypes(p)'
  <2>1. name \in {"preview", "canary", "promote"}
    BY <1>11 DEF Before
  <2>. QED
    BY <1>t, <1>11, <2>1, BeginEffect DEF DeployCheck, For
<1>12. ASSUME NEW c \in Candidates, NEW healthy \in BOOLEAN, ObservationCheck(p, c, healthy)
       PROVE  Others(p) /\ pc'[p] \in Steps /\ CommandTypes(p)'
  BY <1>t, <1>12, BeginEffect DEF ObservationCheck
<1>. QED
  BY <1>1, <1>2, <1>3, <1>4, <1>5, <1>6, <1>7, <1>8, <1>9, <1>10, <1>11, <1>12 DEF Looks
\* After a step of either store the command goes on or is over.
LEMMA WritesEffect ==
    ASSUME TypeOK, NEW p \in Procs, Releasing(p) \/ Commits(p)
    PROVE  Others(p) /\ pc'[p] \in Steps /\ CommandTypes(p)'
<1>t. ProcTypes /\ CommandTypes(p)
  BY DEF TypeOK, ProcTypes
<1>. USE DEF CommandTypes, Acting, Deploying, Reconciling, Steps
<1>1. CASE Done(p)
  BY <1>t, <1>1, DoneEffect DEF NoCommand
<1>2. ASSUME NEW step \in {"start_canary", "promote", "paired"}, Goto(p, step)
      PROVE  Others(p) /\ pc'[p] \in Steps /\ CommandTypes(p)'
  BY <1>t, <1>2, GotoEffect
<1>3. ASSUME Goto(p, "commit"), cmd[p].name # "evaluate"
      PROVE  Others(p) /\ pc'[p] \in Steps /\ CommandTypes(p)'
  BY <1>t, <1>3, GotoEffect
<1>4. CASE ReconcileCommit(p)
  <2>1. Reads(p, "ready", NoSight) /\ pc[p] = "reconcile"
    BY <1>4 DEF ReconcileCommit
  <2>. QED
    BY <1>t, <2>1, ReadsEffect DEF NoCommand
<1>5. CASE BootstrapDeploy(p)
  BY <1>1, <1>2, <1>5 DEF BootstrapDeploy
<1>6. CASE DeployRelease(p)
  <2>1. cmd[p].name # "evaluate"
    BY <1>6 DEF DeployRelease, Before
  <2>. QED
    BY <1>3, <1>6, <2>1 DEF DeployRelease
<1>7. CASE RollbackRelease(p)
  BY <1>3, <1>7 DEF RollbackRelease, At
<1>8. CASE EvaluateBuild(p)
  BY <1>2, <1>8 DEF EvaluateBuild
<1>9. CASE \/ ObserveCommit(p) \/ StartEpochCommit(p) \/ RegisterCommit(p)
           \/ EvaluateCommit(p) \/ BuildCommit(p) \/ DeployCommit(p)
           \/ ObservationCommit(p) \/ EnforceDeadlines(p)
  BY <1>1, <1>9 DEF ObserveCommit, StartEpochCommit, RegisterCommit, EvaluateCommit, BuildCommit,
     DeployCommit, ObservationCommit, EnforceDeadlines
<1>. QED
  BY <1>4, <1>5, <1>6, <1>7, <1>8, <1>9 DEF Releasing, Commits

\* Every step keeps the types of the processes.
LEMMA ProcTypesStep ==
    ASSUME TypeOK, [Next]_vars
    PROVE  ProcTypes'
<1>t. ProcTypes
  BY DEF TypeOK
<1>1. ASSUME NEW p \in Procs, Others(p), pc'[p] \in Steps, CommandTypes(p)'
      PROVE  ProcTypes'
  <2>1. \A q \in Procs : CommandTypes(q)'
    BY <1>t, <1>1 DEF ProcTypes, CommandTypes, Others
  <2>2. pc' \in [Procs -> Steps]
    BY <1>t, <1>1 DEF ProcTypes, Others
  <2>. QED
    BY <1>1, <2>1, <2>2 DEF ProcTypes, Others
<1>2. ASSUME UNCHANGED procVars
      PROVE  ProcTypes'
  BY <1>t, <1>2 DEF procVars, ProcTypes, CommandTypes
<1>. QED
  BY <1>1, <1>2, NextShapes, LooksEffect, WritesEffect DEF Expire, vars
-----------------------------------------------------------------------------
(* The stores *)

\* What an operation of the release store leaves in the pointers was there, is
\* the release it names, or is nothing.
LEMMA PointersAfter ==
    ASSUME ReleaseTypes, NEW op \in Operations, NEW r \in Pointed, Deploy(op, r)
    PROVE  /\ pointers' \in [PointerNames -> Pointed]
           /\ \A n \in PointerNames :
                pointers'[n] \in {NoRelease, r} \cup {pointers[m] : m \in PointerNames}
           /\ rolledBack' \subseteq rolledBack \cup {pointers["canary"], pointers["stable"]}
<1>t. pointers \in [PointerNames -> Pointed] /\ rolledBack \subseteq Pointed /\ NoRelease \in Pointed
  BY DEF ReleaseTypes, Pointed
<1>n. PointerNames = {"previous-stable", "stable", "preview", "canary"}
  BY DEF PointerNames
<1>1. pointers' = NextPointers(op, r, pointers)
  BY DEF Deploy
<1>2. pointers' \in [PointerNames -> Pointed]
  BY <1>t, <1>n, <1>1 DEF NextPointers, NoCandidate, Operations
<1>3. \A n \in PointerNames :
        pointers'[n] \in {NoRelease, r} \cup {pointers[m] : m \in PointerNames}
  BY <1>t, <1>n, <1>1 DEF NextPointers, NoCandidate, Operations
<1>4. rolledBack' \subseteq rolledBack \cup {pointers["canary"], pointers["stable"]}
  BY DEF Deploy, Deployment, Allowed, Operations
<1>. QED
  BY <1>2, <1>3, <1>4

\* The operation a process performs, and on which release.
LEMMA ReleasingDeploys ==
    ASSUME TypeOK, NEW p \in Procs, Releasing(p)
    PROVE  \E op \in Operations, r \in Pointed :
              /\ Deploy(op, r)
              /\ \/ cmd[p].name = "bootstrap" /\ r = cmd[p].release
                 \/ cmd[p].name \in Deploying /\ r = cmd[p].candidate
                 \/ cmd[p].name \in Deploying /\ op = "rollback" /\ r = Restored(pointers)
<1>t. CommandTypes(p) /\ ReleaseTypes
  BY DEF TypeOK, ProcTypes
<1>1. CASE BootstrapDeploy(p)
  <2>1. cmd[p].release \in Pointed /\ cmd[p].name = "bootstrap"
    BY <1>t, <1>1 DEF BootstrapDeploy, At, CommandTypes, Pointed
  <2>. QED
    BY <1>1, <2>1 DEF BootstrapDeploy, Operations
<1>2. CASE DeployRelease(p)
  <2>1. cmd[p].name \in {"preview", "canary", "promote"}
    BY <1>2 DEF DeployRelease, Before
  <2>2. OperationOf[cmd[p].name] \in Operations
    BY <2>1 DEF OperationOf, Operations
  <2>3. cmd[p].candidate \in Pointed
    BY <1>t, <2>1 DEF CommandTypes, Acting, Deploying, Pointed
  <2>. QED
    BY <1>2, <2>1, <2>2, <2>3 DEF DeployRelease, Deploying
<1>3. CASE RollbackRelease(p)
  <2>1. cmd[p].name = "rollback" /\ cmd[p].candidate \in Pointed
    BY <1>t, <1>3 DEF RollbackRelease, At, CommandTypes, Acting, Deploying, Pointed
  <2>2. Restored(pointers) \in Pointed
    BY <1>t DEF Restored, ReleaseTypes, PointerNames
  <2>. QED
    BY <1>3, <2>1, <2>2 DEF RollbackRelease, Deploying, Operations
<1>. QED
  BY <1>1, <1>2, <1>3 DEF Releasing

\* Every step keeps the types of the release store.
LEMMA ReleaseTypesStep ==
    ASSUME TypeOK, [Next]_vars
    PROVE  ReleaseTypes'
<1>t. ReleaseTypes
  BY DEF TypeOK
<1>1. ASSUME UNCHANGED releaseVars
      PROVE  ReleaseTypes'
  BY <1>t, <1>1 DEF releaseVars, ReleaseTypes
<1>2. ASSUME NEW p \in Procs, Releasing(p)
      PROVE  ReleaseTypes'
  <2>1. PICK op \in Operations, r \in Pointed : Deploy(op, r)
    BY <1>2, ReleasingDeploys
  <2>2. pointers["canary"] \in Pointed /\ pointers["stable"] \in Pointed
    BY <1>t DEF ReleaseTypes, PointerNames
  <2>. QED
    BY <1>t, <2>1, <2>2, PointersAfter DEF ReleaseTypes
<1>. QED
  BY <1>1, <1>2, NextShapes, LooksFrame, CommitsFrame DEF Expire, vars

\* A reconciliation only writes what the release store says.
LEMMA DesiredIsLate ==
    ASSUME NEW c, NEW seen, Desired(c, seen) # seen.status[c]
    PROVE  Desired(c, seen) \in Late
BY DEF Desired, Late

\* Every step keeps the types of the candidates.
LEMMA CandidateTypesStep ==
    ASSUME TypeOK, [Next]_vars
    PROVE  CandidateTypes'
<1>t. CandidateTypes
  BY DEF TypeOK
<1>1. ASSUME UNCHANGED candidateVars
      PROVE  CandidateTypes'
  BY <1>t, <1>1 DEF candidateVars, CandidateTypes
<1>2. ASSUME NEW p \in Procs, Commits(p)
      PROVE  CandidateTypes'
  <2>c. CommandTypes(p)
    BY DEF TypeOK, ProcTypes
  <2>1. CASE ReconcileCommit(p)
    <3>1. \A c \in Candidates : status'[c] \in Late \cup {status[c]}
      BY <2>1, DesiredIsLate DEF ReconcileCommit
    <3>2. status' \in [Candidates -> CandidateStatus \cup {"none"}]
      BY <1>t, <2>1, <3>1 DEF ReconcileCommit, Late, CandidateStatus, CandidateTypes
    <3>. QED
      BY <1>t, <2>1, <3>2 DEF ReconcileCommit, CandidateTypes
  <2>2. CASE ObserveCommit(p) \/ StartEpochCommit(p) \/ EnforceDeadlines(p)
    BY <1>1, <2>2 DEF ObserveCommit, StartEpochCommit, EnforceDeadlines
  <2>3. CASE RegisterCommit(p)
    BY <1>t, <2>c, <2>3 DEF RegisterCommit, CommandTypes, CandidateTypes, CandidateStatus, At
  <2>4. CASE EvaluateBuild(p)
    BY <1>t, <2>c, <2>4 DEF EvaluateBuild, CommandTypes, CandidateTypes, At, Acting
  <2>5. CASE EvaluateCommit(p)
    <3>1. sight[p].verdict \in Verdicts /\ cmd[p].candidate \in Candidates
      BY <2>c, <2>5 DEF EvaluateCommit, CommandTypes, At, Acting
    <3>2. AfterGate(sight[p].verdict)[1] \in CandidateStatus
      BY <3>1 DEF AfterGate, Verdicts, CandidateStatus
    <3>. QED
      BY <1>t, <2>5, <3>1, <3>2 DEF EvaluateCommit, CandidateTypes
  <2>6. CASE BuildCommit(p)
    BY <1>t, <2>c, <2>6 DEF BuildCommit, Write, CommandTypes, CandidateTypes, CandidateStatus, At, Acting
  <2>7. CASE DeployCommit(p)
    <3>1. StatusAfter[cmd[p].name] \in CandidateStatus
      BY <2>7 DEF DeployCommit, StatusAfter, CandidateStatus
    <3>. QED
      BY <1>t, <2>7, <3>1 DEF DeployCommit, Write, CandidateTypes
  <2>8. CASE ObservationCommit(p)
    BY <1>t, <2>c, <2>8 DEF ObservationCommit, CommandTypes, CandidateTypes, At, Acting
  <2>. QED
    BY <1>2, <2>1, <2>2, <2>3, <2>4, <2>5, <2>6, <2>7, <2>8 DEF Commits
<1>. QED
  BY <1>1, <1>2, NextShapes, LooksFrame, ReleasingFrame DEF Expire, vars, storeVars

\* A transaction on a candidate writes a status into its epoch, if any.
LEMMA EpochWritten ==
    ASSUME EpochTypes, NEW e, NEW s \in EpochStatus,
           epoch' = [epoch EXCEPT ![e].status = s]
    PROVE  EpochTypes'
<1>1. \A f \in Epochs : epoch[f] \in EpochRecords
  BY DEF EpochTypes, EpochRecords
<1>2. \A f \in Epochs : epoch'[f] \in EpochRecords
  BY <1>1 DEF EpochTypes, EpochRecords
<1>. QED
  BY <1>2 DEF EpochTypes, EpochRecords

\* Every step keeps the types of the epochs.
LEMMA EpochTypesStep ==
    ASSUME TypeOK, [Next]_vars
    PROVE  EpochTypes'
<1>t. EpochTypes /\ CandidateTypes
  BY DEF TypeOK
<1>r. \A e \in Epochs : epoch[e] \in EpochRecords
  BY <1>t DEF EpochTypes, EpochRecords
<1>1. ASSUME UNCHANGED epoch
      PROVE  EpochTypes'
  BY <1>t, <1>1 DEF EpochTypes
<1>2. ASSUME NEW p \in Procs, Commits(p)
      PROVE  EpochTypes'
  <2>c. CommandTypes(p)
    BY DEF TypeOK, ProcTypes
  <2>1. CASE ReconcileCommit(p)
    <3>1. \A e \in Epochs : epoch'[e] \in EpochRecords
      <4>. SUFFICES ASSUME NEW e \in Epochs
                    PROVE  epoch'[e] \in EpochRecords
        OBVIOUS
      <4>. DEFINE stale == {c \in sight[p].built : Desired(c, sight[p]) # sight[p].status[c]}
                  mine == {c \in stale : epochOf[c] = e}
                  d == CHOOSE c \in mine : TRUE
      <4>1. epoch'[e] = IF mine = {} THEN epoch[e]
                        ELSE [epoch[e] EXCEPT !.status = Desired(d, sight[p])]
        BY <2>1 DEF ReconcileCommit
      <4>2. CASE mine = {}
        BY <1>r, <4>1, <4>2
      <4>3. CASE mine # {}
        <5>1. d \in stale
          BY <4>3
        <5>2. Desired(d, sight[p]) \in EpochStatus
          BY <5>1, DesiredIsLate DEF EpochStatus
        <5>. QED
          BY <1>r, <4>1, <4>3, <5>2 DEF EpochRecords
      <4>. QED
        BY <4>2, <4>3
    <3>2. DOMAIN epoch' = Epochs /\ epoch' = [e \in Epochs |-> epoch'[e]]
      BY <2>1 DEF ReconcileCommit
    <3>. QED
      BY <3>1, <3>2 DEF EpochTypes, EpochRecords
  <2>2. CASE ObserveCommit(p) \/ EvaluateBuild(p) \/ ObservationCommit(p)
    BY <1>1, <2>2 DEF ObserveCommit, EvaluateBuild, ObservationCommit
  <2>3. CASE StartEpochCommit(p)
    <3>1. cmd[p].release \in Pointed
      BY <2>c, <2>3 DEF StartEpochCommit, At, CommandTypes, Pointed
    <3>2. PICK e \in Epochs :
            epoch' = [epoch EXCEPT ![e].status = "Generating", ![e].parent = cmd[p].release]
      BY <2>3 DEF StartEpochCommit
    <3>3. \A f \in Epochs : epoch'[f] \in EpochRecords
      BY <1>t, <1>r, <3>1, <3>2 DEF EpochTypes, EpochRecords, EpochStatus
    <3>. QED
      BY <1>t, <3>2, <3>3 DEF EpochTypes, EpochRecords
  <2>4. CASE RegisterCommit(p)
    <3>1. cmd[p].candidate \in Candidates /\ cmd[p].epoch \in Epochs
      BY <2>c, <2>4 DEF RegisterCommit, At, CommandTypes
    <3>2. epoch' = [epoch EXCEPT ![cmd[p].epoch].status = "Evaluating",
                                 ![cmd[p].epoch].candidates = @ \cup {cmd[p].candidate}]
      BY <2>4 DEF RegisterCommit
    <3>3. \A f \in Epochs : epoch'[f] \in EpochRecords
      BY <1>t, <1>r, <3>1, <3>2 DEF EpochTypes, EpochRecords, EpochStatus
    <3>. QED
      BY <1>t, <3>2, <3>3 DEF EpochTypes, EpochRecords
  <2>5. CASE EvaluateCommit(p)
    <3>. DEFINE e == epochOf[cmd[p].candidate]
                s == AfterGate(sight[p].verdict)[2]
    <3>1. sight[p].verdict \in Verdicts /\ sight[p].queries \in Nat
      BY <2>c, <2>5 DEF EvaluateCommit, CommandTypes, At, Acting
    <3>2. s \in EpochStatus
      BY <3>1 DEF AfterGate, Verdicts, EpochStatus
    <3>3. epoch' = [epoch EXCEPT ![e].status = s, ![e].holdout = @ + sight[p].queries]
      BY <2>5 DEF EvaluateCommit
    <3>. HIDE DEF e, s
    <3>4. \A f \in Epochs : epoch'[f] \in EpochRecords
      BY <1>t, <1>r, <3>1, <3>2, <3>3 DEF EpochTypes, EpochRecords
    <3>. QED
      BY <1>t, <3>3, <3>4 DEF EpochTypes, EpochRecords
  <2>6. CASE BuildCommit(p)
    <3>1. "BuildingRelease" \in EpochStatus
      BY DEF EpochStatus
    <3>. QED
      BY <1>t, <2>6, <3>1, EpochWritten DEF BuildCommit, Write
  <2>7. CASE DeployCommit(p)
    <3>1. StatusAfter[cmd[p].name] \in EpochStatus
      BY <2>7 DEF DeployCommit, StatusAfter, EpochStatus, Late
    <3>. QED
      BY <1>t, <2>7, <3>1, EpochWritten DEF DeployCommit, Write
  <2>8. CASE EnforceDeadlines(p)
    <3>1. \A f \in Epochs : epoch'[f] \in EpochRecords
      BY <1>r, <2>8 DEF EnforceDeadlines, EpochRecords, EpochStatus
    <3>2. epoch' = [f \in Epochs |-> epoch'[f]]
      BY <2>8 DEF EnforceDeadlines
    <3>. QED
      BY <3>1, <3>2 DEF EpochTypes, EpochRecords
  <2>. QED
    BY <1>2, <2>1, <2>2, <2>3, <2>4, <2>5, <2>6, <2>7, <2>8 DEF Commits
<1>. QED
  BY <1>1, <1>2, NextShapes, LooksFrame, ReleasingFrame DEF Expire, vars, storeVars

\* Every step keeps the types of the learning lane.
LEMMA LaneTypesStep ==
    ASSUME TypeOK, [Next]_vars
    PROVE  LaneTypes'
<1>t. LaneTypes
  BY DEF TypeOK
<1>1. observations' \in [Releases -> SUBSET Tasks] /\ opportunities' \subseteq Releases
  <2>1. ASSUME UNCHANGED lane
        PROVE  observations' \in [Releases -> SUBSET Tasks] /\ opportunities' \subseteq Releases
    BY <1>t, <2>1 DEF lane, LaneTypes
  <2>2. ASSUME NEW p \in Procs, Commits(p)
        PROVE  observations' \in [Releases -> SUBSET Tasks] /\ opportunities' \subseteq Releases
    <3>1. CASE ObserveCommit(p)
      <4>1. cmd[p].release \in Releases /\ cmd[p].task \in Tasks
        BY <3>1 DEF ObserveCommit, At, CommandTypes, TypeOK, ProcTypes
      <4>. QED
        BY <1>t, <3>1, <4>1 DEF ObserveCommit, LaneTypes
    <3>. QED
      BY <2>1, <2>2, <3>1 DEF Commits, ReconcileCommit, StartEpochCommit, RegisterCommit,
         EvaluateBuild, EvaluateCommit, BuildCommit, DeployCommit, ObservationCommit, EnforceDeadlines
  <2>. QED
    BY <2>1, <2>2, NextShapes, LooksFrame, ReleasingFrame DEF Expire, vars, storeVars
<1>2. expired' \subseteq Epochs
  BY <1>t, NextShapes, LooksFrame, ReleasingFrame, CommitsFrame DEF Expire, vars, LaneTypes
<1>3. attempts' \subseteq Bootstraps
  <2>1. ASSUME NEW p \in Procs, Looks(p)
        PROVE  attempts' \subseteq Bootstraps
    BY <1>t, <2>1 DEF LaneTypes, Looks, Stop, ReconcileSnapshot, ReconcileRead, BootstrapRecheck,
       EvaluatePaired, PromoteOwner, PromoteHealth, RollbackOwner, BootstrapCheck, ObserveCheck,
       StartEpochStable, RegisterCheck, EvaluateInput, EvaluateCheck, BuildCheck, RollbackCheck,
       DeployCheck, ObservationCheck, OnlyReads
  <2>. QED
    BY <1>t, <2>1, NextShapes, ReleasingFrame, CommitsFrame DEF Expire, vars, LaneTypes
<1>4. overtaken' \in BOOLEAN
  <2>0. overtaken \in BOOLEAN
    BY <1>t DEF LaneTypes
  <2>1. ASSUME NEW c, NEW checked, NEW s, Overtakes(c, checked, s)
        PROVE  overtaken' \in BOOLEAN
    BY <2>0, <2>1 DEF Overtakes
  <2>2. ASSUME NEW p \in Procs, Releasing(p)
        PROVE  overtaken' \in BOOLEAN
    BY <2>0, <2>1, <2>2 DEF Releasing, BootstrapDeploy, DeployRelease, RollbackRelease
  <2>3. ASSUME NEW p \in Procs, Commits(p)
        PROVE  overtaken' \in BOOLEAN
    BY <2>0, <2>1, <2>3 DEF Commits, ReconcileCommit, ObserveCommit, StartEpochCommit,
       RegisterCommit, EvaluateBuild, EvaluateCommit, BuildCommit, DeployCommit, ObservationCommit,
       EnforceDeadlines
  <2>. QED
    BY <2>0, <2>2, <2>3, NextShapes, LooksFrame DEF Expire, vars
<1>. QED
  BY <1>1, <1>2, <1>3, <1>4 DEF LaneTypes

\* The types hold at the start.
LEMMA TypeInit ==
    ASSUME Init
    PROVE  TypeOK
<1>1. ReleaseTypes
  BY DEF Init, ReleaseTypes, NoPointers, PointerNames, Pointed
<1>2. CandidateTypes
  BY DEF Init, CandidateTypes
<1>3. EpochTypes
  BY DEF Init, EpochTypes, EpochRecords, EpochStatus, Pointed
<1>4. LaneTypes
  BY DEF Init, LaneTypes
<1>5. ProcTypes
  BY DEF Init, ProcTypes, CommandTypes, Steps, Reconciling, Acting, Deploying, NoCommand
<1>. QED
  BY <1>1, <1>2, <1>3, <1>4, <1>5 DEF TypeOK

\* Whatever commands overlap and stop, both stores and the commands keep their
\* types: every command that goes on has what its steps read.
THEOREM TypeCorrect == Spec => []TypeOK
<1>1. TypeOK /\ [Next]_vars => TypeOK'
  BY ReleaseTypesStep, CandidateTypesStep, EpochTypesStep, LaneTypesStep, ProcTypesStep DEF TypeOK
<1>. QED
  BY <1>1, TypeInit, PTL DEF Spec

-----------------------------------------------------------------------------
(* Nothing is deployed that did not pass the gate                              *)
(*                                                                         *)
(* A pointer names a candidate because a command found it built, and it was   *)
(* built because a command found it tested, passed and of low risk.  Those    *)
(* checks are stale when they are used, but what they look at only grows.     *)

BuiltIsVetted ==
    \A c \in built : /\ c \in tested /\ "pass" \in gates[c]
                     /\ risk[c] = "low" /\ status[c] # "none"

PassedIsGated == \A c \in Candidates : status[c] = "Passed" => "pass" \in gates[c]

RegisteredHasEpoch == \A c \in Candidates : status[c] # "none" => epochOf[c] \in Epochs

\* What a command has checked still holds when it acts on it.
CheckedHolds(p) ==
    /\ cmd[p].name \in Acting => status[cmd[p].candidate] # "none"
    /\ cmd[p].name = "build" =>
        /\ cmd[p].candidate \in tested /\ "pass" \in gates[cmd[p].candidate]
        /\ risk[cmd[p].candidate] = "low"
    /\ cmd[p].name \in Deploying => cmd[p].candidate \in built
    /\ pc[p] \in Reconciling => sight[p].built \subseteq built

PointedIsBuilt == \A n \in PointerNames : pointers[n] \in Candidates => pointers[n] \in built

VettedInv ==
    /\ BuiltIsVetted /\ PassedIsGated /\ RegisteredHasEpoch
    /\ \A p \in Procs : CheckedHolds(p)
    /\ PointedIsBuilt

\* What a check looks at is never taken back: a candidate stays registered, with
\* its epoch and risk, tested, gated and built.
Grows ==
    /\ built \subseteq built' /\ tested \subseteq tested'
    /\ \A c \in Candidates :
        /\ gates[c] \subseteq gates'[c]
        /\ status[c] # "none" =>
            status'[c] # "none" /\ risk'[c] = risk[c] /\ epochOf'[c] = epochOf[c]

\* A commit withdraws no registration, gate report or build.
LEMMA CommitsGrow ==
    ASSUME TypeOK, NEW p \in Procs, Commits(p)
    PROVE  Grows
<1>t. CandidateTypes /\ CommandTypes(p)
  BY DEF TypeOK, ProcTypes
<1>1. CASE ReconcileCommit(p)
  <2>1. \A c \in Candidates : status'[c] \in Late \cup {status[c]}
    BY <1>1, DesiredIsLate DEF ReconcileCommit
  <2>. QED
    BY <1>1, <2>1 DEF ReconcileCommit, Grows, Late
<1>2. CASE ObserveCommit(p) \/ StartEpochCommit(p) \/ EnforceDeadlines(p) \/ ObservationCommit(p)
  BY <1>2 DEF ObserveCommit, StartEpochCommit, EnforceDeadlines, ObservationCommit, Grows, candidateVars
<1>3. CASE RegisterCommit(p)
  BY <1>t, <1>3 DEF RegisterCommit, Grows, CandidateTypes
<1>4. CASE EvaluateBuild(p)
  BY <1>4 DEF EvaluateBuild, Grows
<1>5. CASE EvaluateCommit(p)
  <2>1. sight[p].verdict \in Verdicts
    BY <1>t, <1>5 DEF EvaluateCommit, CommandTypes, At
  <2>2. AfterGate(sight[p].verdict)[1] # "none"
    BY <2>1 DEF AfterGate, Verdicts
  <2>. QED
    BY <1>t, <1>5, <2>2 DEF EvaluateCommit, Grows, CandidateTypes
<1>6. CASE BuildCommit(p)
  BY <1>t, <1>6 DEF BuildCommit, Write, Grows, CandidateTypes
<1>7. CASE DeployCommit(p)
  <2>1. StatusAfter[cmd[p].name] # "none"
    BY <1>7 DEF DeployCommit, StatusAfter
  <2>. QED
    BY <1>t, <1>7, <2>1 DEF DeployCommit, Write, Grows, CandidateTypes
<1>. QED
  BY <1>1, <1>2, <1>3, <1>4, <1>5, <1>6, <1>7 DEF Commits

\* No step withdraws a registration, a gate report or a build.
LEMMA StoresGrow ==
    ASSUME TypeOK, [Next]_vars
    PROVE  Grows
<1>1. ASSUME UNCHANGED storeVars
      PROVE  Grows
  BY <1>1 DEF storeVars, candidateVars, Grows
<1>. QED
  BY <1>1, CommitsGrow, NextShapes, LooksFrame, ReleasingFrame DEF Expire, vars

\* What a process has checked stays true until it acts on it.
LEMMA CheckedHoldsStep ==
    ASSUME TypeOK, TypeOK', VettedInv, [Next]_vars
    PROVE  \A p \in Procs : CheckedHolds(p)'
<1>t. ProcTypes /\ CandidateTypes
  BY DEF TypeOK
<1>g. Grows
  BY StoresGrow
<1>0. ASSUME NEW p \in Procs, cmd'[p] = cmd[p],
             pc'[p] \in Reconciling => pc[p] \in Reconciling /\ sight'[p].built = sight[p].built
      PROVE  CheckedHolds(p)'
  <2>1. CommandTypes(p) /\ CheckedHolds(p)
    BY <1>t DEF VettedInv, ProcTypes
  <2>. QED
    BY <1>g, <1>0, <2>1 DEF CheckedHolds, CommandTypes, Grows, Acting, Deploying
<1>n. ASSUME NEW p \in Procs, cmd'[p] = NoCommand, pc'[p] \notin Reconciling
      PROVE  CheckedHolds(p)'
  BY <1>n DEF CheckedHolds, NoCommand, Acting, Deploying
<1>1. ASSUME NEW p \in Procs, Looks(p)
      PROVE  CheckedHolds(p)'
  <2>s. UNCHANGED storeVars
    BY <1>1, LooksFrame
  <2>. USE DEF Acting, Deploying, Reconciling
  <2>1. CASE Stop(p)
    BY <1>t, <1>n, <2>1, DoneEffect DEF Stop
  <2>2. CASE ReconcileSnapshot(p)
    <3>1. CASE Goto(p, "ready")
      BY <1>t, <1>0, <3>1, GotoEffect
    <3>2. CASE Reads(p, "log", [status |-> status, built |-> built, log |-> {}, preview |-> NoRelease,
                                canary |-> NoRelease, stable |-> NoRelease])
      <4>1. cmd'[p] = NoCommand /\ sight'[p].built = built
        BY <1>t, <2>2, <3>2, ReadsEffect DEF ReconcileSnapshot, ProcTypes, CommandTypes
      <4>. QED
        BY <2>s, <4>1 DEF CheckedHolds, NoCommand, storeVars, candidateVars
    <3>. QED
      BY <2>2, <3>1, <3>2 DEF ReconcileSnapshot
  <2>3. CASE ReconcileRead(p)
    <3>1. sight[p] \in Snapshots /\ pc[p] \in Reconciling
      BY <1>t, <2>3 DEF ReconcileRead, ProcTypes, CommandTypes
    <3>2. cmd'[p] = cmd[p] /\ sight'[p].built = sight[p].built
      BY <1>t, <2>3, <3>1, ReadsEffect DEF ReconcileRead, Snapshots
    <3>. QED
      BY <1>0, <3>1, <3>2
  <2>4. CASE BootstrapRecheck(p) \/ EvaluatePaired(p) \/ PromoteOwner(p) \/ PromoteHealth(p)
             \/ RollbackOwner(p)
    <3>1. ASSUME NEW step \in {"set_preview", "input", "health", "deploy", "stable_owner"}, Goto(p, step)
          PROVE  CheckedHolds(p)'
      BY <1>t, <1>0, <3>1, GotoEffect
    <3>. QED
      BY <2>4, <3>1 DEF BootstrapRecheck, EvaluatePaired, PromoteOwner, PromoteHealth, RollbackOwner
  <2>5. ASSUME NEW command, command.name \in {"bootstrap", "observe", "start_epoch", "register"},
               NEW step \in {"recheck", "commit", "opportunity"}, NEW seen, Begin(p, command, step, seen)
        PROVE  CheckedHolds(p)'
    BY <1>t, <2>5, BeginEffect DEF CheckedHolds
  <2>6. ASSUME NEW b \in Bootstraps, BootstrapCheck(p, b)
        PROVE  CheckedHolds(p)'
    BY <2>5, <2>6 DEF BootstrapCheck
  <2>7. ASSUME NEW r \in Sources, NEW t \in Tasks, ObserveCheck(p, r, t)
        PROVE  CheckedHolds(p)'
    BY <2>5, <2>7 DEF ObserveCheck
  <2>8. ASSUME NEW r \in Releases, StartEpochStable(p, r)
        PROVE  CheckedHolds(p)'
    BY <2>5, <2>8 DEF StartEpochStable
  <2>9. ASSUME NEW e \in Epochs, NEW c \in Candidates, NEW level \in {"low", "high"},
               RegisterCheck(p, e, c, level)
        PROVE  CheckedHolds(p)'
    BY <2>5, <2>9 DEF RegisterCheck
  <2>10. ASSUME NEW verdict \in Verdicts, NEW queries \in 1..(MaxHoldout + 1),
                EvaluateInput(p, verdict, queries)
         PROVE  CheckedHolds(p)'
    BY <1>t, <1>0, <2>10, ReadsEffect DEF EvaluateInput
  <2>11. ASSUME NEW c \in Candidates, EvaluateCheck(p, c)
         PROVE  CheckedHolds(p)'
    BY <1>t, <2>s, <2>11, BeginEffect DEF EvaluateCheck, For, CheckedHolds, storeVars, candidateVars
  <2>12. ASSUME NEW c \in Candidates, BuildCheck(p, c)
         PROVE  CheckedHolds(p)'
    <3>1. c \in tested /\ "pass" \in gates[c] /\ risk[c] = "low" /\ status[c] # "none"
      BY <1>t, <2>12 DEF BuildCheck, VettedInv, PassedIsGated, CandidateTypes
    <3>. QED
      BY <1>t, <2>s, <2>12, <3>1, BeginEffect
         DEF BuildCheck, For, CheckedHolds, storeVars, candidateVars
  <2>13. ASSUME NEW c \in Candidates, NEW name \in Deploying, NEW step \in {"owner", "deploy"},
                NEW seen, c \in built, Begin(p, For(name, c), step, seen)
         PROVE  CheckedHolds(p)'
    <3>1. status[c] # "none"
      BY <2>13 DEF VettedInv, BuiltIsVetted
    <3>. QED
      BY <1>t, <2>s, <2>13, <3>1, BeginEffect DEF For, CheckedHolds, storeVars, candidateVars
  <2>14. ASSUME NEW c \in Candidates, RollbackCheck(p, c)
         PROVE  CheckedHolds(p)'
    BY <2>13, <2>14 DEF RollbackCheck
  <2>15. ASSUME NEW c \in Candidates, NEW name \in DOMAIN Before, DeployCheck(p, name, c)
         PROVE  CheckedHolds(p)'
    BY <2>13, <2>15 DEF DeployCheck, Before
  <2>16. ASSUME NEW c \in Candidates, NEW healthy \in BOOLEAN, ObservationCheck(p, c, healthy)
         PROVE  CheckedHolds(p)'
    BY <1>t, <2>s, <2>16, BeginEffect DEF ObservationCheck, CheckedHolds, storeVars, candidateVars
  <2>. QED
    BY <1>1, <2>1, <2>2, <2>3, <2>4, <2>6, <2>7, <2>8, <2>9, <2>10, <2>11, <2>12, <2>14, <2>15, <2>16
       DEF Looks
<1>2. ASSUME NEW p \in Procs, Releasing(p) \/ Commits(p)
      PROVE  CheckedHolds(p)'
  <2>1. CASE Done(p)
    BY <1>t, <1>n, <2>1, DoneEffect DEF Reconciling
  <2>2. ASSUME NEW step \in {"start_canary", "promote", "commit", "paired"}, Goto(p, step)
        PROVE  CheckedHolds(p)'
    BY <1>t, <1>0, <2>2, GotoEffect DEF Reconciling
  <2>3. CASE ReconcileCommit(p)
    BY <1>t, <1>0, <2>3, ReadsEffect DEF ReconcileCommit, Reconciling
  <2>. QED
    BY <1>2, <2>1, <2>2, <2>3 DEF Releasing, Commits, BootstrapDeploy, DeployRelease, RollbackRelease,
       ObserveCommit, StartEpochCommit, RegisterCommit, EvaluateBuild, EvaluateCommit, BuildCommit,
       DeployCommit, ObservationCommit, EnforceDeadlines
<1>3. ASSUME NEW p \in Procs, CheckedHolds(p)', Others(p)
      PROVE  \A q \in Procs : CheckedHolds(q)'
  BY <1>0, <1>3 DEF Others
<1>4. ASSUME UNCHANGED procVars
      PROVE  \A q \in Procs : CheckedHolds(q)'
  BY <1>0, <1>4 DEF procVars
<1>. QED
  BY <1>1, <1>2, <1>3, <1>4, NextShapes, LooksEffect, WritesEffect DEF Expire, vars

\* Which candidates a transaction writes to: one that is registered already, or
\* the one it registers.
LEMMA CommitWrites ==
    ASSUME TypeOK, VettedInv, NEW p \in Procs, Commits(p),
           NEW c \in Candidates, status[c] = "none", status'[c] # "none"
    PROVE  /\ RegisterCommit(p) /\ c = cmd[p].candidate
           /\ status'[c] = "Frozen" /\ epochOf'[c] \in Epochs
<1>t. CandidateTypes /\ CommandTypes(p) /\ CheckedHolds(p) /\ BuiltIsVetted
  BY DEF TypeOK, ProcTypes, VettedInv
<1>1. CASE ReconcileCommit(p)
  <2>1. sight[p].built \subseteq built
    BY <1>t, <1>1 DEF ReconcileCommit, CheckedHolds, Reconciling
  <2>2. c \notin sight[p].built
    BY <1>t, <2>1 DEF BuiltIsVetted
  <2>. QED
    BY <1>1, <2>2 DEF ReconcileCommit
<1>2. CASE \/ ObserveCommit(p) \/ StartEpochCommit(p) \/ EnforceDeadlines(p) \/ ObservationCommit(p)
           \/ EvaluateBuild(p)
  BY <1>2 DEF ObserveCommit, StartEpochCommit, EnforceDeadlines, ObservationCommit, EvaluateBuild,
     candidateVars
<1>3. CASE RegisterCommit(p)
  BY <1>t, <1>3 DEF RegisterCommit, CandidateTypes, CommandTypes, At
<1>4. CASE EvaluateCommit(p) \/ BuildCommit(p) \/ DeployCommit(p)
  <2>1. cmd[p].name \in Acting
    BY <1>4 DEF EvaluateCommit, BuildCommit, DeployCommit, At, StatusAfter, Acting, Deploying
  <2>2. c # cmd[p].candidate
    BY <1>t, <2>1 DEF CheckedHolds
  <2>. QED
    BY <1>t, <1>4, <2>2 DEF EvaluateCommit, BuildCommit, DeployCommit, Write, CandidateTypes
<1>. QED
  BY <1>1, <1>2, <1>3, <1>4 DEF Commits

\* What the transactions make of a candidate that is new to the built ones, or
\* to the passed ones.
LEMMA CommitVets ==
    ASSUME TypeOK, VettedInv, NEW p \in Procs, Commits(p), NEW c \in Candidates
    PROVE  /\ c \in built' \ built =>
                /\ c \in tested /\ "pass" \in gates[c] /\ risk[c] = "low" /\ status[c] # "none"
           /\ status'[c] = "Passed" => status[c] = "Passed" \/ "pass" \in gates'[c]
<1>t. CandidateTypes /\ CommandTypes(p) /\ CheckedHolds(p)
  BY DEF TypeOK, ProcTypes, VettedInv
<1>1. CASE ReconcileCommit(p)
  <2>1. status'[c] \in Late \cup {status[c]}
    BY <1>1, DesiredIsLate DEF ReconcileCommit
  <2>. QED
    BY <1>1, <2>1 DEF ReconcileCommit, Late
<1>2. CASE \/ ObserveCommit(p) \/ StartEpochCommit(p) \/ EnforceDeadlines(p) \/ ObservationCommit(p)
           \/ EvaluateBuild(p)
  BY <1>2 DEF ObserveCommit, StartEpochCommit, EnforceDeadlines, ObservationCommit, EvaluateBuild,
     candidateVars
<1>3. CASE RegisterCommit(p)
  BY <1>t, <1>3 DEF RegisterCommit, CandidateTypes
<1>4. CASE EvaluateCommit(p)
  <2>1. sight[p].verdict \in Verdicts
    BY <1>t, <1>4 DEF EvaluateCommit, CommandTypes, At
  <2>2. AfterGate(sight[p].verdict)[1] = "Passed" => sight[p].verdict = "pass"
    BY <2>1 DEF AfterGate, Verdicts
  <2>. QED
    BY <1>t, <1>4, <2>2 DEF EvaluateCommit, CandidateTypes
<1>5. CASE BuildCommit(p)
  BY <1>t, <1>5 DEF BuildCommit, Write, At, CandidateTypes, CheckedHolds, Acting
<1>6. CASE DeployCommit(p)
  <2>1. StatusAfter[cmd[p].name] # "Passed"
    BY <1>6 DEF DeployCommit, StatusAfter
  <2>. QED
    BY <1>t, <1>6, <2>1 DEF DeployCommit, Write, CandidateTypes
<1>. QED
  BY <1>1, <1>2, <1>3, <1>4, <1>5, <1>6 DEF Commits

\* Every step keeps what is built and pointed to vetted.
LEMMA VettedInvStep ==
    ASSUME TypeOK, TypeOK', VettedInv, [Next]_vars
    PROVE  VettedInv'
<1>t. CandidateTypes /\ CandidateTypes' /\ ReleaseTypes
  BY DEF TypeOK
<1>g. Grows
  BY StoresGrow
<1>i. BuiltIsVetted /\ PassedIsGated /\ RegisteredHasEpoch /\ PointedIsBuilt
  BY DEF VettedInv
<1>1. BuiltIsVetted' /\ PassedIsGated' /\ RegisteredHasEpoch'
  <2>1. ASSUME UNCHANGED storeVars
        PROVE  BuiltIsVetted' /\ PassedIsGated' /\ RegisteredHasEpoch'
    BY <1>i, <2>1 DEF storeVars, candidateVars, BuiltIsVetted, PassedIsGated, RegisteredHasEpoch
  <2>2. ASSUME NEW p \in Procs, Commits(p)
        PROVE  BuiltIsVetted' /\ PassedIsGated' /\ RegisteredHasEpoch'
    <3>1. BuiltIsVetted'
      <4>. SUFFICES ASSUME NEW c \in built'
                    PROVE  /\ c \in tested' /\ "pass" \in gates'[c]
                           /\ risk'[c] = "low" /\ status'[c] # "none"
        BY DEF BuiltIsVetted
      <4>1. c \in Candidates
        BY <1>t DEF CandidateTypes
      <4>2. c \in tested /\ "pass" \in gates[c] /\ risk[c] = "low" /\ status[c] # "none"
        BY <1>i, <2>2, <4>1, CommitVets DEF BuiltIsVetted
      <4>. QED
        BY <1>g, <4>1, <4>2 DEF Grows
    <3>2. PassedIsGated'
      BY <1>g, <1>i, <2>2, CommitVets DEF PassedIsGated, Grows
    <3>3. RegisteredHasEpoch'
      BY <1>g, <1>i, <2>2, CommitWrites DEF RegisteredHasEpoch, Grows
    <3>. QED
      BY <3>1, <3>2, <3>3
  <2>. QED
    BY <2>1, <2>2, NextShapes, LooksFrame, ReleasingFrame DEF Expire, vars
<1>2. \A p \in Procs : CheckedHolds(p)'
  BY CheckedHoldsStep
<1>3. PointedIsBuilt'
  <2>1. ASSUME UNCHANGED releaseVars
        PROVE  PointedIsBuilt'
    BY <1>g, <1>i, <2>1 DEF releaseVars, PointedIsBuilt, Grows
  <2>2. ASSUME NEW p \in Procs, Releasing(p)
        PROVE  PointedIsBuilt'
    <3>1. PICK op \in Operations, r \in Pointed :
              /\ Deploy(op, r)
              /\ \/ cmd[p].name = "bootstrap" /\ r = cmd[p].release
                 \/ cmd[p].name \in Deploying /\ r = cmd[p].candidate
                 \/ cmd[p].name \in Deploying /\ op = "rollback" /\ r = Restored(pointers)
      BY <2>2, ReleasingDeploys
    <3>2. CommandTypes(p) /\ CheckedHolds(p)
      BY DEF TypeOK, ProcTypes, VettedInv
    <3>3. r \in Candidates => r \in built
      BY <1>i, <3>1, <3>2 DEF CommandTypes, CheckedHolds, Restored, PointedIsBuilt, PointerNames
    <3>4. \A n \in PointerNames :
            pointers'[n] \in {NoRelease, r} \cup {pointers[m] : m \in PointerNames}
      BY <1>t, <3>1, PointersAfter
    <3>. QED
      BY <1>g, <1>i, <3>3, <3>4 DEF PointedIsBuilt, Grows
  <2>. QED
    BY <2>1, <2>2, NextShapes, LooksFrame, CommitsFrame DEF Expire, vars
<1>. QED
  BY <1>1, <1>2, <1>3 DEF VettedInv

\* What is built and pointed to is vetted at the start.
LEMMA VettedInvInit ==
    ASSUME Init
    PROVE  VettedInv
<1>1. \A n \in PointerNames : pointers[n] = NoRelease
  BY DEF Init, NoPointers
<1>. QED
  BY <1>1 DEF Init, VettedInv, BuiltIsVetted, PassedIsGated, RegisteredHasEpoch, CheckedHolds,
     PointedIsBuilt, NoCommand, Acting, Deploying, Reconciling

\* However commands overlap and stop, a release that is deployed comes from a
\* candidate whose tested build passed the gate and whose risk is low.
THEOREM DeployedAlwaysVetted == Spec => []DeployedIsVetted
<1>1. TypeOK /\ TypeOK' /\ VettedInv /\ [Next]_vars => VettedInv'
  BY VettedInvStep
<1>2. VettedInv => DeployedIsVetted
  BY DEF VettedInv, BuiltIsVetted, PointedIsBuilt, DeployedIsVetted
<1>. QED
  BY <1>1, <1>2, VettedInvInit, TypeCorrect, PTL DEF Spec

-----------------------------------------------------------------------------
(* An epoch moves with its candidate                                           *)
(*                                                                         *)
(* A transaction writes a candidate and its epoch.  The epoch is that of one  *)
(* candidate only: it is registered while the epoch is generating, which the  *)
(* epoch of a registered candidate never is again.                            *)

EpochIsOwn ==
    \A c, d \in Candidates :
        status[c] # "none" /\ status[d] # "none" /\ epochOf[c] = epochOf[d] => c = d

EpochInv == EpochFollowsCandidate /\ EpochIsOwn

\* An epoch that has a candidate is neither free nor generating.
LEMMA EpochIsTaken ==
    ASSUME TypeOK, EpochFollowsCandidate, NEW c \in Candidates, status[c] # "none"
    PROVE  epoch[epochOf[c]].status \notin {"none", "Generating"}
<1>1. status[c] \in CandidateStatus
  BY DEF TypeOK, CandidateTypes
<1>2. epoch[epochOf[c]].status \in EpochStatusOf(c) \cup {"BudgetExhausted"}
  BY DEF EpochFollowsCandidate, Registered
<1>. QED
  BY <1>1, <1>2 DEF EpochStatusOf, CandidateStatus

\* A transaction that writes a candidate and its epoch alike keeps them together.
LEMMA WritesTogether ==
    ASSUME TypeOK, EpochInv, NEW c \in Candidates, status[c] # "none", epochOf[c] \in Epochs,
           NEW s \in CandidateStatus, NEW es,
           status' = [status EXCEPT ![c] = s], UNCHANGED epochOf,
           \A e \in Epochs : epoch'[e].status = IF e = epochOf[c] THEN es ELSE epoch[e].status,
           \A d \in Candidates : status[d] # "none" => epochOf[d] \in Epochs,
           es \in EpochStatusOf(c)'
    PROVE  EpochInv'
<1>t. status \in [Candidates -> CandidateStatus \cup {"none"}] /\ s # "none"
  BY DEF TypeOK, CandidateTypes, CandidateStatus
<1>1. \A d \in Candidates : status'[d] # "none" <=> status[d] # "none"
  BY <1>t
<1>2. EpochIsOwn'
  BY <1>1 DEF EpochInv, EpochIsOwn
<1>3. ASSUME NEW d \in Candidates, status'[d] # "none"
      PROVE  epoch'[epochOf'[d]].status \in EpochStatusOf(d)' \cup {"BudgetExhausted"}
  <2>1. CASE d = c
    BY <2>1
  <2>2. CASE d # c
    <3>1. epochOf[d] # epochOf[c] /\ epochOf[d] \in Epochs /\ status'[d] = status[d]
      BY <1>t, <1>1, <1>3, <2>2 DEF EpochInv, EpochIsOwn
    <3>2. EpochStatusOf(d)' = EpochStatusOf(d)
      BY <3>1 DEF EpochStatusOf
    <3>3. epoch'[epochOf'[d]].status = epoch[epochOf[d]].status
      BY <3>1
    <3>. QED
      BY <1>1, <1>3, <3>2, <3>3 DEF EpochInv, EpochFollowsCandidate, Registered
  <2>. QED
    BY <2>1, <2>2
<1>. QED
  BY <1>2, <1>3 DEF EpochInv, EpochFollowsCandidate, Registered

\* The reconciliation finds at most one candidate of an epoch to repair.
LEMMA ReconcilesTogether ==
    ASSUME TypeOK, VettedInv, EpochInv, NEW p \in Procs, ReconcileCommit(p)
    PROVE  EpochInv'
<1>. DEFINE stale == {c \in sight[p].built : Desired(c, sight[p]) # sight[p].status[c]}
            mine(e) == {c \in stale : epochOf[c] = e}
<1>t. status \in [Candidates -> CandidateStatus \cup {"none"}] /\ built \subseteq Candidates
  BY DEF TypeOK, CandidateTypes
<1>1. \A c \in stale : c \in Candidates /\ status[c] # "none"
  BY <1>t DEF VettedInv, CheckedHolds, BuiltIsVetted, ReconcileCommit, Reconciling
<1>2. /\ \A c \in Candidates : status'[c] = IF c \in stale THEN Desired(c, sight[p]) ELSE status[c]
      /\ UNCHANGED epochOf
  BY DEF ReconcileCommit
<1>3. \A c \in stale : Desired(c, sight[p]) \in Late
  BY DesiredIsLate
<1>4. \A e \in Epochs :
        epoch'[e] = IF mine(e) = {} THEN epoch[e]
                    ELSE [epoch[e] EXCEPT !.status = Desired(CHOOSE c \in mine(e) : TRUE, sight[p])]
  BY DEF ReconcileCommit
<1>. HIDE DEF stale
<1>5. \A c \in Candidates : status'[c] # "none" <=> status[c] # "none"
  BY <1>1, <1>2, <1>3 DEF Late
<1>6. EpochIsOwn'
  BY <1>2, <1>5 DEF EpochInv, EpochIsOwn
<1>7. ASSUME NEW d \in Candidates, status'[d] # "none"
      PROVE  epoch'[epochOf'[d]].status \in EpochStatusOf(d)' \cup {"BudgetExhausted"}
  <2>. DEFINE e == epochOf[d]
  <2>1. status[d] # "none" /\ e \in Epochs /\ epochOf'[d] = e
    BY <1>2, <1>5, <1>7 DEF VettedInv, RegisteredHasEpoch
  <2>2. mine(e) \subseteq {d}
    BY <1>1, <2>1 DEF EpochInv, EpochIsOwn
  <2>3. CASE d \in stale
    <3>1. mine(e) = {d}
      BY <2>2, <2>3
    <3>2. (CHOOSE c \in mine(e) : TRUE) = d
      BY <3>1
    <3>3. epoch'[e].status = Desired(d, sight[p])
      <4>1. epoch'[e] = [epoch[e] EXCEPT !.status = Desired(d, sight[p])]
        BY <1>4, <2>1, <3>1, <3>2
      <4>2. epoch[e] \in EpochRecords
        BY <2>1 DEF TypeOK, EpochTypes
      <4>. QED
        BY <4>1, <4>2 DEF EpochRecords
    <3>4. EpochStatusOf(d)' = {Desired(d, sight[p])}
      <4>1. status'[d] = Desired(d, sight[p]) /\ status'[d] \in Late
        BY <1>2, <1>3, <2>3
      <4>. QED
        BY <4>1 DEF EpochStatusOf, Late
    <3>. QED
      BY <2>1, <3>3, <3>4
  <2>4. CASE d \notin stale
    <3>0. mine(e) = {}
      BY <2>2, <2>4
    <3>1. epoch'[e] = epoch[e] /\ status'[d] = status[d]
      BY <1>2, <1>4, <2>1, <2>4, <3>0
    <3>2. EpochStatusOf(d)' = EpochStatusOf(d)
      BY <3>1 DEF EpochStatusOf
    <3>. QED
      BY <2>1, <3>1, <3>2 DEF EpochInv, EpochFollowsCandidate, Registered
  <2>. QED
    BY <2>3, <2>4
<1>. QED
  BY <1>6, <1>7 DEF EpochInv, EpochFollowsCandidate, Registered

\* Every step moves an epoch with its candidate.
LEMMA EpochInvStep ==
    ASSUME TypeOK, VettedInv, EpochInv, [Next]_vars
    PROVE  EpochInv'
<1>t. CandidateTypes /\ EpochTypes
  BY DEF TypeOK
<1>e. \A d \in Candidates : status[d] # "none" => epochOf[d] \in Epochs
  BY DEF VettedInv, RegisteredHasEpoch
<1>r. \A e \in Epochs : epoch[e] \in EpochRecords
  BY <1>t DEF EpochTypes
<1>1. ASSUME UNCHANGED <<status, epochOf>>,
             \A d \in Candidates : status[d] # "none" =>
                epoch'[epochOf[d]].status \in {epoch[epochOf[d]].status, "BudgetExhausted"}
      PROVE  EpochInv'
  BY <1>1 DEF EpochInv, EpochIsOwn, EpochFollowsCandidate, Registered, EpochStatusOf
<1>2. ASSUME NEW p \in Procs, Commits(p)
      PROVE  EpochInv'
  <2>c. CommandTypes(p) /\ CheckedHolds(p)
    BY DEF TypeOK, ProcTypes, VettedInv
  <2>a. cmd[p].name \in Acting =>
          /\ cmd[p].candidate \in Candidates /\ status[cmd[p].candidate] # "none"
          /\ epochOf[cmd[p].candidate] \in Epochs
    BY <1>e, <2>c DEF CommandTypes, CheckedHolds
  <2>1. CASE ReconcileCommit(p)
    BY <2>1, ReconcilesTogether
  <2>2. CASE ObserveCommit(p) \/ ObservationCommit(p) \/ EvaluateBuild(p)
    BY <1>1, <2>2 DEF ObserveCommit, ObservationCommit, EvaluateBuild, candidateVars
  <2>3. CASE StartEpochCommit(p)
    <3>1. PICK e \in Epochs :
            /\ epoch[e].status = "none"
            /\ epoch' = [epoch EXCEPT ![e].status = "Generating", ![e].parent = cmd[p].release]
      BY <2>3 DEF StartEpochCommit
    <3>2. \A d \in Candidates : status[d] # "none" => epochOf[d] # e
      BY <3>1, EpochIsTaken DEF EpochInv
    <3>3. \A d \in Candidates : status[d] # "none" => epoch'[epochOf[d]] = epoch[epochOf[d]]
      BY <1>t, <1>e, <3>1, <3>2 DEF EpochTypes
    <3>. QED
      BY <1>1, <2>3, <3>3 DEF StartEpochCommit, candidateVars
  <2>4. CASE RegisterCommit(p)
    <3>. DEFINE c == cmd[p].candidate
                e == cmd[p].epoch
    <3>0. c \in Candidates /\ e \in Epochs
      BY <2>c, <2>4 DEF RegisterCommit, At, CommandTypes
    <3>1. /\ status[c] = "none" /\ epoch[e].status = "Generating"
          /\ status' = [status EXCEPT ![c] = "Frozen"] /\ epochOf' = [epochOf EXCEPT ![c] = e]
          /\ epoch' = [epoch EXCEPT ![e].status = "Evaluating", ![e].candidates = @ \cup {c}]
      BY <2>4 DEF RegisterCommit
    <3>. HIDE DEF c, e
    <3>2. \A d \in Candidates : status[d] # "none" => epochOf[d] # e
      BY <3>1, EpochIsTaken DEF EpochInv
    <3>3. status'[c] = "Frozen" /\ epochOf'[c] = e
      BY <1>t, <3>0, <3>1 DEF CandidateTypes
    <3>4. epoch'[e].status = "Evaluating"
      BY <1>t, <1>r, <3>0, <3>1 DEF EpochTypes, EpochRecords
    <3>5. \A d \in Candidates \ {c} : status'[d] = status[d] /\ epochOf'[d] = epochOf[d]
      BY <1>t, <3>0, <3>1 DEF CandidateTypes
    <3>6. \A d \in Candidates \ {c} : status[d] # "none" => epoch'[epochOf[d]] = epoch[epochOf[d]]
      BY <1>t, <1>e, <3>1, <3>2 DEF EpochTypes
    <3>7. EpochIsOwn'
      BY <3>2, <3>3, <3>5 DEF EpochInv, EpochIsOwn
    <3>8. ASSUME NEW d \in Candidates, status'[d] # "none"
          PROVE  epoch'[epochOf'[d]].status \in EpochStatusOf(d)' \cup {"BudgetExhausted"}
      <4>1. CASE d = c
        BY <3>3, <3>4, <4>1 DEF EpochStatusOf
      <4>2. CASE d # c
        <5>1. EpochStatusOf(d)' = EpochStatusOf(d)
          BY <3>5, <4>2 DEF EpochStatusOf
        <5>. QED
          BY <3>5, <3>6, <3>8, <4>2, <5>1 DEF EpochInv, EpochFollowsCandidate, Registered
      <4>. QED
        BY <4>1, <4>2
    <3>. QED
      BY <3>7, <3>8 DEF EpochInv, EpochFollowsCandidate, Registered
  <2>5. CASE EvaluateCommit(p)
    <3>. DEFINE s == AfterGate(sight[p].verdict)[1]
                es == AfterGate(sight[p].verdict)[2]
    <3>1. PICK c \in Candidates :
            c = cmd[p].candidate /\ status[c] # "none" /\ epochOf[c] \in Epochs
      BY <2>a, <2>5 DEF EvaluateCommit, At, Acting
    <3>2. sight[p].verdict \in Verdicts
      BY <2>c, <2>5 DEF EvaluateCommit, At, CommandTypes
    <3>3. \/ s = "Passed" /\ es = "AwaitingPromotion"
          \/ s = "Rejected" /\ es \in {"Rejected", "Inconclusive"}
      BY <3>2 DEF AfterGate, Verdicts
    <3>4. /\ status' = [status EXCEPT ![c] = s] /\ UNCHANGED epochOf
          /\ epoch' = [epoch EXCEPT ![epochOf[c]].status = es,
                                    ![epochOf[c]].holdout = @ + sight[p].queries]
      BY <2>5, <3>1 DEF EvaluateCommit
    <3>. HIDE DEF s, es
    <3>5. \A e \in Epochs : epoch'[e].status = IF e = epochOf[c] THEN es ELSE epoch[e].status
      BY <1>t, <1>r, <3>1, <3>4 DEF EpochTypes, EpochRecords
    <3>6. es \in EpochStatusOf(c)'
      <4>1. status'[c] = s
        BY <1>t, <3>1, <3>4 DEF CandidateTypes
      <4>. QED
        BY <3>3, <4>1 DEF EpochStatusOf
    <3>7. s \in CandidateStatus
      BY <3>3 DEF CandidateStatus
    <3>. QED
      BY <1>e, <3>1, <3>4, <3>5, <3>6, <3>7, WritesTogether
  <2>6. ASSUME NEW s \in CandidateStatus, NEW es \in EpochStatus, Write(cmd[p].candidate, s, es),
               UNCHANGED epochOf, cmd[p].name \in Acting,
               (s \in Late /\ es = s) \/ (s = "Built" /\ es = "BuildingRelease")
        PROVE  EpochInv'
    <3>1. PICK c \in Candidates :
            c = cmd[p].candidate /\ status[c] # "none" /\ epochOf[c] \in Epochs
      BY <2>a, <2>6
    <3>2. status' = [status EXCEPT ![c] = s] /\ epoch' = [epoch EXCEPT ![epochOf[c]].status = es]
      BY <2>6, <3>1 DEF Write
    <3>3. \A e \in Epochs : epoch'[e].status = IF e = epochOf[c] THEN es ELSE epoch[e].status
      BY <1>t, <1>r, <3>1, <3>2 DEF EpochTypes, EpochRecords
    <3>4. es \in EpochStatusOf(c)'
      <4>1. status'[c] = s
        BY <1>t, <3>1, <3>2 DEF CandidateTypes
      <4>. QED
        BY <2>6, <4>1 DEF EpochStatusOf, Late
    <3>. QED
      BY <1>e, <2>6, <3>1, <3>2, <3>3, <3>4, WritesTogether, ZenonT(60)
  <2>7. CASE BuildCommit(p)
    BY <2>6, <2>7 DEF BuildCommit, At, Acting, CandidateStatus, EpochStatus
  <2>8. CASE DeployCommit(p)
    <3>1. cmd[p].name \in Deploying
      BY <2>8 DEF DeployCommit, StatusAfter, Deploying
    <3>2. StatusAfter[cmd[p].name] \in Late
      BY <3>1 DEF StatusAfter, Deploying, Late
    <3>3. Late \subseteq CandidateStatus /\ Late \subseteq EpochStatus
      BY DEF Late, CandidateStatus, EpochStatus
    <3>. QED
      BY <2>6, <2>8, <3>1, <3>2, <3>3 DEF DeployCommit, Acting
  <2>9. CASE EnforceDeadlines(p)
    <3>1. \A e \in Epochs : epoch'[e].status \in {epoch[e].status, "BudgetExhausted"}
      BY <1>r, <2>9 DEF EnforceDeadlines, EpochRecords
    <3>. QED
      BY <1>1, <1>e, <2>9, <3>1 DEF EnforceDeadlines, candidateVars
  <2>. QED
    BY <1>2, <2>1, <2>2, <2>3, <2>4, <2>5, <2>7, <2>8, <2>9 DEF Commits
<1>3. ASSUME UNCHANGED storeVars
      PROVE  EpochInv'
  BY <1>1, <1>3 DEF storeVars, candidateVars
<1>. QED
  BY <1>2, <1>3, NextShapes, LooksFrame, ReleasingFrame DEF Expire, vars

\* In every transaction of every command and in every reconciliation, candidate
\* and epoch move together; only the deadline ends an epoch by itself.
THEOREM EpochAlwaysFollows == Spec => []EpochFollowsCandidate
<1>1. Init => EpochInv
  BY DEF Init, EpochInv, EpochFollowsCandidate, EpochIsOwn, Registered
<1>2. TypeOK /\ TypeOK' /\ VettedInv /\ [Next]_vars => VettedInv'
  BY VettedInvStep
<1>3. TypeOK /\ VettedInv /\ EpochInv /\ [Next]_vars => EpochInv'
  BY EpochInvStep
<1>4. EpochInv => EpochFollowsCandidate
  BY DEF EpochInv
<1>. QED
  BY <1>1, <1>2, <1>3, <1>4, VettedInvInit, TypeCorrect, PTL DEF Spec

-----------------------------------------------------------------------------
(* A rolled-back candidate stays out                                           *)
(*                                                                         *)
(* Only a built candidate is previewed.  As long as no command wrote over a   *)
(* decision it had not seen, a candidate that was once on its way out (canary *)
(* or stable, now or before a rollback) has a status that says so.            *)

\* The status a deploying command found, which its steps compare with.
FoundStatus(p) ==
    /\ cmd[p].name \in DOMAIN Before => sight[p].checked = Before[cmd[p].name]
    /\ cmd[p].name = "rollback" => sight[p].checked \in {"Canarying", "Promoted"}

WasOut(c) == c \in rolledBack \/ \E n \in PointerNames \ {"preview"} : pointers[n] = c

LateInv ==
    /\ \A p \in Procs : FoundStatus(p)
    /\ \A c \in Candidates : ~overtaken /\ WasOut(c) => status[c] \in Late

\* A process keeps the status it found a candidate in.
LEMMA FoundStatusStep ==
    ASSUME TypeOK, LateInv, [Next]_vars
    PROVE  \A p \in Procs : FoundStatus(p)'
<1>t. ProcTypes
  BY DEF TypeOK
<1>. USE DEF Before
<1>0. ASSUME NEW p \in Procs, cmd'[p] = cmd[p], cmd[p].name \in Deploying => sight'[p] = sight[p]
      PROVE  FoundStatus(p)'
  BY <1>0 DEF LateInv, FoundStatus, Deploying
<1>n. ASSUME NEW p \in Procs, cmd'[p].name \notin Deploying
      PROVE  FoundStatus(p)'
  BY <1>n DEF FoundStatus, Deploying
<1>1. ASSUME NEW p \in Procs, Looks(p)
      PROVE  FoundStatus(p)'
  <2>1. ASSUME NEW step, Goto(p, step)
        PROVE  FoundStatus(p)'
    BY <1>t, <1>0, <2>1, GotoEffect
  <2>2. ASSUME NEW step, NEW seen, Reads(p, step, seen), cmd[p].name \notin Deploying
        PROVE  FoundStatus(p)'
    BY <1>t, <1>0, <2>2, ReadsEffect
  <2>3. ASSUME NEW command, NEW step, NEW seen, Begin(p, command, step, seen),
               command.name \notin Deploying
        PROVE  FoundStatus(p)'
    BY <1>t, <1>n, <2>3, BeginEffect
  <2>4. CASE Stop(p)
    BY <1>t, <1>n, <2>4, DoneEffect DEF Stop, NoCommand, Deploying
  <2>5. CASE ReconcileSnapshot(p) \/ ReconcileRead(p)
    <3>1. cmd[p].name \notin Deploying
      BY <1>t, <2>5 DEF ReconcileSnapshot, ReconcileRead, ProcTypes, CommandTypes, NoCommand,
         Deploying, Reconciling
    <3>. QED
      BY <2>1, <2>2, <2>5, <3>1 DEF ReconcileSnapshot, ReconcileRead
  <2>6. CASE BootstrapRecheck(p) \/ EvaluatePaired(p) \/ PromoteOwner(p) \/ PromoteHealth(p)
             \/ RollbackOwner(p)
    BY <2>1, <2>6 DEF BootstrapRecheck, EvaluatePaired, PromoteOwner, PromoteHealth, RollbackOwner
  <2>7. ASSUME NEW b \in Bootstraps, BootstrapCheck(p, b)
        PROVE  FoundStatus(p)'
    BY <2>3, <2>7 DEF BootstrapCheck, Deploying
  <2>8. ASSUME NEW r \in Sources, NEW t \in Tasks, ObserveCheck(p, r, t)
        PROVE  FoundStatus(p)'
    BY <2>3, <2>8 DEF ObserveCheck, Deploying
  <2>9. ASSUME NEW r \in Releases, StartEpochStable(p, r)
        PROVE  FoundStatus(p)'
    BY <2>3, <2>9 DEF StartEpochStable, Deploying
  <2>10. ASSUME NEW e \in Epochs, NEW c \in Candidates, NEW level \in {"low", "high"},
                RegisterCheck(p, e, c, level)
         PROVE  FoundStatus(p)'
    BY <2>3, <2>10 DEF RegisterCheck, Deploying
  <2>11. ASSUME NEW verdict \in Verdicts, NEW queries \in 1..(MaxHoldout + 1),
                EvaluateInput(p, verdict, queries)
         PROVE  FoundStatus(p)'
    BY <2>2, <2>11 DEF EvaluateInput, At, Deploying
  <2>12. ASSUME NEW c \in Candidates, EvaluateCheck(p, c) \/ BuildCheck(p, c)
         PROVE  FoundStatus(p)'
    BY <2>3, <2>12 DEF EvaluateCheck, BuildCheck, For, Deploying
  <2>13. ASSUME NEW c \in Candidates, RollbackCheck(p, c)
         PROVE  FoundStatus(p)'
    BY <1>t, <2>13, BeginEffect DEF RollbackCheck, For, FoundStatus
  <2>14. ASSUME NEW c \in Candidates, NEW name \in DOMAIN Before, DeployCheck(p, name, c)
         PROVE  FoundStatus(p)'
    BY <1>t, <2>14, BeginEffect DEF DeployCheck, For, FoundStatus
  <2>15. ASSUME NEW c \in Candidates, NEW healthy \in BOOLEAN, ObservationCheck(p, c, healthy)
         PROVE  FoundStatus(p)'
    BY <2>3, <2>15 DEF ObservationCheck, Deploying
  <2>. QED
    BY <1>1, <2>4, <2>5, <2>6, <2>7, <2>8, <2>9, <2>10, <2>11, <2>12, <2>13, <2>14, <2>15 DEF Looks
<1>2. ASSUME NEW p \in Procs, Releasing(p) \/ Commits(p)
      PROVE  FoundStatus(p)'
  <2>1. CASE Done(p)
    BY <1>t, <1>n, <2>1, DoneEffect DEF NoCommand, Deploying
  <2>2. ASSUME NEW step, Goto(p, step)
        PROVE  FoundStatus(p)'
    BY <1>t, <1>0, <2>2, GotoEffect
  <2>3. CASE ReconcileCommit(p)
    <3>1. cmd[p] = NoCommand /\ Reads(p, "ready", NoSight)
      BY <1>t, <2>3 DEF ReconcileCommit, ProcTypes, CommandTypes, Reconciling
    <3>. QED
      BY <1>t, <1>n, <3>1, ReadsEffect DEF NoCommand, Deploying
  <2>. QED
    BY <1>2, <2>1, <2>2, <2>3 DEF Releasing, Commits, BootstrapDeploy, DeployRelease, RollbackRelease,
       ObserveCommit, StartEpochCommit, RegisterCommit, EvaluateBuild, EvaluateCommit, BuildCommit,
       DeployCommit, ObservationCommit, EnforceDeadlines
<1>3. ASSUME NEW p \in Procs, FoundStatus(p)', Others(p)
      PROVE  \A q \in Procs : FoundStatus(q)'
  BY <1>0, <1>3 DEF Others
<1>4. ASSUME UNCHANGED procVars
      PROVE  \A q \in Procs : FoundStatus(q)'
  BY <1>0, <1>4 DEF procVars
<1>. QED
  BY <1>1, <1>2, <1>3, <1>4, NextShapes, LooksEffect, WritesEffect DEF Expire, vars

\* An operation of the release store puts a release out that was out before, or
\* the one it is asked for, by a canary or a promotion.
LEMMA DeployPutsOut ==
    ASSUME TypeOK, NEW op \in Operations, NEW r \in Pointed, Deploy(op, r),
           NEW c \in Candidates, WasOut(c)'
    PROVE  WasOut(c) \/ (op \in {"start_canary", "promote"} /\ c = r)
<1>t. pointers \in [PointerNames -> Pointed] /\ c # NoRelease
  BY DEF TypeOK, ReleaseTypes
<1>n. PointerNames = {"previous-stable", "stable", "preview", "canary"}
  BY DEF PointerNames
<1>1. pointers' = NextPointers(op, r, pointers)
  BY DEF Deploy
<1>2. c \in rolledBack' => WasOut(c)
  BY <1>n DEF Deploy, Deployment, Allowed, WasOut, Operations
<1>3. ASSUME NEW n \in PointerNames \ {"preview"}, pointers'[n] = c
      PROVE  WasOut(c) \/ (op \in {"start_canary", "promote"} /\ c = r)
  <2>1. CASE op = "set_preview"
    BY <1>t, <1>n, <1>1, <1>3, <2>1 DEF NextPointers, WasOut
  <2>2. CASE op = "start_canary"
    BY <1>t, <1>n, <1>1, <1>3, <2>2 DEF NextPointers, WasOut
  <2>3. CASE op = "promote"
    BY <1>t, <1>n, <1>1, <1>3, <2>3 DEF NextPointers, NoCandidate, WasOut
  <2>4. CASE op = "cancel_canary"
    BY <1>t, <1>n, <1>1, <1>3, <2>4 DEF NextPointers, NoCandidate, WasOut
  <2>5. CASE op = "rollback"
    <3>1. r = Restored(pointers)
      BY <2>5 DEF Deploy, Allowed
    <3>. QED
      BY <1>t, <1>n, <1>1, <1>3, <2>5, <3>1 DEF NextPointers, NoCandidate, WasOut, Restored
  <2>. QED
    BY <2>1, <2>2, <2>3, <2>4, <2>5 DEF Operations
<1>. QED
  BY <1>2, <1>3 DEF WasOut

\* A step that brings a candidate back was overtaken by its rollback.
LEMMA LateInvStep ==
    ASSUME TypeOK, LateInv, [Next]_vars
    PROVE  LateInv'
<1>t. CandidateTypes
  BY DEF TypeOK
<1>. SUFFICES ASSUME NEW c \in Candidates, ~overtaken', WasOut(c)'
              PROVE  status'[c] \in Late
  BY FoundStatusStep DEF LateInv
<1>1. ASSUME UNCHANGED <<releaseVars, overtaken>>
      PROVE  status[c] \in Late
  BY <1>1 DEF releaseVars, WasOut, LateInv
<1>2. ASSUME UNCHANGED <<releaseVars, storeVars, overtaken>>
      PROVE  status'[c] \in Late
  BY <1>1, <1>2 DEF storeVars, candidateVars
<1>3. ASSUME NEW p \in Procs, Releasing(p)
      PROVE  status'[c] \in Late
  <2>s. UNCHANGED status
    BY <1>3, ReleasingFrame DEF storeVars, candidateVars
  <2>c. CommandTypes(p) /\ FoundStatus(p)
    BY DEF TypeOK, ProcTypes, LateInv
  <2>1. CASE BootstrapDeploy(p)
    <3>1. ~overtaken /\ cmd[p].release \in Bootstraps
      BY <2>c, <2>1 DEF BootstrapDeploy, At, CommandTypes
    <3>2. PICK op \in Operations : Deploy(op, cmd[p].release)
      BY <2>1 DEF BootstrapDeploy, Operations
    <3>3. WasOut(c)
      BY <3>1, <3>2, DeployPutsOut DEF Pointed
    <3>. QED
      BY <2>s, <3>1, <3>3 DEF LateInv
  <2>2. CASE DeployRelease(p)
    <3>1. cmd[p].name \in {"preview", "canary", "promote"} /\ cmd[p].candidate \in Candidates
      BY <2>c, <2>2 DEF DeployRelease, Before, CommandTypes, Acting, Deploying
    <3>2. /\ Deploy(OperationOf[cmd[p].name], cmd[p].candidate) /\ ~overtaken
          /\ status[cmd[p].candidate] \in {sight[p].checked, StatusAfter[cmd[p].name]}
      BY <2>2 DEF DeployRelease, Overtakes
    <3>3. OperationOf[cmd[p].name] \in Operations /\ cmd[p].candidate \in Pointed
      BY <3>1 DEF OperationOf, Operations, Pointed
    <3>4. \/ WasOut(c)
          \/ cmd[p].name \in {"canary", "promote"} /\ c = cmd[p].candidate
      BY <3>1, <3>2, <3>3, DeployPutsOut DEF OperationOf
    <3>5. cmd[p].name \in {"canary", "promote"} => status[cmd[p].candidate] \in Late
      BY <2>c, <3>2 DEF FoundStatus, Before, StatusAfter, Late
    <3>. QED
      BY <2>s, <3>2, <3>4, <3>5 DEF LateInv
  <2>3. CASE RollbackRelease(p)
    <3>1. ~overtaken
      BY <2>3 DEF RollbackRelease, Overtakes
    <3>2. PICK op \in {"cancel_canary", "rollback"}, r \in Pointed : Deploy(op, r)
      <4>1. cmd[p].candidate \in Pointed
        BY <2>c, <2>3 DEF RollbackRelease, At, CommandTypes, Acting, Deploying, Pointed
      <4>2. Restored(pointers) \in Pointed
        BY DEF TypeOK, ReleaseTypes, Restored, PointerNames
      <4>. QED
        BY <2>3, <4>1, <4>2 DEF RollbackRelease
    <3>3. WasOut(c)
      BY <3>2, DeployPutsOut DEF Operations
    <3>. QED
      BY <2>s, <3>1, <3>3 DEF LateInv
  <2>. QED
    BY <1>3, <2>1, <2>2, <2>3 DEF Releasing
<1>4. ASSUME NEW p \in Procs, Commits(p)
      PROVE  status'[c] \in Late
  <2>r. UNCHANGED releaseVars
    BY <1>4, CommitsFrame
  <2>1. CASE ReconcileCommit(p)
    <3>1. status[c] \in Late
      BY <1>1, <2>r, <2>1 DEF ReconcileCommit
    <3>. QED
      BY <2>1, <3>1, DesiredIsLate DEF ReconcileCommit
  <2>2. CASE \/ ObserveCommit(p) \/ StartEpochCommit(p) \/ EnforceDeadlines(p) \/ ObservationCommit(p)
             \/ EvaluateBuild(p)
    BY <1>1, <2>r, <2>2 DEF ObserveCommit, StartEpochCommit, EnforceDeadlines, ObservationCommit,
       EvaluateBuild, candidateVars
  <2>3. CASE RegisterCommit(p)
    <3>1. status[c] \in Late
      BY <1>1, <2>r, <2>3 DEF RegisterCommit
    <3>2. c # cmd[p].candidate
      BY <2>3, <3>1 DEF RegisterCommit, Late
    <3>. QED
      BY <1>t, <2>3, <3>1, <3>2 DEF RegisterCommit, CandidateTypes
  <2>4. CASE EvaluateCommit(p) \/ BuildCommit(p)
    <3>1. ~overtaken /\ status[cmd[p].candidate] \in {"Frozen", "Passed"}
      BY <2>4 DEF EvaluateCommit, BuildCommit, Overtakes
    <3>2. status[c] \in Late
      BY <2>r, <3>1 DEF releaseVars, WasOut, LateInv
    <3>3. c # cmd[p].candidate
      BY <3>1, <3>2 DEF Late
    <3>. QED
      BY <1>t, <2>4, <3>2, <3>3 DEF EvaluateCommit, BuildCommit, Write, CandidateTypes
  <2>5. CASE DeployCommit(p)
    <3>1. ~overtaken
      BY <2>5 DEF DeployCommit, Overtakes
    <3>2. status[c] \in Late
      BY <2>r, <3>1 DEF releaseVars, WasOut, LateInv
    <3>3. StatusAfter[cmd[p].name] \in Late
      BY <2>5 DEF DeployCommit, StatusAfter, Late
    <3>. QED
      BY <1>t, <2>5, <3>2, <3>3 DEF DeployCommit, Write, CandidateTypes
  <2>. QED
    BY <1>4, <2>1, <2>2, <2>3, <2>4, <2>5 DEF Commits
<1>. QED
  BY <1>2, <1>3, <1>4, NextShapes, LooksFrame DEF Expire, vars

\* No candidate was rolled back at the start.
LEMMA LateInvInit ==
    ASSUME Init
    PROVE  LateInv
<1>1. \A n \in PointerNames : pointers[n] = NoRelease
  BY DEF Init, NoPointers
<1>. QED
  BY <1>1 DEF Init, LateInv, FoundStatus, WasOut, NoCommand, Before

\* A reconciled process takes up a preview only of a built candidate.
LEMMA PreviewIsOfBuilt ==
    ASSUME TypeOK, [Next]_vars, NEW q \in Procs, NEW c \in Candidates,
           pc[q] = "ready", cmd'[q] = For("preview", c)
    PROVE  status[c] = "Built"
<1>t. ProcTypes /\ cmd[q] = NoCommand
  BY DEF TypeOK, ProcTypes, CommandTypes
<1>0. cmd'[q] # NoCommand /\ cmd'[q] # cmd[q]
  BY <1>t DEF NoCommand, For
<1>1. ASSUME NEW command, NEW step, NEW seen, Begin(q, command, step, seen)
      PROVE  command = For("preview", c)
  BY <1>t, <1>1, BeginEffect
<1>2. ASSUME NEW step, Goto(q, step)
      PROVE  FALSE
  BY <1>t, <1>0, <1>2, GotoEffect
<1>3. ASSUME NEW step, NEW seen, Reads(q, step, seen)
      PROVE  FALSE
  BY <1>t, <1>0, <1>3, ReadsEffect
<1>4. ASSUME Done(q)
      PROVE  FALSE
  BY <1>t, <1>0, <1>4, DoneEffect
<1>5. ASSUME NEW p \in Procs, Others(p), p # q
      PROVE  FALSE
  BY <1>0, <1>5 DEF Others
<1>6. ~Releasing(q)
  BY <1>2, <1>4 DEF Releasing, BootstrapDeploy, DeployRelease, RollbackRelease
<1>7. ~Commits(q)
  BY <1>2, <1>3, <1>4 DEF Commits, ReconcileCommit, ObserveCommit, StartEpochCommit, RegisterCommit,
     EvaluateBuild, EvaluateCommit, BuildCommit, DeployCommit, ObservationCommit, EnforceDeadlines
<1>8. Looks(q)
  BY <1>0, <1>5, <1>6, <1>7, NextShapes, LooksEffect, WritesEffect DEF Expire, vars, procVars
<1>9. \E d \in Candidates, name \in DOMAIN Before : DeployCheck(q, name, d)
  <2>1. \A d \in Candidates : ~EvaluateCheck(q, d) /\ ~BuildCheck(q, d) /\ ~RollbackCheck(q, d)
    BY <1>1 DEF EvaluateCheck, BuildCheck, RollbackCheck, For
  <2>2. \A d \in Candidates, healthy \in BOOLEAN : ~ObservationCheck(q, d, healthy)
    <3>. SUFFICES ASSUME NEW d \in Candidates, NEW healthy \in BOOLEAN, ObservationCheck(q, d, healthy)
                  PROVE  FALSE
      OBVIOUS
    <3>1. [name |-> "observation", candidate |-> d, healthy |-> healthy] = For("preview", c)
      BY <1>1 DEF ObservationCheck
    <3>. QED
      BY <3>1 DEF For
  <2>3. \A b \in Bootstraps : ~BootstrapCheck(q, b)
    <3>. SUFFICES ASSUME NEW b \in Bootstraps, BootstrapCheck(q, b)
                  PROVE  FALSE
      OBVIOUS
    <3>1. [name |-> "bootstrap", release |-> b] = For("preview", c)
      BY <1>1 DEF BootstrapCheck
    <3>. QED
      BY <3>1 DEF For
  <2>4. \A r \in Sources, t \in Tasks : ~ObserveCheck(q, r, t)
    <3>. SUFFICES ASSUME NEW r \in Sources, NEW t \in Tasks, ObserveCheck(q, r, t)
                  PROVE  FALSE
      OBVIOUS
    <3>1. [name |-> "observe", release |-> r, task |-> t] = For("preview", c)
      BY <1>1 DEF ObserveCheck
    <3>. QED
      BY <3>1 DEF For
  <2>5. \A r \in Releases : ~StartEpochStable(q, r)
    <3>. SUFFICES ASSUME NEW r \in Releases, StartEpochStable(q, r)
                  PROVE  FALSE
      OBVIOUS
    <3>1. [name |-> "start_epoch", release |-> r] = For("preview", c)
      BY <1>1 DEF StartEpochStable
    <3>. QED
      BY <3>1 DEF For
  <2>6. \A e \in Epochs, d \in Candidates, level \in {"low", "high"} : ~RegisterCheck(q, e, d, level)
    <3>. SUFFICES ASSUME NEW e \in Epochs, NEW d \in Candidates, NEW level \in {"low", "high"},
                         RegisterCheck(q, e, d, level)
                  PROVE  FALSE
      OBVIOUS
    <3>1. [name |-> "register", epoch |-> e, candidate |-> d, risk |-> level] = For("preview", c)
      BY <1>1 DEF RegisterCheck
    <3>. QED
      BY <3>1 DEF For
  <2>. QED
    BY <1>2, <1>3, <1>4, <1>8, <2>1, <2>2, <2>3, <2>4, <2>5, <2>6 DEF Looks, Stop,
       ReconcileSnapshot, ReconcileRead, BootstrapRecheck, EvaluatePaired, PromoteOwner,
       PromoteHealth, RollbackOwner, EvaluateInput
<1>10. PICK d \in Candidates, name \in DOMAIN Before : DeployCheck(q, name, d)
  BY <1>9
<1>11. For(name, d) = For("preview", c)
  BY <1>1, <1>10 DEF DeployCheck
<1>12. name = "preview" /\ d = c
  BY <1>11 DEF For
<1>. QED
  BY <1>10, <1>12 DEF DeployCheck, Before

\* A command that begins after a candidate was rolled back does not preview it,
\* unless some command wrote over a decision taken since its check.
THEOREM RolledBackAlwaysOut == Spec => RolledBackStaysOut
<1>1. TypeOK /\ LateInv /\ [Next]_vars => LateInv'
  BY LateInvStep
<1>2. TypeOK /\ LateInv /\ [Next]_vars =>
        [\A p \in Procs, c \in rolledBack \cap Candidates :
            pc[p] = "ready" /\ cmd'[p] = For("preview", c) => overtaken]_vars
  <2>. SUFFICES ASSUME TypeOK, LateInv, [Next]_vars, NEW p \in Procs,
                       NEW c \in rolledBack \cap Candidates,
                       pc[p] = "ready", cmd'[p] = For("preview", c), ~overtaken
                PROVE  FALSE
    OBVIOUS
  <2>1. status[c] \in Late
    BY DEF LateInv, WasOut
  <2>2. status[c] = "Built"
    BY PreviewIsOfBuilt
  <2>. QED
    BY <2>1, <2>2 DEF Late
<1>. QED
  BY <1>1, <1>2, LateInvInit, TypeCorrect, PTL DEF Spec, RolledBackStaysOut

-----------------------------------------------------------------------------
(* A command that starts repairs what others left                              *)

\* Only its transaction ends a reconciliation that does not stop.
LEMMA ReconcileEnds ==
    ASSUME TypeOK, [Next]_vars, NEW q \in Procs, pc[q] = "reconcile", pc'[q] = "ready"
    PROVE  ReconcileCommit(q)
<1>t. ProcTypes /\ cmd[q] = NoCommand /\ cmd[q].name = "none"
  BY DEF TypeOK, ProcTypes, CommandTypes, Reconciling, NoCommand
<1>1. ASSUME NEW p \in Procs, Others(p), p # q
      PROVE  FALSE
  BY <1>1 DEF Others
<1>2. ~Releasing(q)
  BY <1>t DEF Releasing, BootstrapDeploy, DeployRelease, RollbackRelease, At
<1>3. ~Looks(q)
  <2>1. ~Stop(q)
    BY <1>t, DoneEffect DEF Stop
  <2>. QED
    BY <1>t, <2>1 DEF Looks, ReconcileSnapshot, ReconcileRead, BootstrapRecheck, EvaluatePaired,
       PromoteOwner, PromoteHealth, RollbackOwner, EvaluateInput, BootstrapCheck, ObserveCheck,
       StartEpochStable, RegisterCheck, EvaluateCheck, BuildCheck, RollbackCheck, DeployCheck,
       ObservationCheck, At, Begin
<1>4. Commits(q) => ReconcileCommit(q)
  BY <1>t DEF Commits, ObserveCommit, StartEpochCommit, RegisterCommit, EvaluateBuild, EvaluateCommit,
     BuildCommit, DeployCommit, ObservationCommit, EnforceDeadlines, At
<1>. QED
  BY <1>1, <1>2, <1>3, <1>4, NextShapes, LooksEffect, WritesEffect DEF Expire, vars, procVars

\* Whatever others left when they stopped, a reconciliation that nothing
\* interrupts gives every deployed candidate the status of its pointer.
THEOREM RestartAlwaysRepairs == Spec => RestartRepairs
<1>1. TypeOK /\ [Next]_vars =>
        [\A p \in Procs :
            pc[p] = "reconcile" /\ pc'[p] = "ready" /\ SawTheStores(p) => PointedAgrees']_vars
  <2>. SUFFICES ASSUME TypeOK, [Next]_vars, NEW p \in Procs,
                       pc[p] = "reconcile", pc'[p] = "ready", SawTheStores(p)
                PROVE  PointedAgrees'
    OBVIOUS
  <2>1. ReconcileCommit(p)
    BY ReconcileEnds
  <2>2. UNCHANGED <<built, pointers>>
    BY <2>1 DEF ReconcileCommit, releaseVars
  <2>3. \A c \in built : status'[c] = Desired(c, sight[p])
    <3>1. built \subseteq Candidates /\ sight[p].built = built /\ sight[p].status = status
      BY DEF TypeOK, CandidateTypes, SawTheStores
    <3>. QED
      BY <2>1, <3>1 DEF ReconcileCommit
  <2>4. /\ sight[p].preview = pointers["preview"] /\ sight[p].canary = pointers["canary"]
        /\ sight[p].stable = pointers["stable"]
    BY DEF SawTheStores
  <2>. QED
    BY <2>2, <2>3, <2>4 DEF PointedAgrees, Desired
<1>. QED
  BY <1>1, TypeCorrect, PTL DEF Spec, RestartRepairs
=============================================================================
