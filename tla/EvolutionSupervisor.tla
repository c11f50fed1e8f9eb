------------------------- MODULE EvolutionSupervisor -------------------------
(***************************************************************************)
(* The control plane of self-evolution: commands that observe failures, open  *)
(* epochs, freeze, evaluate and build candidates, and deploy their releases.  *)
(*                                                                         *)
(* A command is a process of its own.  It first reconciles the candidates     *)
(* with the release pointers (EvolutionSupervisor::new), then checks a        *)
(* snapshot, then changes the release store, then its own store.  Each step   *)
(* is atomic under the lock of one of the two stores; nothing holds the two   *)
(* together, commands may overlap, and a process may stop between any steps.  *)
(* A check that fails ends the command with nothing more done, which is also  *)
(* what a stop does: both are the action Stop.                                *)
(*                                                                         *)
(* The release store is at the level of Deployments, which ReleaseStore       *)
(* implements; a transaction of the supervisor's store is one step.  A        *)
(* release is identified by its source and its candidate                      *)
(* (ReleaseStore::build), so that a candidate stands for its release too.     *)
(*                                                                         *)
(* Source: crates/golutra-agent-supervisor/src/{lib,evaluation_runner,main}.rs *)
(***************************************************************************)
EXTENDS ReleaseOperations, FiniteSets

CONSTANTS
    Procs,          \* processes that run commands
    Bootstraps,     \* releases of bootstrap attempts, one per attempt
    Candidates,     \* candidates and the releases built from them
    Epochs,
    Tasks,          \* observed tasks, each of a group of its own
    HighSignal,     \* those whose failure is a high signal
    Sources,        \* releases that ran the observed tasks
    MaxCandidates,  \* candidate budget of an epoch
    MaxHoldout      \* sealed queries an epoch may spend

ASSUME CandidateReleases ==
    /\ Releases = Bootstraps \cup Candidates
    /\ Bootstraps \cap Candidates = {}
    /\ HighSignal \subseteq Tasks /\ Sources \subseteq Releases
ASSUME BudgetAssumption == MaxCandidates \in Nat \ {0} /\ MaxHoldout \in Nat

VARIABLES
    \* the release store
    pointers, rolledBack,   \* releases that a rolled-back record names as previous
    \* the supervisor's store
    observations, opportunities, epoch, status, epochOf, risk,
    tested,                 \* candidates with an evaluation build
    built,                  \* candidates with a release and a trusted build
    gates, health,
    \* the processes: command, step, what they read
    cmd, pc, sight,
    expired,                \* epochs past their deadline
    attempts,               \* bootstraps that were begun
    overtaken               \* a command wrote over a decision taken since its check

releaseVars == <<pointers, rolledBack>>
lane == <<observations, opportunities>>
candidateVars == <<status, epochOf, risk, tested, built, gates, health>>
storeVars == <<lane, epoch, candidateVars>>
procVars == <<cmd, pc, sight>>
vars == <<releaseVars, storeVars, procVars, expired, attempts, overtaken>>

Verdicts == {"pass", "fail", "inconclusive"}
CandidateStatus == {"Frozen", "Passed", "Rejected", "Built", "Previewing", "Canarying",
                    "Promoted", "RolledBack"}

\* EpochStatus::terminal, the states the lane writes
Terminal == {"Promoted", "Rejected", "Inconclusive", "BudgetExhausted", "RolledBack"}

NoCommand == [name |-> "none"]
NoSight == [none |-> TRUE]

Init ==
    /\ pointers = NoPointers /\ rolledBack = {}
    /\ observations = [r \in Releases |-> {}] /\ opportunities = {}
    /\ epoch = [e \in Epochs |-> [status |-> "none", parent |-> NoRelease, candidates |-> {},
                                  holdout |-> 0]]
    /\ status = [c \in Candidates |-> "none"]
    /\ epochOf = [c \in Candidates |-> "none"]
    /\ risk = [c \in Candidates |-> "low"]
    /\ tested = {} /\ built = {}
    /\ gates = [c \in Candidates |-> {}]
    /\ health = [c \in Candidates |-> {}]
    /\ cmd = [p \in Procs |-> NoCommand]
    /\ pc = [p \in Procs |-> "idle"]
    /\ sight = [p \in Procs |-> NoSight]
    /\ expired = {} /\ attempts = {} /\ overtaken = FALSE

-----------------------------------------------------------------------------
(* Steps *)

At(p, name, step) == cmd[p].name = name /\ pc[p] = step

\* A reconciled process takes up its command: its first check passes.
Begin(p, command, step, seen) ==
    /\ pc[p] = "ready"
    /\ cmd' = [cmd EXCEPT ![p] = command] /\ pc' = [pc EXCEPT ![p] = step]
    /\ sight' = [sight EXCEPT ![p] = seen]

Goto(p, step) == pc' = [pc EXCEPT ![p] = step] /\ UNCHANGED <<cmd, sight>>

Reads(p, step, seen) ==
    /\ pc' = [pc EXCEPT ![p] = step] /\ sight' = [sight EXCEPT ![p] = seen]
    /\ UNCHANGED cmd

Done(p) ==
    /\ pc' = [pc EXCEPT ![p] = "idle"] /\ cmd' = [cmd EXCEPT ![p] = NoCommand]
    /\ sight' = [sight EXCEPT ![p] = NoSight]

OnlyReads == UNCHANGED <<releaseVars, storeVars, expired, attempts, overtaken>>

\* One operation of the release store.
Deploy(op, r) ==
    /\ Allowed(op, r, pointers)
    /\ pointers' = NextPointers(op, r, pointers)
    /\ rolledBack' = IF op \in {"cancel_canary", "rollback"}
                     THEN rolledBack \cup {Deployment(op, r, pointers).previous}
                     ELSE rolledBack

\* ensure_current_stable
CurrentStable(r) == r # NoRelease /\ pointers["stable"] = r

\* A transaction writes the status of a candidate and of its epoch.
Write(c, s, es) ==
    /\ status' = [status EXCEPT ![c] = s]
    /\ epoch' = [epoch EXCEPT ![epochOf[c]].status = es]

\* It does so whatever they are by now, as the release store does.
Overtakes(c, checked, s) == overtaken' = (overtaken \/ status[c] \notin {checked, s})

\* The process dies, or a check fails and the command returns its error.
Stop(p) ==
    /\ pc[p] # "idle"
    /\ Done(p) /\ OnlyReads

Expire(e) ==
    /\ epoch[e].status # "none" /\ e \notin expired
    /\ expired' = expired \cup {e}
    /\ UNCHANGED <<releaseVars, storeVars, procVars, attempts, overtaken>>

-----------------------------------------------------------------------------
(* reconcile_deployment_state: reads that other commands may separate, then a  *)
(* transaction                                                               *)

Registered == {c \in Candidates : status[c] # "none"}

ReconcileSnapshot(p) ==
    /\ pc[p] = "idle"
    /\ IF Registered = {} THEN Goto(p, "ready")
       ELSE Reads(p, "log", [status |-> status, built |-> built, log |-> {}, preview |-> NoRelease,
                             canary |-> NoRelease, stable |-> NoRelease])
    /\ OnlyReads

ReconcileRead(p) ==
    /\ \/ /\ pc[p] = "log" /\ Reads(p, "preview", [sight[p] EXCEPT !.log = rolledBack])
       \/ /\ pc[p] = "preview"
          /\ Reads(p, "canary", [sight[p] EXCEPT !.preview = pointers["preview"]])
       \/ /\ pc[p] = "canary"
          /\ Reads(p, "stable", [sight[p] EXCEPT !.canary = pointers["canary"]])
       \/ /\ pc[p] = "stable"
          /\ Reads(p, "reconcile", [sight[p] EXCEPT !.stable = pointers["stable"]])
    /\ OnlyReads

\* A preview is looked for before a canary.
MutDesired(c, seen) ==
    CASE seen.preview = c -> "Previewing"
      [] seen.preview # c /\ seen.canary = c -> "Canarying"
      [] c \notin {seen.preview, seen.canary} /\ seen.stable = c -> "Promoted"
      [] c \notin {seen.preview, seen.canary, seen.stable} /\ c \in seen.log -> "RolledBack"
      [] OTHER -> seen.status[c]

\* What the release store says of a candidate; its status where it says nothing.
Desired(c, seen) ==
    CASE seen.canary = c -> "Canarying"
      [] seen.canary # c /\ seen.preview = c -> "Previewing"
      [] c \notin {seen.preview, seen.canary} /\ seen.stable = c -> "Promoted"
      [] c \notin {seen.preview, seen.canary, seen.stable} /\ c \in seen.log -> "RolledBack"
      [] OTHER -> seen.status[c]

ReconcileCommit(p) ==
    /\ pc[p] = "reconcile"
    /\ LET stale == {c \in sight[p].built : Desired(c, sight[p]) # sight[p].status[c]}
       IN  /\ status' = [c \in Candidates |->
                            IF c \in stale THEN Desired(c, sight[p]) ELSE status[c]]
           /\ epoch' = [e \in Epochs |->
                            LET mine == {c \in stale : epochOf[c] = e}
                            IN  IF mine = {} THEN epoch[e]
                                ELSE [epoch[e] EXCEPT
                                         !.status = Desired(CHOOSE c \in mine : TRUE, sight[p])]]
    /\ Reads(p, "ready", NoSight)
    /\ UNCHANGED <<releaseVars, lane, epochOf, risk, tested, built, gates, health, expired, attempts,
                   overtaken>>

-----------------------------------------------------------------------------
(* bootstrap_stable_release *)

\* No stable release before the build, and none after it.  The build may fail,
\* and only its report is then recorded.  Every attempt has an id of its own.
BootstrapCheck(p, b) ==
    /\ pointers["stable"] = NoRelease /\ b \notin attempts
    /\ Begin(p, [name |-> "bootstrap", release |-> b], "recheck", NoSight)
    /\ attempts' = attempts \cup {b}
    /\ UNCHANGED <<releaseVars, storeVars, expired, overtaken>>

BootstrapRecheck(p) ==
    /\ At(p, "bootstrap", "recheck") /\ pointers["stable"] = NoRelease
    /\ Goto(p, "set_preview")
    /\ OnlyReads

BootstrapDeploy(p) ==
    /\ \/ /\ At(p, "bootstrap", "set_preview") /\ Deploy("set_preview", cmd[p].release)
          /\ Goto(p, "start_canary")
       \/ /\ At(p, "bootstrap", "start_canary") /\ Deploy("start_canary", cmd[p].release)
          /\ Goto(p, "promote")
       \/ At(p, "bootstrap", "promote") /\ Deploy("promote", cmd[p].release) /\ Done(p)
    /\ UNCHANGED <<storeVars, expired, attempts, overtaken>>

-----------------------------------------------------------------------------
(* observe and start_epoch *)

\* On a snapshot: a high signal, or two tasks of two groups, is an opportunity.
ObserveCheck(p, r, t) ==
    /\ Begin(p, [name |-> "observe", release |-> r, task |-> t], "commit",
             [opportunity |-> t \in HighSignal \/ Cardinality(observations[r] \cup {t}) >= 2])
    /\ OnlyReads

ObserveCommit(p) ==
    /\ At(p, "observe", "commit")
    /\ observations' = [observations EXCEPT ![cmd[p].release] = @ \cup {cmd[p].task}]
    /\ opportunities' = IF sight[p].opportunity THEN opportunities \cup {cmd[p].release}
                        ELSE opportunities
    /\ Done(p)
    /\ UNCHANGED <<releaseVars, epoch, candidateVars, expired, attempts, overtaken>>

\* The stable pointer is read before the snapshot that has the opportunity.
StartEpochStable(p, r) ==
    /\ CurrentStable(r)
    /\ Begin(p, [name |-> "start_epoch", release |-> r], "opportunity", NoSight)
    /\ OnlyReads

StartEpochCommit(p) ==
    /\ At(p, "start_epoch", "opportunity") /\ cmd[p].release \in opportunities
    /\ \E e \in Epochs :
        /\ epoch[e].status = "none"
        /\ epoch' = [epoch EXCEPT ![e].status = "Generating", ![e].parent = cmd[p].release]
    /\ Done(p)
    /\ UNCHANGED <<releaseVars, lane, candidateVars, expired, attempts, overtaken>>

-----------------------------------------------------------------------------
(* register_candidate *)

RegisterCheck(p, e, c, level) ==
    /\ epoch[e].status # "none" /\ CurrentStable(epoch[e].parent)
    /\ Begin(p, [name |-> "register", epoch |-> e, candidate |-> c, risk |-> level], "commit",
             NoSight)
    /\ OnlyReads

\* Checked again inside the transaction.
RegisterCommit(p) ==
    LET c == cmd[p].candidate
        e == cmd[p].epoch
    IN  /\ At(p, "register", "commit")
        /\ status[c] = "none" /\ epoch[e].status = "Generating"
        /\ Cardinality(epoch[e].candidates) < MaxCandidates
        /\ status' = [status EXCEPT ![c] = "Frozen"] /\ epochOf' = [epochOf EXCEPT ![c] = e]
        /\ risk' = [risk EXCEPT ![c] = cmd[p].risk]
        /\ epoch' = [epoch EXCEPT ![e].status = "Evaluating", ![e].candidates = @ \cup {c}]
        /\ Done(p)
        /\ UNCHANGED <<releaseVars, lane, tested, built, gates, health, expired, attempts, overtaken>>

-----------------------------------------------------------------------------
(* evaluate_suite and evaluate_input *)

ParentIsStable(c) == CurrentStable(epoch[epochOf[c]].parent)

\* A command on a candidate.
For(name, c) == [name |-> name, candidate |-> c]

EvaluateCheck(p, c) ==
    /\ status[c] = "Frozen" /\ ParentIsStable(c)
    /\ Begin(p, For("evaluate", c), "build", NoSight)
    /\ OnlyReads

\* The trusted build passed; its report is recorded.
EvaluateBuild(p) ==
    /\ At(p, "evaluate", "build")
    /\ tested' = tested \cup {cmd[p].candidate}
    /\ Goto(p, "paired")
    /\ UNCHANGED <<releaseVars, lane, epoch, status, epochOf, risk, built, gates, health, expired,
                   attempts, overtaken>>

\* The paired executions ended and the source did not change meanwhile.
EvaluatePaired(p) ==
    /\ At(p, "evaluate", "paired") /\ ParentIsStable(cmd[p].candidate)
    /\ Goto(p, "input")
    /\ OnlyReads

\* evaluate_input looks at a snapshot of its own.
EvaluateInput(p, verdict, queries) ==
    LET c == cmd[p].candidate IN
    /\ At(p, "evaluate", "input")
    /\ status[c] = "Frozen" /\ epochOf[c] \notin expired
    /\ epoch[epochOf[c]].holdout + queries <= MaxHoldout
    /\ Reads(p, "commit", [verdict |-> verdict, queries |-> queries])
    /\ OnlyReads

\* An inconclusive evaluation passes.
MutAfterGate(verdict) ==
    CASE verdict = "pass"         -> <<"Passed", "AwaitingPromotion">>
      [] verdict = "fail"         -> <<"Rejected", "Rejected">>
      [] verdict = "inconclusive" -> <<"Passed", "AwaitingPromotion">>

\* Candidate and epoch status after the gate.
AfterGate(verdict) ==
    CASE verdict = "pass"         -> <<"Passed", "AwaitingPromotion">>
      [] verdict = "fail"         -> <<"Rejected", "Rejected">>
      [] verdict = "inconclusive" -> <<"Rejected", "Inconclusive">>

\* The transaction does not look at the status or the budget again.
EvaluateCommit(p) ==
    LET c == cmd[p].candidate
        after == AfterGate(sight[p].verdict)
    IN  /\ At(p, "evaluate", "commit")
        /\ status' = [status EXCEPT ![c] = after[1]]
        /\ epoch' = [epoch EXCEPT ![epochOf[c]].status = after[2],
                                  ![epochOf[c]].holdout = @ + sight[p].queries]
        /\ gates' = [gates EXCEPT ![c] = @ \cup {sight[p].verdict}]
        /\ Overtakes(c, "Frozen", "Frozen")
        /\ Done(p)
        /\ UNCHANGED <<releaseVars, lane, epochOf, risk, tested, built, health, expired, attempts>>

-----------------------------------------------------------------------------
(* build_verified_release *)

BuildCheck(p, c) ==
    /\ c \in tested /\ status[c] = "Passed" /\ risk[c] # "high"
    /\ ParentIsStable(c)
    /\ Begin(p, For("build", c), "commit", NoSight)
    /\ OnlyReads

BuildCommit(p) ==
    LET c == cmd[p].candidate IN
    /\ At(p, "build", "commit")
    /\ Write(c, "Built", "BuildingRelease")
    /\ built' = built \cup {c}
    /\ Overtakes(c, "Passed", "Passed")
    /\ Done(p)
    /\ UNCHANGED <<releaseVars, lane, epochOf, risk, tested, gates, health, expired, attempts>>

-----------------------------------------------------------------------------
(* Deployment: check, release store, transaction *)

\* Operation of the release store and the status before and after a command.
OperationOf == [preview |-> "set_preview", canary |-> "start_canary", promote |-> "promote"]
Before == [preview |-> "Built", canary |-> "Previewing", promote |-> "Canarying"]
StatusAfter == [preview |-> "Previewing", canary |-> "Canarying", promote |-> "Promoted",
                rollback |-> "RolledBack"]

\* A candidate is previewed whatever became of it.
MutDeployCheck(p, name, c) ==
    /\ c \in built /\ status[c] \in {Before[name], "RolledBack"}
    /\ Begin(p, For(name, c), IF name = "promote" THEN "owner" ELSE "deploy",
             [checked |-> Before[name]])
    /\ OnlyReads

DeployCheck(p, name, c) ==
    /\ c \in built /\ status[c] = Before[name]
    /\ Begin(p, For(name, c), IF name = "promote" THEN "owner" ELSE "deploy",
             [checked |-> Before[name]])
    /\ OnlyReads

\* promote: the candidate owns the canary pointer ...
PromoteOwner(p) ==
    /\ At(p, "promote", "owner") /\ pointers["canary"] = cmd[p].candidate
    /\ Goto(p, "health")
    /\ OnlyReads

\* ... and every observation of it is healthy, of at least one.
PromoteHealth(p) ==
    /\ At(p, "promote", "health") /\ health[cmd[p].candidate] = {TRUE}
    /\ Goto(p, "deploy")
    /\ OnlyReads

DeployRelease(p) ==
    /\ pc[p] = "deploy" /\ cmd[p].name \in DOMAIN Before
    /\ Deploy(OperationOf[cmd[p].name], cmd[p].candidate)
    /\ Overtakes(cmd[p].candidate, sight[p].checked, StatusAfter[cmd[p].name])
    /\ Goto(p, "commit")
    /\ UNCHANGED <<storeVars, expired, attempts>>

\* rollback of a canary, or of the stable release when there is no canary
RollbackCheck(p, c) ==
    /\ c \in built /\ status[c] \in {"Canarying", "Promoted"}
    /\ Begin(p, For("rollback", c), "owner", [checked |-> status[c]])
    /\ OnlyReads

RollbackOwner(p) ==
    LET c == cmd[p].candidate IN
    /\ \/ /\ At(p, "rollback", "owner") /\ sight[p].checked = "Canarying"
          /\ pointers["canary"] = c /\ Goto(p, "deploy")
       \/ /\ At(p, "rollback", "owner") /\ sight[p].checked = "Promoted"
          /\ pointers["canary"] = NoRelease /\ Goto(p, "stable_owner")
       \/ At(p, "rollback", "stable_owner") /\ pointers["stable"] = c /\ Goto(p, "deploy")
    /\ OnlyReads

RollbackRelease(p) ==
    /\ At(p, "rollback", "deploy")
    /\ IF sight[p].checked = "Canarying" THEN Deploy("cancel_canary", cmd[p].candidate)
       ELSE Deploy("rollback", Restored(pointers))
    /\ Overtakes(cmd[p].candidate, sight[p].checked, "RolledBack")
    /\ Goto(p, "commit")
    /\ UNCHANGED <<storeVars, expired, attempts>>

\* The epoch keeps its status.
MutDeployCommit(p) ==
    LET c == cmd[p].candidate
        s == StatusAfter[cmd[p].name]
    IN  /\ pc[p] = "commit" /\ cmd[p].name \in DOMAIN StatusAfter
        /\ status' = [status EXCEPT ![c] = s] /\ UNCHANGED epoch
        /\ Overtakes(c, sight[p].checked, s)
        /\ Done(p)
        /\ UNCHANGED <<releaseVars, lane, epochOf, risk, tested, built, gates, health, expired,
                       attempts>>

\* update_candidate_deployment
DeployCommit(p) ==
    LET c == cmd[p].candidate
        s == StatusAfter[cmd[p].name]
    IN  /\ pc[p] = "commit" /\ cmd[p].name \in DOMAIN StatusAfter
        /\ Write(c, s, s)
        /\ Overtakes(c, sight[p].checked, s)
        /\ Done(p)
        /\ UNCHANGED <<releaseVars, lane, epochOf, risk, tested, built, gates, health, expired,
                       attempts>>

-----------------------------------------------------------------------------
(* record_canary_observation and enforce_deadlines *)

ObservationCheck(p, c, healthy) ==
    /\ status[c] = "Canarying"
    /\ Begin(p, [name |-> "observation", candidate |-> c, healthy |-> healthy], "commit", NoSight)
    /\ OnlyReads

ObservationCommit(p) ==
    /\ At(p, "observation", "commit")
    /\ health' = [health EXCEPT ![cmd[p].candidate] = @ \cup {cmd[p].healthy}]
    /\ Done(p)
    /\ UNCHANGED <<releaseVars, lane, epoch, status, epochOf, risk, tested, built, gates, expired,
                   attempts, overtaken>>

\* Only the epoch ends; its candidate keeps its status.
EnforceDeadlines(p) ==
    /\ pc[p] = "ready"
    /\ epoch' = [e \in Epochs |->
                    IF e \in expired /\ epoch[e].status \notin Terminal
                    THEN [epoch[e] EXCEPT !.status = "BudgetExhausted"] ELSE epoch[e]]
    /\ Done(p)
    /\ UNCHANGED <<releaseVars, lane, candidateVars, expired, attempts, overtaken>>

-----------------------------------------------------------------------------

\* A command begins; what an operator asks for is arbitrary.
Command(p) ==
    \/ \E b \in Bootstraps : BootstrapCheck(p, b)
    \/ \E r \in Sources, t \in Tasks : ObserveCheck(p, r, t)
    \/ \E r \in Releases : StartEpochStable(p, r)
    \/ \E e \in Epochs, c \in Candidates, level \in {"low", "high"} : RegisterCheck(p, e, c, level)
    \/ \E c \in Candidates :
        \/ EvaluateCheck(p, c) \/ BuildCheck(p, c) \/ RollbackCheck(p, c)
        \/ \E name \in DOMAIN Before : DeployCheck(p, name, c)
        \/ \E healthy \in BOOLEAN : ObservationCheck(p, c, healthy)
    \/ EnforceDeadlines(p)

Step(p) ==
    \/ ReconcileRead(p) \/ ReconcileCommit(p)
    \/ BootstrapRecheck(p) \/ BootstrapDeploy(p)
    \/ ObserveCommit(p) \/ StartEpochCommit(p) \/ RegisterCommit(p)
    \/ EvaluateBuild(p) \/ EvaluatePaired(p) \/ EvaluateCommit(p)
    \/ \E verdict \in Verdicts, queries \in 1..(MaxHoldout + 1) : EvaluateInput(p, verdict, queries)
    \/ BuildCommit(p)
    \/ PromoteOwner(p) \/ PromoteHealth(p) \/ DeployRelease(p)
    \/ RollbackOwner(p) \/ RollbackRelease(p) \/ DeployCommit(p)
    \/ ObservationCommit(p)

Next ==
    \/ \E p \in Procs : ReconcileSnapshot(p) \/ Command(p) \/ Step(p) \/ Stop(p)
    \/ \E e \in Epochs : Expire(e)

Spec == Init /\ [][Next]_vars
-----------------------------------------------------------------------------
(* Properties *)

\* However commands overlap and stop, a release that is or was deployed comes
\* from a candidate whose tested build passed the gate and whose risk is low, or
\* from a bootstrap: reconciliation and blind transactions never open a way past
\* the gate.
DeployedIsVetted ==
    \A n \in PointerNames, c \in Candidates :
        pointers[n] = c => c \in built \cap tested /\ "pass" \in gates[c] /\ risk[c] = "low"

\* The epoch status that goes with a candidate's.
EpochStatusOf(c) ==
    CASE status[c] = "Frozen"   -> {"Evaluating"}
      [] status[c] = "Passed"   -> {"AwaitingPromotion"}
      [] status[c] = "Rejected" -> {"Rejected", "Inconclusive"}
      [] status[c] = "Built"    -> {"BuildingRelease"}
      [] OTHER                  -> {status[c]}

\* Candidate and epoch move together, in every transaction of every command and
\* in a reconciliation; only the deadline ends an epoch by itself.
EpochFollowsCandidate ==
    \A c \in Registered :
        epoch[epochOf[c]].status \in EpochStatusOf(c) \cup {"BudgetExhausted"}

\* No command that begins after a candidate was rolled back previews it again,
\* whatever a reconciliation made of its status meanwhile, unless another command
\* wrote over a decision.  (One that passed its check before the rollback may.)
RolledBackStaysOut ==
    [][\A p \in Procs, c \in rolledBack \cap Candidates :
        pc[p] = "ready" /\ cmd'[p] = For("preview", c) => overtaken]_vars

\* The reads of a reconciliation are what the stores still hold.
SawTheStores(p) ==
    /\ sight[p].status = status /\ sight[p].built = built /\ sight[p].log = rolledBack
    /\ \A n \in {"preview", "canary", "stable"} : sight[p][n] = pointers[n]

\* The candidate a pointer names has the status that goes with it.
PointedAgrees ==
    \A c \in built :
        /\ pointers["canary"] = c => status[c] = "Canarying"
        /\ pointers["preview"] = c /\ pointers["canary"] # c => status[c] = "Previewing"
        /\ pointers["stable"] = c /\ c \notin {pointers["preview"], pointers["canary"]} =>
               status[c] = "Promoted"

\* A command that starts after others stopped anywhere, between the release
\* store and their own transaction included, and that nothing interrupts, leaves
\* every deployed candidate with the status of its pointer.
RestartRepairs ==
    [][\A p \in Procs :
        pc[p] = "reconcile" /\ pc'[p] = "ready" /\ SawTheStores(p) => PointedAgrees']_vars

\* The same for a candidate no pointer names: it is not on the way out any more.
UnpointedAgrees ==
    \A c \in built :
        status[c] \in {"Previewing", "Canarying"} => c \in {pointers["preview"], pointers["canary"]}

RestartRepairsAll ==
    [][\A p \in Procs :
        pc[p] = "reconcile" /\ pc'[p] = "ready" /\ SawTheStores(p) => UnpointedAgrees']_vars

\* A candidate replaces the stable release it was made from and measured against.
PromotedOverItsParent ==
    [][\A p \in Procs :
        At(p, "promote", "deploy") /\ pc'[p] = "commit" =>
            pointers["stable"] = epoch[epochOf[cmd[p].candidate]].parent]_vars
=============================================================================
