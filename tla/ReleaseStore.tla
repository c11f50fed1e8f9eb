---------------------------- MODULE ReleaseStore ----------------------------
(***************************************************************************)
(* The release store on disk: a deployment writes a pending file, appends a   *)
(* record to the deployment log, replaces the four pointer files one after    *)
(* the other and removes the pending file.  Whoever takes the store's file     *)
(* lock next completes what a stopped process has left.                        *)
(*                                                                         *)
(* A step of a process is one durable file operation.  Digests are modelled    *)
(* by what they are compared for: a record has a digest of its own and the     *)
(* digest of the record before it.                                            *)
(*                                                                         *)
(* Source: crates/golutra-agent-release/src/lib.rs (ReleaseStore).            *)
(***************************************************************************)
EXTENDS ReleaseOperations, FiniteSets

CONSTANTS
    Procs,           \* processes that use the store
    MaxDeployments,  \* bound: deployments begun
    MaxStops,        \* bound: processes that stop inside an operation
    NoProc, NoPending

ASSUME BoundsAssumption == MaxDeployments \in Nat /\ MaxStops \in Nat
ASSUME NoProcAssumption == NoProc \notin Procs

\* DeploymentRecord and PendingDeployment
DeploymentRecord ==
    [phase: {"preview", "canary", "promoted", "rolled_back"}, release: Releases,
     previous: Releases \cup {NoRelease}, sequence: Nat, digest: Nat, previousDigest: Nat]
PendingDeployment ==
    [record: DeploymentRecord, pointers: [PointerNames -> Releases \cup {NoRelease}]]

ASSUME NoPendingAssumption == NoPending \notin PendingDeployment

VARIABLES
    lines,     \* deployment.jsonl: its lines, each a sequence of fragments
    tail,      \* what follows the last newline
    files,     \* the pointer files
    pending,   \* deployment.pending.json
    lock,      \* the file lock
    pc,        \* control state of each process
    target,    \* the deployment a process carries out: a pending file's content
    resume,    \* where a process goes on after it has completed a deployment
    begun,     \* deployments begun; makes digests distinct
    stops,
    cut,       \* a process has stopped between a record and its newline
    refused    \* an operation has returned an integrity error

diskVars == <<lines, tail, files, pending>>
procVars == <<lock, pc, target, resume>>
vars == <<diskVars, procVars, begun, stops, cut, refused>>

-----------------------------------------------------------------------------
(* The deployment log *)

Whole(record) == [record |-> record, whole |-> TRUE]
Torn(record) == [record |-> record, whole |-> FALSE]

\* content.lines(): an unterminated last line counts
Lines == IF tail = <<>> THEN lines ELSE Append(lines, tail)

LastDigest(records) == IF records = <<>> THEN 0 ELSE Last(records).digest

\* Each line is one complete record.
Parses(content) == \A i \in 1..Len(content) : Len(content[i]) = 1 /\ content[i][1].whole

RecordsOf(content) == [i \in 1..Len(content) |-> content[i][1].record]

\* verify_deployment_log_content
Verifies(content) ==
    /\ Parses(content)
    /\ \A i \in 1..Len(content) :
          /\ RecordsOf(content)[i].sequence = i
          /\ RecordsOf(content)[i].previousDigest = LastDigest(SubSeq(RecordsOf(content), 1, i - 1))

Records == RecordsOf(Lines)

\* The pending record is the next one of the log.
Extends(records) ==
    /\ pending.record.sequence = Len(records) + 1
    /\ pending.record.previousDigest = LastDigest(records)

\* The log ends in a record with the number of the pending one.
Appended == Records # <<>> /\ Last(Records).sequence = pending.record.sequence

\* recover_interrupted_deployment_append: what follows the last newline is
\* the beginning of the pending record
IsInterruptedAppend ==
    tail = <<Torn(pending.record)>> /\ Verifies(lines) /\ Extends(RecordsOf(lines))

\* verify_pointer_state_against_log
PointersMatchRecords(records) == files = ExpectedPointers(records)

-----------------------------------------------------------------------------

Init ==
    /\ lines = <<>> /\ tail = <<>> /\ files = NoPointers /\ pending = NoPending
    /\ lock = NoProc
    /\ pc = [p \in Procs |-> "idle"]
    /\ target = [p \in Procs |-> NoPending]
    /\ resume = [p \in Procs |-> "idle"]
    /\ begun = 0 /\ stops = 0
    /\ cut = FALSE /\ refused = FALSE

Goto(p, label) == pc' = [pc EXCEPT ![p] = label]

\* The operation returns; the lock is dropped.
Leave(p) ==
    /\ pc' = [pc EXCEPT ![p] = "idle"]
    /\ target' = [target EXCEPT ![p] = NoPending]
    /\ resume' = [resume EXCEPT ![p] = "idle"]
    /\ lock' = NoProc

Refuse(p) == Leave(p) /\ refused' = TRUE /\ UNCHANGED <<diskVars, begun, stops, cut>>

\* Every operation begins with the lock.
Lock(p) ==
    /\ pc[p] = "idle" /\ lock = NoProc
    /\ lock' = p /\ Goto(p, "recover")
    /\ UNCHANGED <<diskVars, target, resume, begun, stops, cut, refused>>

\* A pending deployment is always appended again.
MutLoadPending(p) ==
    /\ pc[p] = "recover" /\ pending # NoPending
    /\ Verifies(Lines)
    /\ target' = [target EXCEPT ![p] = pending]
    /\ resume' = [resume EXCEPT ![p] = "verify"]
    /\ Goto(p, "append")
    /\ UNCHANGED <<diskVars, lock, begun, stops, cut, refused>>

\* recover_deployment_locked with a pending file and a sound log: the record
\* may have been appended already
LoadPending(p) ==
    /\ pc[p] = "recover" /\ pending # NoPending
    /\ Verifies(Lines)
    /\ target' = [target EXCEPT ![p] = pending]
    /\ resume' = [resume EXCEPT ![p] = "verify"]
    /\ IF Appended
       THEN Last(Records) = pending.record /\ Goto(p, "previous-stable")
       ELSE Extends(Records) /\ Goto(p, "append")
    /\ UNCHANGED <<diskVars, lock, begun, stops, cut, refused>>

\* The torn record is cut off before it is appended again.
RepairLog(p) ==
    /\ pc[p] = "recover" /\ pending # NoPending
    /\ ~Verifies(Lines) /\ IsInterruptedAppend
    /\ tail' = <<>>
    /\ target' = [target EXCEPT ![p] = pending]
    /\ resume' = [resume EXCEPT ![p] = "verify"]
    /\ Goto(p, "append")
    /\ UNCHANGED <<lines, files, pending, lock, begun, stops, cut, refused>>

\* The log is neither sound nor repairable, or the pending record does not fit.
RefuseRecovery(p) ==
    /\ pc[p] = "recover" /\ pending # NoPending
    /\ IF Verifies(Lines)
       THEN ~(IF Appended THEN Last(Records) = pending.record ELSE Extends(Records))
       ELSE ~IsInterruptedAppend
    /\ Refuse(p)

\* Without a pending file the pointers are compared with the log.
NothingPending(p) ==
    /\ pc[p] = "recover" /\ pending = NoPending
    /\ Goto(p, "verify")
    /\ UNCHANGED <<diskVars, lock, target, resume, begun, stops, cut, refused>>

Verify(p) ==
    /\ pc[p] = "verify"
    /\ IF Verifies(Lines) /\ PointersMatchRecords(Records)
       THEN /\ Goto(p, "operate")
            /\ UNCHANGED <<diskVars, lock, target, resume, begun, stops, cut, refused>>
       ELSE Refuse(p)

\* A deployment that passes its checks becomes the pending file.
Operate(p, op, r) ==
    LET record == Deployment(op, r, files)
        next == [record |-> [phase |-> record.phase, release |-> record.release,
                             previous |-> record.previous, sequence |-> Len(Lines) + 1,
                             digest |-> begun + 1, previousDigest |-> LastDigest(Records)],
                 pointers |-> NextPointers(op, r, files)] IN
    /\ pc[p] = "operate" /\ begun < MaxDeployments
    /\ Allowed(op, r, files)
    /\ begun' = begun + 1
    /\ pending' = next
    /\ target' = [target EXCEPT ![p] = next]
    /\ resume' = [resume EXCEPT ![p] = "idle"]
    /\ Goto(p, "append")
    /\ UNCHANGED <<lines, tail, files, lock, stops, cut, refused>>

\* A read, or a deployment that fails its checks.
OnlyRead(p) ==
    /\ pc[p] = "operate"
    /\ Leave(p)
    /\ UNCHANGED <<diskVars, begun, stops, cut, refused>>

\* append_prepared_deployment_locked: the record
AppendRecord(p) ==
    /\ pc[p] = "append"
    /\ tail' = Append(tail, Whole(target[p].record))
    /\ Goto(p, "newline")
    /\ UNCHANGED <<lines, files, pending, lock, target, resume, begun, stops, cut, refused>>

\* The pending file is removed before the pointers are written.
MutAppendNewline(p) ==
    /\ pc[p] = "newline"
    /\ lines' = Append(lines, tail) /\ tail' = <<>>
    /\ pending' = NoPending
    /\ Goto(p, "previous-stable")
    /\ UNCHANGED <<files, lock, target, resume, begun, stops, cut, refused>>

\* and its newline, in a write of its own
AppendNewline(p) ==
    /\ pc[p] = "newline"
    /\ lines' = Append(lines, tail) /\ tail' = <<>>
    /\ Goto(p, "previous-stable")
    /\ UNCHANGED <<files, pending, lock, target, resume, begun, stops, cut, refused>>

\* The order of apply_pointer_state_locked.
After == [n \in PointerNames |->
             CASE n = "previous-stable" -> "stable" [] n = "stable" -> "preview"
               [] n = "preview" -> "canary" [] n = "canary" -> "remove"]

WritePointer(p) ==
    /\ pc[p] \in PointerNames
    /\ files' = [files EXCEPT ![pc[p]] = target[p].pointers[pc[p]]]
    /\ Goto(p, After[pc[p]])
    /\ UNCHANGED <<lines, tail, pending, lock, target, resume, begun, stops, cut, refused>>

\* The pending file stays.
MutRemovePending(p) ==
    /\ pc[p] = "remove"
    /\ IF resume[p] = "verify"
       THEN Goto(p, "verify") /\ UNCHANGED <<lock, target, resume>>
       ELSE Leave(p)
    /\ UNCHANGED <<diskVars, begun, stops, cut, refused>>

RemovePending(p) ==
    /\ pc[p] = "remove"
    /\ pending' = NoPending
    /\ IF resume[p] = "verify"
       THEN Goto(p, "verify") /\ UNCHANGED <<lock, target, resume>>
       ELSE Leave(p)
    /\ UNCHANGED <<lines, tail, files, begun, stops, cut, refused>>

\* The process dies or an I/O error ends its operation between two writes.
Stop(p) ==
    /\ pc[p] # "idle" /\ stops < MaxStops
    /\ stops' = stops + 1
    /\ cut' = (cut \/ pc[p] = "newline")
    /\ Leave(p)
    /\ UNCHANGED <<diskVars, begun, refused>>

\* It stops inside the write of the record.
StopInAppend(p) ==
    /\ pc[p] = "append" /\ stops < MaxStops
    /\ tail' = Append(tail, Torn(target[p].record))
    /\ stops' = stops + 1
    /\ Leave(p)
    /\ UNCHANGED <<lines, files, pending, begun, cut, refused>>

Step(p) ==
    \/ LoadPending(p) \/ RepairLog(p) \/ RefuseRecovery(p) \/ NothingPending(p) \/ Verify(p)
    \/ AppendRecord(p) \/ AppendNewline(p) \/ WritePointer(p) \/ RemovePending(p) \/ OnlyRead(p)

Next ==
    \E p \in Procs :
        \/ Lock(p) \/ Step(p) \/ Stop(p) \/ StopInAppend(p)
        \/ \E op \in Operations, r \in Releases : Operate(p, op, r)

Spec == Init /\ [][Next]_vars

\* A live process goes on; its file operations return, and a blocked lock
\* request is granted in its turn.
FairSpec == Spec /\ \A p \in Procs : WF_vars(Step(p)) /\ SF_vars(Lock(p))

-----------------------------------------------------------------------------
(* Properties *)

\* Wherever a process stops, the next one finds a log and pointers that it can
\* repair: no operation ever returns an integrity error.
JournalRecovers == ~refused

\* The one place where it is not so is between a record and its newline; a torn
\* record, a half-done set of pointers and a stop inside a recovery are repaired.
OnlyLostNewlineRefused == refused => cut

Logged(record) == [phase |-> record.phase, release |-> record.release,
                   previous |-> record.previous]

\* The complete records among the fragments of a line, and those of all lines.
WithFragment(records, fragment) ==
    IF fragment.whole THEN Append(records, fragment.record) ELSE records
RecordsIn(line) ==
    LET complete[n \in 0..Len(line)] ==
            IF n = 0 THEN <<>> ELSE WithFragment(complete[n - 1], line[n])
    IN  complete[Len(line)]
WithLine(records, line) == records \o RecordsIn(line)
AllRecords(content) ==
    LET all[n \in 0..Len(content)] ==
            IF n = 0 THEN <<>> ELSE WithLine(all[n - 1], content[n])
    IN  all[Len(content)]

\* The deployments that have happened: those of the log, which may share a
\* line, and the pending one.
EffectiveRecords ==
    LET logged == AllRecords(Lines)
    IN  IF pending # NoPending /\ (logged = <<>> \/ Last(logged) # pending.record)
        THEN Append(logged, pending.record) ELSE logged

History == [i \in 1..Len(EffectiveRecords) |-> Logged(EffectiveRecords[i])]

Pointers == IF pending # NoPending THEN pending.pointers ELSE files

Abstract == INSTANCE Deployments WITH pointers <- Pointers, history <- History

\* The journal implements deployments that happen at once: the pending file's
\* rename is the moment, and nothing that stops later undoes or repeats it.
DeploymentsAreAtomic == Abstract!Spec

\* So what the deployments guarantee holds of the files: the stable pointers name
\* releases that were promoted, each after its own preview, wherever processes
\* stop and whoever completes the deployment.
StableWasVetted == Abstract!StableWasVetted

\* A deployment whose process stopped is completed by whoever comes next, unless
\* the log cannot be read.
PendingIsCompleted ==
    \A d \in 1..MaxDeployments :
        pending # NoPending /\ begun = d ~> pending = NoPending \/ begun > d \/ refused
=============================================================================
