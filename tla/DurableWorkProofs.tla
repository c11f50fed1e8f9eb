------------------------- MODULE DurableWorkProofs -------------------------
(* Proofs about the two kinds of work that the store keeps for its hosts: the  *)
(* commands of CommandDispatch, for any hosts, requests, commands and keys,    *)
(* with and without interruptions, and the jobs of PostTaskJobs, for any tasks *)
(* and workers, any attempt budget, and both for a store that always answers   *)
(* and for one that fails.                                                    *)
EXTENDS CommandDispatch, PostTaskJobs, TLAPS
-----------------------------------------------------------------------------
(* Commands: type correctness *)

\* The types hold at the start.
LEMMA TypeInit == Init => TypeOK
  BY DEF Init, TypeOK, NoRow, Row, Unsent, Request, PcLabels, Inside, Settled

\* Leaving the dispatcher keeps the locks well typed.
LEMMA ReleaseTypes ==
    ASSUME TypeOK, NEW r, Release(r)
    PROVE  mutex' \in [Hosts -> Requests \cup {None}] /\ lease' \in [Keys -> Requests \cup {None}]
  BY DEF TypeOK, Release

\* An answered request is well typed.
LEMMA AnswerTypes ==
    ASSUME TypeOK, NEW r \in Requests,
           NEW result \in Settled \cup {"none", "error", "refused", "conflict"}, Answer(r, result),
           UNCHANGED <<journal, effects, host>>
    PROVE  TypeOK'
  <1>0. req' = [req EXCEPT ![r] = [req[r] EXCEPT !.pc = "answered", !.result = result]]
    BY DEF TypeOK, Answer
  <1>1. req' \in [Requests -> Request]
    <2>1. [req[r] EXCEPT !.pc = "answered", !.result = result] \in Request
      BY DEF TypeOK, Request, PcLabels
    <2> QED BY <1>0, <2>1 DEF TypeOK
  <1>2. req'[r].pc = "answered" /\ \A s \in Requests \ {r} : req'[s] = req[s]
    BY DEF TypeOK, Answer, Request
  <1> QED BY <1>1, <1>2, ReleaseTypes DEF TypeOK, Answer, Inside

\* The facts about one request that TypeOK adds to its record type.
RequestOK(r) ==
    /\ req[r].pc \in Inside \cup {"queued"} => req[r].host \in Hosts /\ req[r].cmd \in Commands
    /\ req[r].pc = "completing" => req[r].result \in Settled \cup {"error"}

\* Every step keeps the types.
LEMMA TypeStep == TypeOK /\ [Next]_vars => TypeOK'
  <1> SUFFICES ASSUME TypeOK, [Next]_vars PROVE TypeOK'
    OBVIOUS
  <1>a. /\ req \in [Requests -> Request]
        /\ \A r \in Requests : RequestOK(r)
        /\ journal \in [Keys -> Row]
    BY DEF TypeOK, RequestOK
  <1>b. ASSUME NEW r \in Requests, req[r].pc \in Inside
        PROVE  req[r].cmd \in Commands /\ Key(r) \in Keys /\ req[r].host \in Hosts
    BY <1>a, <1>b, KeyOfAssumption DEF RequestOK, Key
  <1>1. ASSUME NEW r \in Requests, NEW h \in Hosts, NEW c \in Commands, Send(r, h, c)
        PROVE  TypeOK'
    <2>1. req' \in [Requests -> Request]
      BY <1>1, <1>a DEF Send, Unsent, Request, PcLabels
    <2>2. \A s \in Requests : RequestOK(s)'
      BY <1>1, <1>a DEF Send, Unsent, Request, RequestOK
    <2> QED BY <1>1, <2>1, <2>2 DEF TypeOK, Send, RequestOK
  <1>2. ASSUME NEW r \in Requests, Enter(r) PROVE TypeOK'
    <2>1. CASE Answer(r, "refused")
      BY <1>2, <2>1, AnswerTypes DEF Enter
    <2>2. CASE At(r, "leasing") /\ mutex' = [mutex EXCEPT ![req[r].host] = r] /\ UNCHANGED lease
      <3>1. req' \in [Requests -> Request]
        BY <2>2, <1>a DEF At, Request, PcLabels, Inside
      <3>2. \A s \in Requests : RequestOK(s)'
        BY <1>2, <2>2, <1>a DEF Enter, At, Request, RequestOK, Inside
      <3> QED BY <1>2, <2>2, <3>1, <3>2 DEF TypeOK, Enter, RequestOK
    <2> QED BY <1>2, <2>1, <2>2 DEF Enter
  <1>3. ASSUME NEW r \in Requests, AcquireLease(r) PROVE TypeOK'
    <2>1. req' \in [Requests -> Request]
      BY <1>3, <1>a DEF AcquireLease, At, Request, PcLabels, Inside
    <2>2. \A s \in Requests : RequestOK(s)'
      BY <1>3, <1>a DEF AcquireLease, At, Request, RequestOK, Inside
    <2> QED BY <1>3, <2>1, <2>2 DEF TypeOK, AcquireLease, RequestOK
  <1>4. ASSUME NEW r \in Requests, Claim(r) PROVE TypeOK'
    <2>1. req[r].cmd \in Commands /\ Key(r) \in Keys
      BY <1>4, <1>b DEF Claim, Inside
    <2>2. CASE /\ At(r, "running") /\ UNCHANGED <<mutex, lease>>
               /\ journal' = [journal EXCEPT ![Key(r)] = [cmd |-> req[r].cmd, status |-> "processing"]]
      <3>1. req' \in [Requests -> Request]
        BY <2>2, <1>a DEF At, Request, PcLabels, Inside
      <3>2. \A s \in Requests : RequestOK(s)'
        BY <1>4, <2>2, <1>a DEF Claim, At, Request, RequestOK, Inside
      <3>3. journal' \in [Keys -> Row]
        BY <1>a, <2>1, <2>2 DEF Row
      <3> QED BY <1>4, <2>2, <3>1, <3>2, <3>3 DEF TypeOK, Claim, RequestOK
    <2>3. CASE /\ ~Claimed(journal[Key(r)], req[r].cmd) /\ UNCHANGED journal
               /\ Answer(r, IF journal[Key(r)].cmd = req[r].cmd
                            THEN journal[Key(r)].status ELSE "conflict")
      <3>1. journal[Key(r)].status = "processing" => journal[Key(r)].cmd # req[r].cmd
        BY <2>3 DEF Claimed
      <3>2. (IF journal[Key(r)].cmd = req[r].cmd THEN journal[Key(r)].status ELSE "conflict")
              \in Settled \cup {"none", "error", "refused", "conflict"}
        BY <1>a, <2>1, <3>1 DEF Row
      <3> QED BY <1>4, <2>3, <3>2, AnswerTypes DEF Claim
    <2>4. CASE Answer(r, "error") /\ UNCHANGED journal
      BY <1>4, <2>4, AnswerTypes DEF Claim
    <2> QED BY <1>4, <2>2, <2>3, <2>4 DEF Claim
  <1>5. ASSUME NEW r \in Requests, Run(r) PROVE TypeOK'
    <2>1. PICK result \in Settled \cup {"error"}, n \in 0..1 :
            /\ effects' = [effects EXCEPT ![req[r].cmd] = @ + n]
            /\ req' = [req EXCEPT ![r].pc = "completing", ![r].ran = TRUE, ![r].result = result]
      BY <1>5 DEF Run
    <2>2. effects' \in [Commands -> Nat]
      <3>1. effects \in [Commands -> Nat] /\ req[r].cmd \in Commands
        BY <1>5, <1>b DEF TypeOK, Run, Inside
      <3>2. effects[req[r].cmd] + n \in Nat
        BY <3>1
      <3> QED BY <2>1, <3>1, <3>2
    <2>3. req' \in [Requests -> Request]
      <3>1. [req[r] EXCEPT !.pc = "completing", !.ran = TRUE, !.result = result] \in Request
        BY <1>a DEF Request, PcLabels, Inside
      <3> QED BY <2>1, <1>a, <3>1
    <2>4. \A s \in Requests : RequestOK(s)'
      BY <1>5, <2>1, <1>a DEF Run, Request, RequestOK, Inside
    <2> QED BY <1>5, <2>2, <2>3, <2>4 DEF TypeOK, Run, RequestOK
  <1>6. ASSUME NEW r \in Requests, Complete(r) PROVE TypeOK'
    <2>1. Key(r) \in Keys /\ req[r].result \in Settled \cup {"error"}
      BY <1>6, <1>a, <1>b DEF Complete, Inside, RequestOK
    <2>2. mutex' \in [Hosts -> Requests \cup {None}] /\ lease' \in [Keys -> Requests \cup {None}]
      BY <1>6, ReleaseTypes DEF Complete, Answer
    <2>3. journal' \in [Keys -> Row]
      BY <1>6, <1>a, <2>1 DEF Complete, Settlement, Row, Settled
    <2>4. req' \in [Requests -> Request] /\ \A s \in Requests : RequestOK(s)'
      BY <1>6, <1>a DEF Complete, Answer, Request, RequestOK, PcLabels, Inside
    <2> QED BY <1>6, <2>2, <2>3, <2>4 DEF TypeOK, Complete, RequestOK
  <1>7. ASSUME NEW r \in Requests, Disconnect(r) PROVE TypeOK'
    <2>1. req' \in [Requests -> Request] /\ \A s \in Requests : RequestOK(s)'
      BY <1>7, <1>a DEF Disconnect, At, Request, RequestOK, PcLabels, Inside
    <2> QED BY <1>7, <2>1, ReleaseTypes DEF TypeOK, Disconnect, RequestOK
  <1>8. ASSUME NEW h \in Hosts, Crash(h) PROVE TypeOK'
    <2>1. req' \in [Requests -> Request]
      BY <1>8, <1>a DEF Crash, Request, PcLabels
    <2>2. \A s \in Requests : RequestOK(s)'
      BY <1>8, <1>a DEF Crash, Request, RequestOK, Inside
    <2> QED BY <1>8, <2>1, <2>2 DEF TypeOK, Crash, RequestOK
  <1>9. ASSUME NEW h \in Hosts, BeginClose(h) \/ CollectTasks(h) PROVE TypeOK'
    BY <1>9 DEF TypeOK, BeginClose, CollectTasks
  <1>10. CASE UNCHANGED vars
    BY <1>10 DEF TypeOK, vars
  <1> QED
    BY CommandOfAssumption, <1>1, <1>2, <1>3, <1>4, <1>5, <1>6, <1>7, <1>8, <1>9, <1>10 DEF Next, RequestStep

\* Rows, locks and requests keep their types.
THEOREM TypeCorrect == Spec => []TypeOK
  BY TypeInit, TypeStep, PTL DEF Spec

-----------------------------------------------------------------------------
(* Commands: the inductive invariant.  The dispatcher's mutex and the key's   *)
(* file lock are taken in separate steps and all of a request's knowledge of  *)
(* the journal depends on holding the lock, so lock ownership is part of it,  *)
(* and so is what the journal says while a handler runs and after the answer. *)

\* The states in which a request holds the lock of its key
HoldsLease == {"claiming", "running", "completing"}

\* A request that was sent carries a command; one that was not is untouched.
SentHasCommand ==
    \A r \in Requests :
        IF req[r].pc = "unsent" THEN req[r] = Unsent
        ELSE req[r].cmd \in Commands /\ req[r].host \in Hosts

MutexHeld == \A r \in Requests : req[r].pc \in Inside => mutex[req[r].host] = r

LeaseHeld == \A r \in Requests : req[r].pc \in HoldsLease => lease[Key(r)] = r

\* A handler is run once per delivery, and then the delivery is nearly over.
RanIsOver == \A r \in Requests : req[r].ran => req[r].pc \in {"completing", "answered", "gone"}

\* While a handler runs, the journal holds its command as unsettled.
RunningIsProcessing ==
    \A r \in Requests :
        req[r].pc \in {"running", "completing"} =>
            journal[Key(r)] = [cmd |-> req[r].cmd, status |-> "processing"]

\* A delivery that ran its handler is answered only after the settlement.
AnsweredRunIsSettled ==
    \A r \in Requests :
        req[r].ran /\ req[r].pc = "answered" => journal[Key(r)].status \in Settled

\* An acknowledgement is the stored one.
AcknowledgedIsStored ==
    \A r \in Acknowledged : journal[Key(r)] = [cmd |-> req[r].cmd, status |-> req[r].result]

DispatchInv ==
    /\ SentHasCommand
    /\ MutexHeld
    /\ LeaseHeld
    /\ ClosedHostIsQuiet
    /\ RanIsOver
    /\ RunningIsProcessing
    /\ AnsweredRunIsSettled
    /\ AcknowledgedIsStored
    /\ RerunOnlyIfCutOff

IInv == TypeOK /\ DispatchInv

\* The inductive invariant holds at the start.
LEMMA IInvInit == Init => IInv
  <1> SUFFICES ASSUME Init PROVE DispatchInv
    BY TypeInit DEF IInv
  <1> QED
    BY DEF Init, Unsent, DispatchInv, SentHasCommand, MutexHeld, LeaseHeld, ClosedHostIsQuiet,
           RanIsOver, RunningIsProcessing, AnsweredRunIsSettled, AcknowledgedIsStored,
           RerunOnlyIfCutOff, RanFor, Acknowledged, Inside, HoldsLease, Settled

\* Leaving the dispatcher, answered or not, disturbs no other request.
LEMMA LeavingIsQuiet ==
    ASSUME TypeOK, DispatchInv, NEW r \in Requests, Release(r), UNCHANGED host,
           req[r].pc # "unsent", req'[r].pc \in {"answered", "gone"},
           req'[r].cmd = req[r].cmd, req'[r].host = req[r].host,
           \A s \in Requests \ {r} : req'[s] = req[s]
    PROVE  SentHasCommand' /\ MutexHeld' /\ LeaseHeld' /\ ClosedHostIsQuiet' /\ RanIsOver'
  <1> USE DEF DispatchInv
  <1>1. \A s \in Requests : req[s].pc # "unsent" => Key(s) \in Keys /\ req[s].host \in Hosts
    BY KeyOfAssumption DEF SentHasCommand, Key
  <1>2. SentHasCommand' /\ RanIsOver'
    BY DEF SentHasCommand, RanIsOver
  <1>3. MutexHeld'
    BY <1>1, NoneAssumption DEF MutexHeld, Release, Inside
  <1>4. LeaseHeld'
    BY <1>1, NoneAssumption DEF LeaseHeld, Release, HoldsLease, Key
  <1>5. ClosedHostIsQuiet'
    BY DEF ClosedHostIsQuiet, Inside
  <1> QED BY <1>2, <1>3, <1>4, <1>5

\* Every step keeps the inductive invariant.
LEMMA IInvStep == IInv /\ [Next]_vars => IInv'
  <1> SUFFICES ASSUME TypeOK, DispatchInv, [Next]_vars, TypeOK' PROVE DispatchInv'
    BY TypeStep DEF IInv
  <1> USE DEF DispatchInv
  <1> DEFINE JournalInv == RunningIsProcessing /\ AnsweredRunIsSettled /\ AcknowledgedIsStored
                           /\ RerunOnlyIfCutOff
  <1>0. /\ req \in [Requests -> Request]
        /\ journal \in [Keys -> Row]
        /\ mutex \in [Hosts -> Requests \cup {None}]
        /\ lease \in [Keys -> Requests \cup {None}]
        /\ host \in [Hosts -> {"up", "closing", "closed", "dead"}]
        /\ \A r \in Requests : req[r].pc # "unsent" => Key(r) \in Keys /\ req[r].host \in Hosts
    BY KeyOfAssumption DEF TypeOK, SentHasCommand, Key
  <1>1. ASSUME NEW r \in Requests, NEW h \in Hosts, NEW c \in Commands, Send(r, h, c)
        PROVE  DispatchInv'
    <2>1. /\ \A s \in Requests \ {r} : req'[s] = req[s]
          /\ req'[r].pc = "queued" /\ req'[r].cmd = c /\ req'[r].host = h /\ ~req'[r].ran
      BY <1>0, <1>1 DEF Send, Unsent
    <2>2. UNCHANGED <<journal, mutex, lease, host>>
      BY <1>1 DEF Send
    <2>3. SentHasCommand' /\ MutexHeld' /\ LeaseHeld' /\ ClosedHostIsQuiet' /\ RanIsOver'
      BY <2>1, <2>2 DEF SentHasCommand, MutexHeld, LeaseHeld, ClosedHostIsQuiet, RanIsOver,
                        Inside, HoldsLease, Key
    <2>4. JournalInv'
      BY <2>1, <2>2 DEF RunningIsProcessing, AnsweredRunIsSettled, AcknowledgedIsStored,
                        RerunOnlyIfCutOff, RanFor, Acknowledged, Key
    <2> QED BY <2>3, <2>4
  <1>2. ASSUME NEW r \in Requests, Enter(r) PROVE DispatchInv'
    <2>0. /\ \A s \in Requests \ {r} : req'[s] = req[s]
          /\ req'[r].cmd = req[r].cmd /\ req'[r].host = req[r].host /\ req'[r].ran = req[r].ran
          /\ req[r].pc = "queued" /\ ~req[r].ran
          /\ UNCHANGED <<journal, host>>
      BY <1>0, <1>2 DEF Enter, Answer, At, Request, RanIsOver
    <2>1. CASE Answer(r, "refused")
      <3>1. req'[r].pc = "answered" /\ req'[r].result = "refused"
        BY <1>0, <2>1 DEF Answer, Request
      <3>2. JournalInv'
        BY <2>0, <3>1 DEF RunningIsProcessing, AnsweredRunIsSettled, AcknowledgedIsStored,
                          RerunOnlyIfCutOff, RanFor, Acknowledged, Key, Settled
      <3> QED BY <2>0, <2>1, <3>1, <3>2, LeavingIsQuiet DEF Answer
    <2>2. CASE /\ MayEnter(r) /\ At(r, "leasing")
               /\ mutex' = [mutex EXCEPT ![req[r].host] = r] /\ UNCHANGED lease
      <3>1. req'[r].pc = "leasing"
        BY <1>0, <2>2 DEF At, Request
      <3>2. JournalInv'
        BY <2>0, <3>1 DEF RunningIsProcessing, AnsweredRunIsSettled, AcknowledgedIsStored,
                          RerunOnlyIfCutOff, RanFor, Acknowledged, Key
      <3>3. MutexHeld'
        BY <1>0, <1>2, <2>0, <2>2, <3>1, NoneAssumption DEF Enter, MutexHeld, Inside
      <3>4. SentHasCommand' /\ LeaseHeld' /\ ClosedHostIsQuiet' /\ RanIsOver'
        BY <1>0, <2>0, <2>2, <3>1
        DEF SentHasCommand, LeaseHeld, ClosedHostIsQuiet, RanIsOver, Inside, HoldsLease, Key, MayEnter
      <3> QED BY <3>2, <3>3, <3>4
    <2> QED BY <1>2, <2>1, <2>2 DEF Enter
  <1>3. ASSUME NEW r \in Requests, AcquireLease(r) PROVE DispatchInv'
    BY <1>0, <1>3, NoneAssumption
    DEF AcquireLease, At, Request, SentHasCommand, MutexHeld, LeaseHeld, ClosedHostIsQuiet,
        RanIsOver, RunningIsProcessing, AnsweredRunIsSettled, AcknowledgedIsStored,
        RerunOnlyIfCutOff, RanFor, Acknowledged, Inside, HoldsLease, Key
  <1>4. ASSUME NEW r \in Requests, Claim(r) PROVE DispatchInv'
    <2>0. /\ \A s \in Requests \ {r} : req'[s] = req[s]
          /\ req'[r].cmd = req[r].cmd /\ req'[r].host = req[r].host /\ req'[r].ran = req[r].ran
          /\ req[r].pc = "claiming" /\ ~req[r].ran /\ Key(r) \in Keys /\ lease[Key(r)] = r
          /\ UNCHANGED host
      BY <1>0, <1>4 DEF Claim, Answer, At, Request, RanIsOver, LeaseHeld, HoldsLease
    <2>1. ASSUME NEW result, Answer(r, result), UNCHANGED journal,
                 result \in Settled => journal[Key(r)] = [cmd |-> req[r].cmd, status |-> result]
          PROVE  DispatchInv'
      <3>1. req'[r].pc = "answered" /\ req'[r].result = result
        BY <1>0, <2>1 DEF Answer, Request
      <3>2. JournalInv'
        BY <2>0, <2>1, <3>1 DEF RunningIsProcessing, AnsweredRunIsSettled, AcknowledgedIsStored,
                                RerunOnlyIfCutOff, RanFor, Acknowledged, Key
      <3> QED BY <2>0, <2>1, <3>1, <3>2, LeavingIsQuiet DEF Answer
    <2>2. CASE /\ ~Claimed(journal[Key(r)], req[r].cmd) /\ UNCHANGED journal
               /\ Answer(r, IF journal[Key(r)].cmd = req[r].cmd
                            THEN journal[Key(r)].status ELSE "conflict")
      BY <1>0, <2>0, <2>1, <2>2 DEF Row, Settled
    <2>3. CASE Answer(r, "error") /\ UNCHANGED journal
      BY <2>1, <2>3 DEF Settled
    <2>4. CASE /\ Claimed(journal[Key(r)], req[r].cmd)
               /\ journal' = [journal EXCEPT ![Key(r)] = [cmd |-> req[r].cmd, status |-> "processing"]]
               /\ At(r, "running") /\ UNCHANGED <<mutex, lease>>
      <3>1. req'[r].pc = "running"
        BY <1>0, <2>4 DEF At, Request
      <3>2. journal[Key(r)].status \notin Settled
        BY <2>4 DEF Claimed, NoRow, Settled
      <3>3. /\ \A k \in Keys \ {Key(r)} : journal'[k] = journal[k]
            /\ journal'[Key(r)] = [cmd |-> req[r].cmd, status |-> "processing"]
        BY <1>0, <2>0, <2>4
      <3>4. \A s \in Requests : Key(s)' = Key(s)
        BY <2>0 DEF Key
      <3>5. RunningIsProcessing'
        BY <1>0, <2>0, <3>1, <3>3, <3>4 DEF RunningIsProcessing, LeaseHeld, HoldsLease
      <3>6. AnsweredRunIsSettled' /\ RerunOnlyIfCutOff'
        BY <1>0, <2>0, <3>1, <3>2, <3>3, <3>4 DEF AnsweredRunIsSettled, RerunOnlyIfCutOff, RanFor
      <3>7. AcknowledgedIsStored'
        BY <1>0, <2>0, <3>1, <3>2, <3>3, <3>4 DEF AcknowledgedIsStored, Acknowledged
      <3>8. SentHasCommand' /\ MutexHeld' /\ LeaseHeld' /\ ClosedHostIsQuiet' /\ RanIsOver'
        BY <1>0, <2>0, <2>4, <3>1, <3>4
        DEF SentHasCommand, MutexHeld, LeaseHeld, ClosedHostIsQuiet, RanIsOver, Inside, HoldsLease
      <3> QED BY <3>5, <3>6, <3>7, <3>8
    <2> QED BY <1>4, <2>2, <2>3, <2>4 DEF Claim
  <1>5. ASSUME NEW r \in Requests, Run(r) PROVE DispatchInv'
    BY <1>0, <1>5
    DEF Run, Request, SentHasCommand, MutexHeld, LeaseHeld, ClosedHostIsQuiet,
        RanIsOver, RunningIsProcessing, AnsweredRunIsSettled, AcknowledgedIsStored,
        RerunOnlyIfCutOff, RanFor, Acknowledged, Inside, HoldsLease, Key
  <1>6. ASSUME NEW r \in Requests, Complete(r) PROVE DispatchInv'
    <2>0. /\ \A s \in Requests \ {r} : req'[s] = req[s]
          /\ req'[r].cmd = req[r].cmd /\ req'[r].host = req[r].host
          /\ req'[r].pc \in {"answered", "gone"} /\ req'[r].result = req[r].result
          /\ req[r].pc = "completing" /\ Key(r) \in Keys /\ lease[Key(r)] = r
          /\ journal[Key(r)] = [cmd |-> req[r].cmd, status |-> "processing"]
          /\ UNCHANGED host /\ Release(r)
      BY <1>0, <1>6 DEF Complete, Answer, Request, LeaseHeld, HoldsLease, RunningIsProcessing
    <2>1. \A s \in Requests : Key(s)' = Key(s)
      BY <2>0 DEF Key
    <2>2. \A s \in Requests \ {r} : req[s].pc \in {"running", "completing"} => Key(s) # Key(r)
      BY <1>0, <2>0 DEF LeaseHeld, HoldsLease
    <2>3. \A s \in Requests \ {r} : req[s].ran /\ req[s].pc = "answered" => Key(s) # Key(r)
      BY <1>0, <2>0 DEF AnsweredRunIsSettled, Settled
    <2>4. \A s \in Acknowledged : s # r /\ Key(s) # Key(r)
      <3>1. \A s \in Acknowledged : journal[Key(s)].status \in Settled /\ req[s].pc = "answered"
        <4> SUFFICES ASSUME NEW s \in Acknowledged
                     PROVE  journal[Key(s)].status \in Settled /\ req[s].pc = "answered"
          OBVIOUS
        <4>1. s \in Requests /\ req[s].pc = "answered" /\ req[s].result \in Settled
          BY DEF Acknowledged
        <4>2. journal[Key(s)] = [cmd |-> req[s].cmd, status |-> req[s].result]
          BY DEF AcknowledgedIsStored
        <4> QED BY <4>1, <4>2
      <3>2. journal[Key(r)].status \notin Settled
        BY <2>0 DEF Settled
      <3> QED BY <2>0, <3>1, <3>2
    <2>5. CASE UNCHANGED journal /\ req' = [req EXCEPT ![r].pc = "gone"]
      <3>1. JournalInv'
        BY <1>0, <2>0, <2>1, <2>5 DEF RunningIsProcessing, AnsweredRunIsSettled,
           AcknowledgedIsStored, RerunOnlyIfCutOff, RanFor, Acknowledged, Request
      <3> QED BY <2>0, <3>1, LeavingIsQuiet
    <2>6. CASE journal' = [journal EXCEPT ![Key(r)].status = Settlement(req[r].result)]
      <3>1. /\ \A k \in Keys \ {Key(r)} : journal'[k] = journal[k]
            /\ journal'[Key(r)].status \in Settled
            /\ req[r].result \in Settled =>
                   journal'[Key(r)] = [cmd |-> req[r].cmd, status |-> req[r].result]
        BY <1>0, <2>0, <2>6 DEF TypeOK, Row, Settled, Settlement, RequestOK
      <3>2. RunningIsProcessing'
        BY <1>0, <2>0, <2>1, <2>2, <3>1 DEF RunningIsProcessing
      <3>3. AnsweredRunIsSettled'
        BY <1>0, <2>0, <2>1, <2>3, <3>1 DEF AnsweredRunIsSettled
      <3>4. AcknowledgedIsStored'
        BY <1>0, <2>0, <2>1, <2>4, <3>1 DEF AcknowledgedIsStored, Acknowledged
      <3>5. RerunOnlyIfCutOff'
        BY <1>0, <2>0, <2>1, <2>3 DEF RerunOnlyIfCutOff, RanFor
      <3> QED BY <2>0, <3>2, <3>3, <3>4, <3>5, LeavingIsQuiet
    <2> QED BY <1>6, <2>5, <2>6 DEF Complete
  <1>7. ASSUME NEW r \in Requests, Disconnect(r) PROVE DispatchInv'
    <2>0. /\ \A s \in Requests \ {r} : req'[s] = req[s]
          /\ req'[r].cmd = req[r].cmd /\ req'[r].host = req[r].host
          /\ req'[r].pc = "gone" /\ req[r].pc # "unsent"
          /\ UNCHANGED <<journal, host>> /\ Release(r)
      BY <1>0, <1>7 DEF Disconnect, At, Request, Inside
    <2>1. JournalInv'
      BY <2>0 DEF RunningIsProcessing, AnsweredRunIsSettled, AcknowledgedIsStored,
                  RerunOnlyIfCutOff, RanFor, Acknowledged, Key
    <2> QED BY <2>0, <2>1, LeavingIsQuiet
  <1>8. ASSUME NEW h \in Hosts, Crash(h) PROVE DispatchInv'
    <2>1. /\ \A s \in Requests :
              /\ req'[s].cmd = req[s].cmd /\ req'[s].host = req[s].host
              /\ req'[s].ran = req[s].ran /\ req'[s].result = req[s].result
              /\ req[s].host # h => req'[s] = req[s]
              /\ req'[s].pc = req[s].pc \/ req'[s].pc = "gone"
              /\ req[s].host = h => req'[s].pc \in {"answered", "gone"}
              /\ req[s].pc = "unsent" => req'[s] = req[s]
          /\ UNCHANGED journal
      BY <1>0, <1>8, NoneAssumption DEF Crash, Request, SentHasCommand, Unsent
    <2>2. JournalInv'
      BY <2>1 DEF RunningIsProcessing, AnsweredRunIsSettled, AcknowledgedIsStored,
                  RerunOnlyIfCutOff, RanFor, Acknowledged, Key
    <2>3. SentHasCommand' /\ RanIsOver'
      BY <2>1 DEF SentHasCommand, RanIsOver
    <2>4. MutexHeld'
      BY <1>0, <1>8, <2>1 DEF Crash, MutexHeld, Inside
    <2>5. LeaseHeld'
      BY <1>0, <1>8, <2>1 DEF Crash, LeaseHeld, HoldsLease, Key
    <2>6. ClosedHostIsQuiet'
      BY <1>0, <1>8, <2>1 DEF Crash, ClosedHostIsQuiet, Inside
    <2> QED BY <2>2, <2>3, <2>4, <2>5, <2>6
  <1>9. ASSUME NEW h \in Hosts, BeginClose(h) \/ CollectTasks(h) PROVE DispatchInv'
    <2>1. UNCHANGED <<journal, mutex, lease, req>>
      BY <1>9 DEF BeginClose, CollectTasks
    <2>2. ClosedHostIsQuiet'
      BY <1>0, <1>9, <2>1, NoneAssumption
      DEF BeginClose, CollectTasks, ClosedHostIsQuiet, MutexHeld, Inside
    <2>3. SentHasCommand' /\ MutexHeld' /\ LeaseHeld' /\ RanIsOver' /\ JournalInv'
      BY <2>1 DEF SentHasCommand, MutexHeld, LeaseHeld, RanIsOver, RunningIsProcessing,
         AnsweredRunIsSettled, AcknowledgedIsStored, RerunOnlyIfCutOff, RanFor, Acknowledged, Key
    <2> QED BY <2>2, <2>3
  <1>10. CASE UNCHANGED vars
    BY <1>10
    DEF vars, SentHasCommand, MutexHeld, LeaseHeld, ClosedHostIsQuiet, RanIsOver,
        RunningIsProcessing, AnsweredRunIsSettled, AcknowledgedIsStored, RerunOnlyIfCutOff,
        RanFor, Acknowledged, Key
  <1> QED
    BY CommandOfAssumption, <1>1, <1>2, <1>3, <1>4, <1>5, <1>6, <1>7, <1>8, <1>9, <1>10 DEF Next, RequestStep

\* IInv holds in every reachable state.
THEOREM Invariance == Spec => []IInv
  BY IInvInit, IInvStep, PTL DEF Spec

\* Of the deliveries that ran a handler for one key, at most one is answered,
\* whatever requests are dropped, processes die or store calls fail.
THEOREM RerunsNeedInterruption == Spec => []RerunOnlyIfCutOff
  BY Invariance, PTL DEF IInv, DispatchInv

\* All acknowledgements of one command agree.
THEOREM AcknowledgementsAreStable == Spec => []AcknowledgementsAgree
  <1>1. IInv => AcknowledgementsAgree
    <2> SUFFICES ASSUME IInv, NEW r \in Acknowledged, NEW s \in Acknowledged,
                        req[r].cmd = req[s].cmd
                 PROVE  req[r].result = req[s].result
      BY DEF AcknowledgementsAgree
    <2>1. /\ journal[Key(r)] = [cmd |-> req[r].cmd, status |-> req[r].result]
          /\ journal[Key(s)] = [cmd |-> req[s].cmd, status |-> req[s].result]
      BY DEF IInv, DispatchInv, AcknowledgedIsStored
    <2>2. Key(r) = Key(s)
      BY DEF Key
    <2> QED BY <2>1, <2>2
  <1> QED BY <1>1, Invariance, PTL

\* Redelivery is idempotent for whoever was answered, over any number of hosts,
\* keys and deliveries.
THEOREM RedeliveryIsSafe == Spec => []RedeliveryIsIdempotent
  BY RerunsNeedInterruption, AcknowledgementsAreStable, PTL DEF RedeliveryIsIdempotent

\* A closed host has no prompt left inside its dispatcher.
THEOREM ClosingIsFinal == Spec => []ClosedHostIsQuiet
  BY Invariance, PTL DEF IInv, DispatchInv

\* No step changes a settled row or runs a handler for its key.
THEOREM SettlementIsFinal == Spec => SettledIsFinal
  <1>1. IInv /\ [Next]_vars
          => [\A k \in Keys : journal[k].status \in Settled =>
                /\ journal'[k] = journal[k]
                /\ \A c \in Commands : KeyOf[c] = k => effects'[c] = effects[c]]_vars
    <2> SUFFICES ASSUME IInv, Next, NEW k \in Keys, journal[k].status \in Settled
                 PROVE  /\ journal'[k] = journal[k]
                        /\ \A c \in Commands : KeyOf[c] = k => effects'[c] = effects[c]
      OBVIOUS
    <2>0. journal \in [Keys -> Row] /\ effects \in [Commands -> Nat]
      BY DEF IInv, TypeOK
    <2>1. ASSUME NEW r \in Requests, req[r].pc \in {"running", "completing"} PROVE Key(r) # k
      <3>1. journal[Key(r)] = [cmd |-> req[r].cmd, status |-> "processing"]
        BY <2>1 DEF IInv, DispatchInv, RunningIsProcessing
      <3> QED BY <3>1 DEF Settled
    <2>2. ASSUME NEW r \in Requests, Claim(r) PROVE journal'[k] = journal[k] /\ effects' = effects
      BY <2>0, <2>2 DEF Claim, Claimed, NoRow, Settled
    <2>3. ASSUME NEW r \in Requests, Run(r)
          PROVE  /\ journal' = journal
                 /\ \A c \in Commands : KeyOf[c] = k => effects'[c] = effects[c]
      BY <2>0, <2>1, <2>3 DEF Run, Key
    <2>4. ASSUME NEW r \in Requests, Complete(r) PROVE journal'[k] = journal[k] /\ effects' = effects
      BY <2>0, <2>1, <2>4 DEF Complete
    <2>5. ASSUME NEW r \in Requests, Enter(r) \/ AcquireLease(r) \/ Disconnect(r)
          PROVE  UNCHANGED <<journal, effects>>
      BY <2>5 DEF Enter, AcquireLease, Disconnect
    <2>6. ASSUME NEW h \in Hosts, Crash(h) \/ BeginClose(h) \/ CollectTasks(h)
          PROVE  UNCHANGED <<journal, effects>>
      BY <2>6 DEF Crash, BeginClose, CollectTasks
    <2>7. ASSUME NEW r \in Requests, NEW h \in Hosts, NEW c \in Commands, Send(r, h, c)
          PROVE  UNCHANGED <<journal, effects>>
      BY <2>7 DEF Send
    <2> QED BY CommandOfAssumption, <2>2, <2>3, <2>4, <2>5, <2>6, <2>7 DEF Next, RequestStep
  <1> QED BY <1>1, Invariance, PTL DEF Spec, SettledIsFinal

-----------------------------------------------------------------------------
(* Jobs: what the SQL statements do to one row. *)

\* A fresh row and every row operation yield a well-typed row.
LEMMA RowTypes ==
    ASSUME NEW row \in JobRow
    PROVE  /\ NewRow("queued", 0) \in JobRow
           /\ NewRow("queued", row.attempt) \in JobRow
           /\ NewRow("failed", row.attempt) \in JobRow
           /\ NewRow("succeeded", row.attempt) \in JobRow
           /\ RecoverExpired(row) \in JobRow
           /\ EnqueueRow(row) \in JobRow
           /\ \A w \in Workers : Claimable(row) => ClaimRow(row, w) \in JobRow
    BY MaxAttemptsAssumption
    DEF JobRow, NewRow, JobStatus, Leased, RecoverExpired, EnqueueRow, Claimable,
        ClaimRow, CanRetry

\* The updates that touch one field of a row.
LEMMA FieldTypes ==
    ASSUME NEW row \in JobRow
    PROVE  /\ [row EXCEPT !.status = "running"] \in JobRow
           /\ [row EXCEPT !.expired = TRUE] \in JobRow
    BY DEF JobRow, JobStatus, Leased

\* Taking over an expired lease leaves every other row alone; the new row is
\* free, queued if attempts remain and failed otherwise.
LEMMA RecoverExpiredRow ==
    ASSUME NEW row \in JobRow
    PROVE  \/ RecoverExpired(row) = row
           \/ /\ row.status \in Leased
              /\ RecoverExpired(row).owner = Nothing
              /\ RecoverExpired(row).attempt = row.attempt
              /\ \/ RecoverExpired(row).status = "queued" /\ row.attempt < MaxAttempts
                 \/ RecoverExpired(row).status = "failed" /\ row.attempt = MaxAttempts
    BY MaxAttemptsAssumption DEF JobRow, NewRow, RecoverExpired

\* Whether the store fails is settled at the start.
LEMMA FaultsAreChosenOnce == [JobsNext]_jobsVars => storeFaults' = storeFaults
  BY DEF JobsNext, jobsVars, boundVars, HostStep, WorkerStep, Boot, RecoverUnscheduled,
      SubmitSchedule,
     ProcessSchedule, IdleTick, RecoverLeases, ClaimJob, Start, Evaluate, FinishSucceeded,
     RecordCompleted, Requeue, FinishFailed, CrashHost, EndTask, LeaseExpires, ManualRetry

-----------------------------------------------------------------------------
(* Jobs: type correctness *)

\* The types hold at the start.
LEMMA JobsTypeInit == JobsInit => JobsTypeOK
    BY MaxAttemptsAssumption, MaxRetriesAssumption
    DEF JobsInit, JobsTypeOK, JobRow, NoJob, NewRow, JobStatus, Leased, WorkerLabels, Working

\* Every step keeps the types.
LEMMA JobsTypeStep == JobsTypeOK /\ [JobsNext]_jobsVars => JobsTypeOK'
  <1> SUFFICES ASSUME JobsTypeOK, [JobsNext]_jobsVars PROVE JobsTypeOK'
    OBVIOUS
  <1> USE DEF JobsTypeOK, WorkerLabels, Working, Alive, Goto, boundVars
  <1>1. ASSUME NEW w \in Workers, Boot(w) PROVE JobsTypeOK'
    BY <1>1, RowTypes DEF Boot, Unscheduled
  <1>2. ASSUME NEW w \in Workers, NEW t \in Tasks, RecoverUnscheduled(w, t) PROVE JobsTypeOK'
    BY <1>2, RowTypes DEF RecoverUnscheduled
  <1>3. ASSUME NEW w \in Workers, NEW t \in Tasks, SubmitSchedule(w, t) PROVE JobsTypeOK'
    BY <1>3 DEF SubmitSchedule, durableVars
  <1>4. ASSUME NEW w \in Workers, NEW t \in Tasks, ProcessSchedule(w, t) PROVE JobsTypeOK'
    BY <1>4, RowTypes DEF ProcessSchedule
  <1>5. ASSUME NEW w \in Workers, IdleTick(w) PROVE JobsTypeOK'
    BY <1>5 DEF IdleTick, durableVars
  <1>6. ASSUME NEW w \in Workers, RecoverLeases(w) PROVE JobsTypeOK'
    BY <1>6, RowTypes DEF RecoverLeases
  <1>7. ASSUME NEW w \in Workers, ClaimJob(w) PROVE JobsTypeOK'
    BY <1>7, RowTypes DEF ClaimJob
  <1>8. ASSUME NEW w \in Workers, Start(w) PROVE JobsTypeOK'
    <2>1. CASE UNCHANGED job
      BY <1>8, <2>1 DEF Start
    <2>2. CASE job' = [job EXCEPT ![held[w]].status = "running"]
      <3>1. job' = [t \in Tasks |-> IF t = held[w] THEN [job[t] EXCEPT !.status = "running"]
                                                  ELSE job[t]]
        BY <2>2
      <3>2. job' \in [Tasks -> JobRow]
        BY <3>1, FieldTypes
      <3> QED BY <1>8, <3>2 DEF Start
    <2> QED BY <1>8, <2>1, <2>2 DEF Start
  <1>9. ASSUME NEW w \in Workers, Evaluate(w) PROVE JobsTypeOK'
    BY <1>9 DEF Evaluate, durableVars
  <1>10. ASSUME NEW w \in Workers, FinishSucceeded(w) PROVE JobsTypeOK'
    BY <1>10, RowTypes DEF FinishSucceeded
  <1>11. ASSUME NEW w \in Workers, Requeue(w) PROVE JobsTypeOK'
    BY <1>11, RowTypes DEF Requeue
  <1>12. ASSUME NEW w \in Workers, FinishFailed(w) PROVE JobsTypeOK'
    BY <1>12, RowTypes DEF FinishFailed
  <1>13. ASSUME NEW w \in Workers, CrashHost(w) PROVE JobsTypeOK'
    BY <1>13 DEF CrashHost, durableVars
  <1>14. ASSUME NEW w \in Workers, NEW t \in Tasks, EndTask(w, t) PROVE JobsTypeOK'
    BY <1>14 DEF EndTask
  <1>15. ASSUME NEW t \in Tasks, LeaseExpires(t) PROVE JobsTypeOK'
    <2>1. job' = [k \in Tasks |-> IF k = t THEN [job[k] EXCEPT !.expired = TRUE] ELSE job[k]]
      BY <1>15 DEF LeaseExpires
    <2>2. job' \in [Tasks -> JobRow]
      BY <2>1, FieldTypes
    <2> QED BY <1>15, <2>2 DEF LeaseExpires, memoryVars
  <1>16. ASSUME NEW t \in Tasks, ManualRetry(t) PROVE JobsTypeOK'
    <2>1. job' \in [Tasks -> JobRow]
      BY <1>16, RowTypes DEF ManualRetry
    <2> QED BY <1>16, <2>1, MaxRetriesAssumption DEF ManualRetry, memoryVars
  <1>17. ASSUME NEW w \in Workers, RecordCompleted(w) PROVE JobsTypeOK'
    BY <1>17 DEF RecordCompleted
  <1>18. CASE UNCHANGED jobsVars
    BY <1>18 DEF jobsVars, durableVars, memoryVars
  <1> QED
    BY <1>1, <1>2, <1>3, <1>4, <1>5, <1>6, <1>7, <1>8, <1>9, <1>10, <1>11,
       <1>12, <1>13, <1>14, <1>15, <1>16, <1>17, <1>18 DEF JobsNext, HostStep, WorkerStep

\* Every reachable row, channel and worker state is well formed; in
\* particular no row ever counts more than MaxAttempts attempts.
THEOREM JobsTypeCorrect == JobsSpec => []JobsTypeOK
  BY JobsTypeInit, JobsTypeStep, PTL DEF JobsSpec

-----------------------------------------------------------------------------
(* Jobs: the inductive invariant.  The lease of a job and the worker that     *)
(* runs it change in separate steps, so ownership (LeaseHeldByBusyWorker) and *)
(* what a worker already learned from a failed requeue (FailingIsExhausted)   *)
(* have to be carried along with the properties of interest; so does the      *)
(* worker between `finish` and the event it records (CompletingIsExclusive).  *)

\* A worker that reached the second call of finish_or_retry, and still owns
\* its job, has used up the attempts of that job.
FailingIsExhausted ==
    ~storeFaults =>
        \A w \in Workers :
            pc[w] = "failing" /\ CanFinish(job[held[w]], w)
                => job[held[w]].attempt = MaxAttempts

\* A worker that has not called start yet owns no running job.
ClaimedIsNotRunning ==
    ~storeFaults =>
        \A t \in Tasks : \A w \in Workers :
            pc[w] = "claimed" /\ job[t].owner = w => job[t].status # "running"

\* A job row exists only for a task whose terminal event is stored, so a
\* deep evaluation never sees a task that is still running.
JobOnlyAfterTerminal ==
    \A t \in Tasks : job[t].status # "absent" => t \in terminal

\* Requests and scan results name ended tasks only.
RequestsHaveEnded ==
    \A w \in Workers :
        toSubmit[w] \subseteq terminal /\ inbox[w] \subseteq terminal /\ scan[w] \subseteq terminal

\* Between the two steps of a success the event is still to come, and a
\* single worker is about to record it.
CompletingIsExclusive ==
    \A w \in Workers :
        pc[w] = "completing" =>
            /\ job[held[w]].status = "succeeded"
            /\ completed[held[w]] = 0
            /\ \A v \in Workers : pc[v] = "completing" /\ held[v] = held[w] => v = w

RowInv ==
    /\ QueuedIsClaimable
    /\ CompletedOnce
    /\ CompletingIsExclusive
    /\ LeaseHeldByBusyWorker
    /\ FailedMeansExhausted
    /\ FailingIsExhausted
    /\ ClaimedIsNotRunning
    /\ JobOnlyAfterTerminal
    /\ RequestsHaveEnded

JobsIInv == JobsTypeOK /\ RowInv

\* The inductive invariant holds at the start.
LEMMA JobsIInvInit == JobsInit => JobsIInv
  <1> SUFFICES ASSUME JobsInit PROVE RowInv
    BY JobsTypeInit DEF JobsIInv
  <1> QED
    BY NothingAssumption
    DEF JobsInit, RowInv, QueuedIsClaimable, CompletedOnce, CompletingIsExclusive, NoJob, NewRow,
        LeaseHeldByBusyWorker, FailedMeansExhausted, FailingIsExhausted,
        ClaimedIsNotRunning, JobOnlyAfterTerminal, RequestsHaveEnded, Leased, CanFinish, Working

\* Every step keeps the inductive invariant.
LEMMA JobsIInvStep == JobsIInv /\ [JobsNext]_jobsVars => JobsIInv'
  <1> SUFFICES ASSUME JobsTypeOK, RowInv, [JobsNext]_jobsVars, JobsTypeOK' PROVE RowInv'
    BY JobsTypeStep DEF JobsIInv
  <1> USE NothingAssumption, MaxAttemptsAssumption
      DEF RowInv, QueuedIsClaimable, CompletedOnce, CompletingIsExclusive, LeaseHeldByBusyWorker,
          FailedMeansExhausted, FailingIsExhausted, ClaimedIsNotRunning, JobOnlyAfterTerminal,
          RequestsHaveEnded, CanFinish, Claimable, Working, Leased, Alive, Goto
  <1>0. /\ job \in [Tasks -> JobRow]
        /\ completed \in [Tasks -> Nat]
        /\ pc \in [Workers -> WorkerLabels]
        /\ held \in [Workers -> Tasks \cup {Nothing}]
        /\ \A w \in Workers : pc[w] \in Working => held[w] \in Tasks
        /\ terminal \subseteq Tasks
        /\ storeFaults' = storeFaults
    BY FaultsAreChosenOnce DEF JobsTypeOK
  <1>1. ASSUME NEW w \in Workers, Boot(w) PROVE RowInv'
    <2>1. \A t \in Tasks : job'[t] = RecoverExpired(job[t])
      BY <1>1 DEF Boot
    <2>2. CompletingIsExclusive'
      BY <1>0, <1>1, <2>1, RecoverExpiredRow DEF Boot
    <2>3. QueuedIsClaimable' /\ CompletedOnce' /\ FailedMeansExhausted' /\ JobOnlyAfterTerminal'
      BY <1>0, <1>1, <2>1, RecoverExpiredRow DEF Boot
    <2>4. LeaseHeldByBusyWorker' /\ FailingIsExhausted' /\ ClaimedIsNotRunning'
      BY <1>0, <1>1, <2>1, RecoverExpiredRow DEF Boot
    <2>5. RequestsHaveEnded'
      BY <1>0, <1>1 DEF Boot, Unscheduled, JobsTypeOK
    <2> QED BY <2>2, <2>3, <2>4, <2>5
  <1>2. ASSUME NEW w \in Workers, NEW t \in Tasks, RecoverUnscheduled(w, t) PROVE RowInv'
    BY <1>0, <1>2 DEF RecoverUnscheduled, EnqueueRow, NewRow, CanRetry, JobsTypeOK
  <1>3. ASSUME NEW w \in Workers, NEW t \in Tasks, SubmitSchedule(w, t) PROVE RowInv'
    BY <1>0, <1>3 DEF SubmitSchedule, durableVars, JobsTypeOK
  <1>4. ASSUME NEW w \in Workers, NEW t \in Tasks, ProcessSchedule(w, t) PROVE RowInv'
    <2>1. t \in terminal /\ RequestsHaveEnded'
      BY <1>0, <1>4 DEF ProcessSchedule, JobsTypeOK
    <2>2. CASE UNCHANGED job
      BY <1>0, <1>4, <2>1, <2>2 DEF ProcessSchedule
    <2>3. CASE job' = [job EXCEPT ![t] = EnqueueRow(@)]
      <3>1. \/ EnqueueRow(job[t]) = job[t]
            \/ /\ EnqueueRow(job[t]) = NewRow("queued", 0)
               /\ job[t].status \in {"absent", "failed"}
        BY DEF EnqueueRow, CanRetry
      <3> QED BY <1>0, <1>4, <2>1, <2>3, <3>1 DEF ProcessSchedule, NewRow
    <2> QED BY <1>4, <2>2, <2>3 DEF ProcessSchedule
  <1>5. ASSUME NEW w \in Workers, IdleTick(w) PROVE RowInv'
    BY <1>0, <1>5 DEF IdleTick, durableVars
  <1>6. ASSUME NEW w \in Workers, RecoverLeases(w) PROVE RowInv'
    BY <1>0, <1>6, RecoverExpiredRow DEF RecoverLeases
  <1>7. ASSUME NEW w \in Workers, ClaimJob(w) PROVE RowInv'
    <2>1. ASSUME NEW t \in Tasks, Claimable(job[t]),
                 job' = [job EXCEPT ![t] = ClaimRow(@, w)],
                 held' = [held EXCEPT ![w] = t], Goto(w, "claimed")
          PROVE  RowInv'
      <3>1. \A u \in Tasks \ {t} : job'[u] = job[u]
        BY <1>0, <2>1
      <3>2. /\ job'[t].status = "leased" /\ job'[t].owner = w
            /\ pc' = [pc EXCEPT ![w] = "claimed"]
        BY <1>0, <2>1 DEF ClaimRow
      <3>3. terminal' = terminal /\ completed' = completed /\ RequestsHaveEnded'
        BY <1>0, <1>7 DEF ClaimJob
      <3>4. QueuedIsClaimable' /\ CompletedOnce' /\ CompletingIsExclusive'
            /\ FailedMeansExhausted' /\ JobOnlyAfterTerminal'
        BY <1>0, <2>1, <3>1, <3>2, <3>3
      <3>5. LeaseHeldByBusyWorker'
        BY <1>0, <1>7, <2>1, <3>1, <3>2 DEF ClaimJob
      <3>6. FailingIsExhausted'
        BY <1>0, <2>1, <3>1, <3>2
      <3>7. ClaimedIsNotRunning'
        BY <1>0, <1>7, <2>1, <3>1, <3>2 DEF ClaimJob
      <3> QED BY <3>3, <3>4, <3>5, <3>6, <3>7
    <2>2. CASE Goto(w, "idle") /\ UNCHANGED <<job, held>>
      BY <1>0, <1>7, <2>2 DEF ClaimJob
    <2> QED BY <1>7, <2>1, <2>2 DEF ClaimJob
  <1>8. ASSUME NEW w \in Workers, Start(w) PROVE RowInv'
    <2>1. held[w] \in Tasks /\ held' = held
      BY <1>0, <1>8 DEF Start
    <2>2. CASE /\ CanStart(job[held[w]], w) /\ Goto(w, "evaluating")
               /\ job' = [job EXCEPT ![held[w]].status = "running"]
      <3>1. /\ \A u \in Tasks \ {held[w]} : job'[u] = job[u]
            /\ job'[held[w]].status = "running"
            /\ job'[held[w]].owner = w
            /\ job[held[w]].status = "leased"
        BY <1>0, <2>1, <2>2 DEF CanStart, JobRow
      <3> QED BY <1>0, <1>8, <2>1, <2>2, <3>1 DEF Start
    <2>3. CASE /\ storeFaults \/ ~CanStart(job[held[w]], w)
               /\ Goto(w, "idle") /\ UNCHANGED job
      <3>1. LeaseHeldByBusyWorker'
        <4> SUFFICES ASSUME ~storeFaults, NEW u \in Tasks, NEW v \in Workers,
                            job[u].status \in Leased, job[u].owner = v
                     PROVE  pc'[v] = "dead" \/ (pc'[v] \in Working /\ held[v] = u)
          BY <1>0, <2>1, <2>3
        <4>1. pc[v] = "dead" \/ (pc[v] \in Working /\ held[v] = u)
          OBVIOUS
        <4>2. CASE v # w
          BY <1>0, <2>3, <4>1, <4>2
        <4>3. CASE v = w
          <5>1. job[u].status = "running" /\ u = held[w] /\ pc[w] = "claimed"
            BY <1>8, <2>3, <4>1, <4>3 DEF Start, CanStart
          <5> QED BY <1>0, <5>1, <4>3, <2>3
        <4> QED BY <4>2, <4>3
      <3> QED BY <1>0, <1>8, <2>1, <2>3, <3>1 DEF Start
    <2> QED BY <1>8, <2>2, <2>3 DEF Start
  <1>9. ASSUME NEW w \in Workers, Evaluate(w) PROVE RowInv'
    BY <1>0, <1>9 DEF Evaluate, durableVars
  <1>10. ASSUME NEW w \in Workers, FinishSucceeded(w) PROVE RowInv'
    <2>1. held[w] \in Tasks /\ held' = held /\ completed' = completed /\ job[held[w]] \in JobRow
      BY <1>0, <1>10 DEF FinishSucceeded
    <2>2. CASE /\ CanFinish(job[held[w]], w) /\ Goto(w, "completing")
               /\ job' = [job EXCEPT ![held[w]] = NewRow("succeeded", @.attempt)]
      <3>1. /\ \A u \in Tasks \ {held[w]} : job'[u] = job[u]
            /\ job'[held[w]].status = "succeeded"
            /\ job'[held[w]].owner = Nothing
            /\ job[held[w]].status \in Leased
        BY <1>0, <2>1, <2>2 DEF NewRow
      <3>2. completed[held[w]] = 0
        <4>1. completed[held[w]] \in Nat /\ completed[held[w]] <= 1
          BY <1>0, <2>1
        <4>2. completed[held[w]] # 1
          BY <2>1, <3>1
        <4> QED BY <4>1, <4>2
      <3>3. \A v \in Workers : pc[v] = "completing" => held[v] # held[w] /\ held[v] \in Tasks
        BY <1>0, <2>1, <3>1
      <3>4. \A v \in Workers \ {w} : pc'[v] = pc[v]
        BY <1>0, <2>2
      <3>5. CompletingIsExclusive'
        BY <2>1, <3>1, <3>2, <3>3, <3>4
      <3>6. CompletedOnce'
        BY <1>0, <2>1, <3>1
      <3> QED BY <1>0, <1>10, <2>1, <2>2, <3>1, <3>5, <3>6 DEF FinishSucceeded
    <2>3. CASE /\ storeFaults \/ ~CanFinish(job[held[w]], w)
               /\ Goto(w, "idle") /\ UNCHANGED job
      BY <1>0, <1>10, <2>1, <2>3 DEF FinishSucceeded
    <2> QED BY <1>10, <2>2, <2>3 DEF FinishSucceeded
  <1>11. ASSUME NEW w \in Workers, Requeue(w) PROVE RowInv'
    <2>1. held[w] \in Tasks /\ held' = held /\ job[held[w]] \in JobRow
      BY <1>0, <1>11 DEF Requeue
    <2>2. CASE /\ CanRequeue(job[held[w]], w) /\ Goto(w, "idle")
               /\ job' = [job EXCEPT ![held[w]] = NewRow("queued", @.attempt)]
      <3>1. /\ \A u \in Tasks \ {held[w]} : job'[u] = job[u]
            /\ job'[held[w]].status = "queued"
            /\ job'[held[w]].owner = Nothing
            /\ job'[held[w]].attempt < MaxAttempts
            /\ job[held[w]].status \in Leased
        BY <1>0, <2>1, <2>2 DEF CanRequeue, NewRow
      <3> QED BY <1>0, <1>11, <2>1, <2>2, <3>1 DEF Requeue
    <2>3. CASE /\ storeFaults \/ ~CanRequeue(job[held[w]], w)
               /\ Goto(w, "failing") /\ UNCHANGED job
      <3>1. job[held[w]].attempt \in 0..MaxAttempts
        BY <2>1 DEF JobRow
      <3>2. ~storeFaults /\ CanFinish(job[held[w]], w) => job[held[w]].attempt = MaxAttempts
        BY <2>3, <3>1 DEF CanRequeue
      <3> QED BY <1>0, <1>11, <2>1, <2>3, <3>2 DEF Requeue
    <2> QED BY <1>11, <2>2, <2>3 DEF Requeue
  <1>12. ASSUME NEW w \in Workers, FinishFailed(w) PROVE RowInv'
    BY <1>0, <1>12 DEF FinishFailed, NewRow
  <1>13. ASSUME NEW w \in Workers, CrashHost(w) PROVE RowInv'
    BY <1>0, <1>13 DEF CrashHost, durableVars, JobsTypeOK
  <1>14. ASSUME NEW w \in Workers, NEW t \in Tasks, EndTask(w, t) PROVE RowInv'
    BY <1>0, <1>14 DEF EndTask, JobsTypeOK
  <1>15. ASSUME NEW t \in Tasks, LeaseExpires(t) PROVE RowInv'
    BY <1>0, <1>15 DEF LeaseExpires, memoryVars, JobRow
  <1>16. ASSUME NEW t \in Tasks, ManualRetry(t) PROVE RowInv'
    BY <1>0, <1>16 DEF ManualRetry, CanRetry, memoryVars, NewRow
  <1>17. ASSUME NEW w \in Workers, RecordCompleted(w) PROVE RowInv'
    BY <1>0, <1>17 DEF RecordCompleted
  <1>18. CASE UNCHANGED jobsVars
    BY <1>0, <1>18 DEF jobsVars, durableVars, memoryVars
  <1> QED
    BY <1>1, <1>2, <1>3, <1>4, <1>5, <1>6, <1>7, <1>8, <1>9, <1>10, <1>11,
       <1>12, <1>13, <1>14, <1>15, <1>16, <1>17, <1>18 DEF JobsNext, HostStep, WorkerStep

\* JobsIInv holds in every reachable state.
THEOREM JobsInvariance == JobsSpec => []JobsIInv
  BY JobsIInvInit, JobsIInvStep, PTL DEF JobsSpec

\* However many workers take a job over from one another, its completion is
\* recorded at most once, and only if its row succeeded.
THEOREM CompletionIsRecordedOnce == JobsSpec => []CompletedOnce
  BY JobsInvariance, PTL DEF JobsIInv, RowInv

\* No job is stranded in the queue with its attempts used up.
THEOREM QueuedJobsStayClaimable == JobsSpec => []QueuedIsClaimable
  BY JobsInvariance, PTL DEF JobsIInv, RowInv

\* With a store that answers, no live worker leaks a lease.
THEOREM LeasesAreNotLeaked == JobsSpec => []LeaseHeldByBusyWorker
  BY JobsInvariance, PTL DEF JobsIInv, RowInv

\* With a store that answers, a job fails only when its budget is used up.
THEOREM FailureUsesTheBudget == JobsSpec => []FailedMeansExhausted
  BY JobsInvariance, PTL DEF JobsIInv, RowInv

\* Attempts are accounted for on every path of a job, for every budget.
THEOREM AttemptsAreAccounted == JobsSpec => []AttemptsAddUp
  BY QueuedJobsStayClaimable, FailureUsesTheBudget, PTL DEF AttemptsAddUp

\* A row that succeeded is never changed again.
THEOREM SuccessIsFinal == JobsSpec => SucceededIsFinal
  <1>1. JobsTypeOK /\ [JobsNext]_jobsVars
          => [\A t \in Tasks : job[t].status = "succeeded" => job'[t] = job[t]]_jobsVars
    <2> SUFFICES ASSUME JobsTypeOK, JobsNext, NEW t \in Tasks, job[t].status = "succeeded"
                 PROVE  job'[t] = job[t]
      OBVIOUS
    <2>1. job \in [Tasks -> JobRow]
      BY DEF JobsTypeOK
    <2>2. \A w \in Workers : pc[w] \in Working => held[w] \in Tasks
      BY DEF JobsTypeOK
    <2>3. RecoverExpired(job[t]) = job[t] /\ EnqueueRow(job[t]) = job[t]
      BY DEF RecoverExpired, EnqueueRow, CanRetry, Leased
    <2>4. ASSUME NEW w \in Workers, WorkerStep(w) PROVE job'[t] = job[t]
      BY <2>1, <2>2, <2>3, <2>4
      DEF WorkerStep, ProcessSchedule, IdleTick, RecoverLeases, ClaimJob, Start,
          Evaluate, FinishSucceeded, RecordCompleted, Requeue, FinishFailed, durableVars, Claimable,
          CanStart, CanRequeue, CanFinish, Leased, Working
    <2>5. ASSUME NEW w \in Workers, Boot(w) \/ HostStep(w) \/ CrashHost(w)
          PROVE  job'[t] = job[t]
      BY <2>1, <2>3, <2>5
      DEF Boot, HostStep, RecoverUnscheduled, SubmitSchedule, CrashHost, durableVars
    <2>6. ASSUME NEW w \in Workers, NEW u \in Tasks, EndTask(w, u) PROVE job'[t] = job[t]
      BY <2>6 DEF EndTask
    <2>7. ASSUME NEW u \in Tasks, LeaseExpires(u) \/ ManualRetry(u) PROVE job'[t] = job[t]
      BY <2>1, <2>7 DEF LeaseExpires, ManualRetry, CanRetry, Leased
    <2> QED BY <2>4, <2>5, <2>6, <2>7 DEF JobsNext
  <1> QED BY <1>1, JobsTypeCorrect, PTL DEF JobsSpec, SucceededIsFinal
=============================================================================
