-------------------------- MODULE CommandDispatch --------------------------
(***************************************************************************)
(* How a host takes a command: one at a time per host (command_mutex), one   *)
(* at a time per idempotency key across hosts (an OS file lock), recorded    *)
(* in a durable journal before its handler runs and settled after it.        *)
(*                                                                         *)
(* Clients deliver a command again when they have no answer; a request may    *)
(* be dropped at any await (its connection closed), its process may die,      *)
(* and a store call may fail.  The journal and the handler's own events are   *)
(* separate transactions, so a command whose settlement was interrupted is    *)
(* run again by the next delivery.  Closing a host first refuses new prompts  *)
(* and then passes the mutex once before it looks for running tasks.          *)
(*                                                                         *)
(* The commands here are the ones that start work (Create, Prompt).           *)
(*                                                                         *)
(* Sources: client/src/command.rs (handle_command), client/src/lib.rs (the    *)
(* journal calls, the command lease, close), client/src/execution.rs          *)
(* (shutdown_active_work), store/src/lib.rs (claim_command,                   *)
(* complete_command).                                                        *)
(***************************************************************************)
EXTENDS Integers

CONSTANTS
    Hosts,         \* process lifetimes on one workspace
    Requests,      \* bound: deliveries of commands
    Commands,      \* command ids
    Keys,          \* idempotency keys, scoped to the workspace
    CommandOf,     \* request -> the command it delivers
    KeyOf,         \* command -> its key
    Interruptions, \* TRUE if requests are dropped, processes die, stores fail
    None

ASSUME CommandOfAssumption == CommandOf \in [Requests -> Commands]
ASSUME KeyOfAssumption == KeyOf \in [Commands -> Keys]
ASSUME InterruptionsAssumption == Interruptions \in BOOLEAN
ASSUME NoneAssumption ==
    None \notin Requests \cup Hosts \cup Commands

VARIABLES
    journal,   \* key -> its row of command_acks
    effects,   \* command -> how often its handler's events were stored
    mutex,     \* host -> request inside the dispatcher
    lease,     \* key -> request that holds its file lock
    req,       \* request -> its control state
    host       \* host -> "up", "closing" (token cancelled), "closed"
               \* (running tasks were collected and cancelled) or "dead"

vars == <<journal, effects, mutex, lease, req, host>>

NoRow == [cmd |-> None, status |-> "none"]
Settled == {"accepted", "rejected"}

\* A request that has not been sent yet
Unsent == [pc |-> "unsent", host |-> None, cmd |-> None, ran |-> FALSE, result |-> "none"]

Key(r) == KeyOf[req[r].cmd]

Init ==
    /\ journal = [k \in Keys |-> NoRow]
    /\ effects = [c \in Commands |-> 0]
    /\ mutex = [h \in Hosts |-> None]
    /\ lease = [k \in Keys |-> None]
    /\ req = [r \in Requests |-> Unsent]
    /\ host = [h \in Hosts |-> "up"]

At(r, pc) == req' = [req EXCEPT ![r].pc = pc]

\* The command guard and the command lease are dropped.
Release(r) ==
    /\ mutex' = [h \in Hosts |-> IF mutex[h] = r THEN None ELSE mutex[h]]
    /\ lease' = [k \in Keys |-> IF lease[k] = r THEN None ELSE lease[k]]

\* The command lease outlives the request.
MutAnswer(r, result) ==
    /\ req' = [req EXCEPT ![r].pc = "answered", ![r].result = result]
    /\ mutex' = [h \in Hosts |-> IF mutex[h] = r THEN None ELSE mutex[h]]
    /\ UNCHANGED lease

\* handle_command returns with that result.
Answer(r, result) ==
    /\ req' = [req EXCEPT ![r].pc = "answered", ![r].result = result]
    /\ Release(r)

-----------------------------------------------------------------------------
(* handle_command *)

Send(r, h, c) ==
    /\ req[r].pc = "unsent" /\ host[h] # "dead"
    /\ req' = [req EXCEPT ![r] = [Unsent EXCEPT !.pc = "queued", !.host = h, !.cmd = c]]
    /\ UNCHANGED <<journal, effects, mutex, lease, host>>

\* inside the mutex: shutdown.is_cancelled()
MayEnter(r) == host[req[r].host] = "up"

\* command_mutex, and the shutdown check under it
Enter(r) ==
    /\ req[r].pc = "queued" /\ mutex[req[r].host] = None
    /\ \/ /\ MayEnter(r)
          /\ mutex' = [mutex EXCEPT ![req[r].host] = r]
          /\ At(r, "leasing")
          /\ UNCHANGED lease
       \/ /\ ~MayEnter(r)
          /\ Answer(r, "refused")
    /\ UNCHANGED <<journal, effects, host>>

\* acquire_command_lease waits for the file lock of the key
AcquireLease(r) ==
    /\ req[r].pc = "leasing" /\ lease[Key(r)] = None
    /\ lease' = [lease EXCEPT ![Key(r)] = r]
    /\ At(r, "claiming")
    /\ UNCHANGED <<journal, effects, mutex, host>>

\* claim_command inserts the row, or finds the unsettled row of this command
Claimed(row, c) == row = NoRow \/ (row.cmd = c /\ row.status = "processing")

Claim(r) ==
    LET row == journal[Key(r)]
        c == req[r].cmd IN
    /\ req[r].pc = "claiming"
    /\ \/ /\ Claimed(row, c)
          /\ journal' = [journal EXCEPT ![Key(r)] = [cmd |-> c, status |-> "processing"]]
          /\ At(r, "running")
          /\ UNCHANGED <<mutex, lease>>
       \/ /\ ~Claimed(row, c)
          /\ Answer(r, IF row.cmd = c THEN row.status ELSE "conflict")
          /\ UNCHANGED journal
       \/ /\ Interruptions
          /\ Answer(r, "error")
          /\ UNCHANGED journal
    /\ UNCHANGED <<effects, host>>

\* The handler stores its events and decides; one that fails or rejects may
\* have stored some of them.
Run(r) ==
    /\ req[r].pc = "running"
    /\ \E result \in Settled \cup {"error"}, n \in 0..1 :
        /\ result = "accepted" => n = 1
        /\ effects' = [effects EXCEPT ![req[r].cmd] = @ + n]
        /\ req' = [req EXCEPT ![r].pc = "completing", ![r].ran = TRUE, ![r].result = result]
    /\ UNCHANGED <<journal, mutex, lease, host>>

\* A failed handler leaves its row unsettled.
MutComplete(r) ==
    LET result == req[r].result IN
    /\ req[r].pc = "completing"
    /\ Answer(r, result)
    /\ IF result = "error"
       THEN UNCHANGED journal
       ELSE journal' = [journal EXCEPT ![Key(r)].status = result]
    /\ UNCHANGED <<effects, host>>

\* A failed handler is settled as rejected and answered with its error.
Settlement(result) == IF result = "error" THEN "rejected" ELSE result

\* complete_command settles the row; the store call may fail, and the request
\* may be dropped before or after the commit
Complete(r) ==
    LET result == req[r].result IN
    /\ req[r].pc = "completing"
    /\ \/ /\ Answer(r, result)
          /\ journal' = [journal EXCEPT ![Key(r)].status = Settlement(result)]
       \/ /\ Interruptions
          /\ req' = [req EXCEPT ![r].pc = "gone"]
          /\ Release(r)
          /\ \/ UNCHANGED journal
             \/ journal' = [journal EXCEPT ![Key(r)].status = Settlement(result)]
    /\ UNCHANGED <<effects, host>>

Inside == {"leasing", "claiming", "running", "completing"}

\* The transport drops the request at an await.
Disconnect(r) ==
    /\ Interruptions
    /\ req[r].pc \in Inside \cup {"queued"}
    /\ At(r, "gone")
    /\ Release(r)
    /\ UNCHANGED <<journal, effects, host>>

\* The process dies; the kernel releases its file locks.
Crash(h) ==
    /\ Interruptions /\ host[h] # "dead"
    /\ host' = [host EXCEPT ![h] = "dead"]
    /\ req' = [r \in Requests |->
                IF req[r].host = h /\ req[r].pc # "answered"
                THEN [req[r] EXCEPT !.pc = "gone"] ELSE req[r]]
    /\ lease' = [k \in Keys |->
                IF lease[k] # None /\ req[lease[k]].host = h THEN None ELSE lease[k]]
    /\ mutex' = [mutex EXCEPT ![h] = None]
    /\ UNCHANGED <<journal, effects>>

-----------------------------------------------------------------------------
(* close *)

\* shutdown.cancel()
BeginClose(h) ==
    /\ host[h] = "up"
    /\ host' = [host EXCEPT ![h] = "closing"]
    /\ UNCHANGED <<journal, effects, mutex, lease, req>>

\* The running tasks are collected without passing the dispatcher.
MutCollectTasks(h) ==
    /\ host[h] = "closing"
    /\ host' = [host EXCEPT ![h] = "closed"]
    /\ UNCHANGED <<journal, effects, mutex, lease, req>>

\* shutdown_active_work: with the mutex, collect and cancel what runs
CollectTasks(h) ==
    /\ host[h] = "closing" /\ mutex[h] = None
    /\ host' = [host EXCEPT ![h] = "closed"]
    /\ UNCHANGED <<journal, effects, mutex, lease, req>>

RequestStep(r) ==
    Enter(r) \/ AcquireLease(r) \/ Claim(r) \/ Run(r) \/ Complete(r)

Next ==
    \/ \E r \in Requests, h \in Hosts : Send(r, h, CommandOf[r])
    \/ \E r \in Requests : RequestStep(r) \/ Disconnect(r)
    \/ \E h \in Hosts : Crash(h) \/ BeginClose(h) \/ CollectTasks(h)

Spec == Init /\ [][Next]_vars

\* The runtime keeps polling a request; handlers and store calls return.
FairSpec == Spec /\ \A r \in Requests : WF_vars(RequestStep(r))

-----------------------------------------------------------------------------
(* Properties *)

PcLabels == {"unsent", "queued", "answered", "gone"} \cup Inside

Request == [pc: PcLabels, host: Hosts \cup {None}, cmd: Commands \cup {None}, ran: BOOLEAN,
            result: Settled \cup {"none", "error", "refused", "conflict"}]

Row == [cmd: Commands \cup {None}, status: {"none", "processing"} \cup Settled]

\* The types of the journal, the locks and the requests: a request inside the
\* dispatcher has a host and a command, and one that settles has a result.
TypeOK ==
    /\ journal \in [Keys -> Row]
    /\ effects \in [Commands -> Nat]
    /\ mutex \in [Hosts -> Requests \cup {None}]
    /\ lease \in [Keys -> Requests \cup {None}]
    /\ req \in [Requests -> Request]
    /\ \A r \in Requests :
        /\ req[r].pc \in Inside \cup {"queued"} => req[r].host \in Hosts /\ req[r].cmd \in Commands
        /\ req[r].pc = "completing" => req[r].result \in Settled \cup {"error"}
    /\ host \in [Hosts -> {"up", "closing", "closed", "dead"}]

\* Once a command is settled, no delivery of it or of another command with
\* its key runs a handler again or changes the stored acknowledgement.
SettledIsFinal ==
    [][\A k \in Keys : journal[k].status \in Settled =>
        /\ journal'[k] = journal[k]
        /\ \A c \in Commands : KeyOf[c] = k => effects'[c] = effects[c]]_vars

RanFor(k) == {r \in Requests : req[r].ran /\ Key(r) = k}

\* Of the requests that ran a handler for one key, at most one was answered:
\* a command runs a second time only if the first run was cut off before its
\* acknowledgement was stored.
RerunOnlyIfCutOff ==
    \A k \in Keys : \A r, s \in RanFor(k) :
        req[r].pc = "answered" /\ req[s].pc = "answered" => r = s

Acknowledged == {r \in Requests : req[r].pc = "answered" /\ req[r].result \in Settled}

\* Every acknowledgement of a command says the same.
AcknowledgementsAgree ==
    \A r, s \in Acknowledged : req[r].cmd = req[s].cmd => req[r].result = req[s].result

\* Delivering a command again changes nothing, for whoever was answered: neither
\* what was done nor what is said of it.
RedeliveryIsIdempotent == RerunOnlyIfCutOff /\ AcknowledgementsAgree

\* Once a closing host has collected its running tasks, no prompt is left in
\* its dispatcher that could start another one.
ClosedHostIsQuiet ==
    \A r \in Requests :
        req[r].pc \in Inside => host[req[r].host] \in {"up", "closing"}

\* Hosts that wait for each other's file locks while holding their own
\* dispatcher do not block each other: every delivery comes to an end.
EveryRequestEnds ==
    \A r \in Requests : req[r].pc = "queued" ~> req[r].pc \in {"answered", "gone"}
=============================================================================
