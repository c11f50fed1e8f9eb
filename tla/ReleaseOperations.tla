-------------------------- MODULE ReleaseOperations --------------------------
(***************************************************************************)
(* The release pointers and the operations on them, as functions of the       *)
(* pointers: which operation is allowed, what it changes, what it writes to   *)
(* the deployment log, and what the log says the pointers are.                *)
(*                                                                         *)
(* Source: crates/golutra-agent-release/src/lib.rs (ReleaseStore).            *)
(***************************************************************************)
EXTENDS Naturals, Sequences, SequencesExt

CONSTANTS
    Releases,     \* built releases; a release never changes
    NoRelease

ASSUME NoReleaseAssumption == NoRelease \notin Releases

PointerNames == {"previous-stable", "stable", "preview", "canary"}
NoPointers == [n \in PointerNames |-> NoRelease]
Operations == {"set_preview", "start_canary", "promote", "cancel_canary", "rollback"}

\* The release a rollback restores.
Restored(ptrs) ==
    IF ptrs["previous-stable"] # NoRelease THEN ptrs["previous-stable"] ELSE ptrs["stable"]

\* A release is promoted whether or not it was a candidate.
MutUnvetted(op, r, ptrs) ==
    CASE op = "set_preview"   -> {ptrs["preview"], ptrs["canary"]} \subseteq {NoRelease, r}
      [] op = "start_canary"  -> ptrs["preview"] = r
      [] op = "promote"       -> TRUE
      [] op = "cancel_canary" -> ptrs["canary"] = r /\ ptrs["stable"] # NoRelease
      [] op = "rollback"      -> Restored(ptrs) = r /\ r # NoRelease

\* The checks of each operation; for rollback, r is what it restores.
Allowed(op, r, ptrs) ==
    CASE op = "set_preview"   -> {ptrs["preview"], ptrs["canary"]} \subseteq {NoRelease, r}
      [] op = "start_canary"  -> ptrs["preview"] = r
      [] op = "promote"       -> r \in {ptrs["preview"], ptrs["canary"]}
      [] op = "cancel_canary" -> ptrs["canary"] = r /\ ptrs["stable"] # NoRelease
      [] op = "rollback"      -> Restored(ptrs) = r /\ r # NoRelease

NoCandidate(ptrs) == [ptrs EXCEPT !["preview"] = NoRelease, !["canary"] = NoRelease]

\* The pointers of the pending deployment.
NextPointers(op, r, ptrs) ==
    CASE op = "set_preview"   -> [ptrs EXCEPT !["preview"] = r]
      [] op = "start_canary"  -> [ptrs EXCEPT !["canary"] = r]
      [] op = "promote"       ->
             [NoCandidate(ptrs) EXCEPT
                 !["stable"] = r,
                 !["previous-stable"] = IF ptrs["stable"] # NoRelease THEN ptrs["stable"] ELSE @]
      [] op = "cancel_canary" -> NoCandidate(ptrs)
      [] op = "rollback"      -> [NoCandidate(ptrs) EXCEPT !["stable"] = r]

\* The phase, release and previous release of the deployment record.
Deployment(op, r, ptrs) ==
    CASE op = "set_preview"   -> [phase |-> "preview", release |-> r, previous |-> NoRelease]
      [] op = "start_canary"  -> [phase |-> "canary", release |-> r, previous |-> ptrs["stable"]]
      [] op = "promote"       -> [phase |-> "promoted", release |-> r, previous |-> ptrs["stable"]]
      [] op = "cancel_canary" ->
             [phase |-> "rolled_back", release |-> ptrs["stable"], previous |-> r]
      [] op = "rollback"      ->
             [phase |-> "rolled_back", release |-> r, previous |-> ptrs["stable"]]

\* verify_pointer_state_against_log: what one record makes of the pointers
Replay(d, ptrs) ==
    CASE d.phase = "preview"     -> [ptrs EXCEPT !["preview"] = d.release]
      [] d.phase = "canary"      -> [ptrs EXCEPT !["canary"] = d.release]
      [] d.phase = "promoted"    -> [NoCandidate(ptrs) EXCEPT !["stable"] = d.release,
                                                              !["previous-stable"] = d.previous]
      [] d.phase = "rolled_back" -> [NoCandidate(ptrs) EXCEPT !["stable"] = d.release]

ExpectedPointers(records) ==
    LET expected[n \in 0..Len(records)] ==
            IF n = 0 THEN NoPointers ELSE Replay(records[n], expected[n - 1])
    IN  expected[Len(records)]
=============================================================================
