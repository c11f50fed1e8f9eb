----------------------------- MODULE Deployments -----------------------------
(***************************************************************************)
(* What the release store promises: every deployment happens at once and is   *)
(* logged, whatever stops while it is carried out.                            *)
(***************************************************************************)
EXTENDS ReleaseOperations

VARIABLES pointers, history
vars == <<pointers, history>>

Init == pointers = NoPointers /\ history = <<>>

Deploy(op, r) ==
    /\ Allowed(op, r, pointers)
    /\ pointers' = NextPointers(op, r, pointers)
    /\ history' = Append(history, Deployment(op, r, pointers))

Next == \E op \in Operations, r \in Releases : Deploy(op, r)

Spec == Init /\ [][Next]_vars

-----------------------------------------------------------------------------
(* Properties *)

Record == [phase: {"preview", "canary", "promoted", "rolled_back"}, release: Releases,
           previous: Releases \cup {NoRelease}]

\* The types of the pointers and of the log.  Every record names a release: a
\* rollback and a cancelled canary have one to go back to.
TypeOK ==
    /\ pointers \in [PointerNames -> Releases \cup {NoRelease}]
    /\ history \in Seq(Record)

\* There is one candidate at a time: a canary is also the preview.
OneCandidate == pointers["canary"] \in {NoRelease, pointers["preview"]}

\* The record i ends a candidacy.
Decides(i) == history[i].phase \in {"promoted", "rolled_back"}

\* Release r was previewed before record i, and nothing was decided since.
Candidate(r, i) ==
    \E j \in 1..(i - 1) :
        /\ history[j].phase = "preview" /\ history[j].release = r
        /\ \A k \in j..(i - 1) : ~Decides(k)

\* A release is promoted only as a candidate: after its own preview, and with
\* no promotion or rollback between the two.
PromotedWasPreviewed ==
    \A i \in 1..Len(history) : history[i].phase = "promoted" => Candidate(history[i].release, i)

\* A stable pointer never names a release that was not promoted: a rollback
\* and a cancelled canary go back to one that was.
StableWasPromoted ==
    \A n \in {"stable", "previous-stable"} :
        pointers[n] # NoRelease =>
            \E i \in 1..Len(history) :
                history[i].phase = "promoted" /\ history[i].release = pointers[n]

\* What is or was stable has been vetted: promoted, and only as the candidate.
StableWasVetted == PromotedWasPreviewed /\ StableWasPromoted
=============================================================================
