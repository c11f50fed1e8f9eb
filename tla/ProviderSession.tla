--------------------------- MODULE ProviderSession ---------------------------
(***************************************************************************)
(* One logical model request: streamed attempts with an idle timeout,         *)
(* retries with backoff, the switch to the buffered transport and to the      *)
(* fallback provider, cancellation and the task's deadline.  What the stream  *)
(* shows of an attempt is a preview; a recovery event may reset it.           *)
(*                                                                         *)
(* Source: crates/golutra-agent-runtime/src/provider_session.rs,              *)
(* provider_recovery.rs, provider_retry.rs                                    *)
(***************************************************************************)
EXTENDS Naturals

CONSTANTS
    MaxStreamRetries, MaxRequestRetries,    \* ProviderSessionPolicy
    TransportFallback,      \* the policy allows and the provider has the buffered transport
    HasFallback,            \* there is a fallback provider
    MaxWaits                \* bound: failures to connect that are waited out

ASSUME SessionAssumption ==
    /\ MaxStreamRetries \in Nat /\ MaxRequestRetries \in Nat /\ MaxWaits \in Nat
    /\ TransportFallback \in BOOLEAN /\ HasFallback \in BOOLEAN

VARIABLES
    cancelled,      \* the task's cancellation token
    phase,          \* what the session is doing, or how it ended
    provider, transport,
    ordinary,       \* ordinary_retries of the provider's RetryState
    waits,          \* its connection_retries
    visible,        \* emit_stream: previews are shown, lost connections waited out
    attempt,        \* attempts of the session, the current one included
    sent,           \* requests of the current provider that reached the network
    shown           \* attempts whose preview is on display

sessionVars == <<phase, provider, transport, ordinary, waits, visible, attempt, sent, shown>>

\* What the retry rules tell apart: a connection that was never made, a busy or
\* slow provider, a stream that broke off, another failure, and a refusal that
\* no provider would answer differently (4xx, not configured, malformed).
Errors == {"Connection", "Busy", "Interrupted", "Failed", "Refused"}
Retryable(e) == e \in {"Connection", "Busy", "Interrupted"}
FallbackEligible(e) == e # "Refused"
TransportEligible(e) == e = "Interrupted"

TotalRetries == IF MaxStreamRetries > MaxRequestRetries THEN MaxStreamRetries ELSE MaxRequestRetries

SessionInit ==
    /\ cancelled = FALSE /\ phase = "idle" /\ provider = "primary" /\ transport = "stream"
    /\ ordinary = 0 /\ waits = 0 /\ visible = TRUE /\ attempt = 0 /\ sent = 0 /\ shown = {}

\* The session is dropped with its result.
Leave ==
    /\ phase' = "idle" /\ provider' = "primary" /\ transport' = "stream"
    /\ ordinary' = 0 /\ waits' = 0 /\ visible' = TRUE /\ attempt' = 0 /\ sent' = 0 /\ shown' = {}

Ended == phase \in {"ok", "failed", "cancelled", "deadline"}
Active == phase \in {"attempt", "sent", "backoff"}

\* complete
Begin(emit) ==
    /\ phase' = "attempt" /\ provider' = "primary" /\ transport' = "stream"
    /\ ordinary' = 0 /\ waits' = 0 /\ visible' = emit
    /\ attempt' = 1 /\ sent' = 0 /\ shown' = {}

\* The request goes out even though the task was cancelled in the meantime.
MutSend ==
    /\ phase = "attempt"
    /\ phase' = "sent" /\ sent' = sent + 1
    /\ UNCHANGED <<provider, transport, ordinary, waits, visible, attempt, shown>>

\* An attempt begins: cancellation is looked at first, then the request is sent.
Send ==
    /\ phase = "attempt"
    /\ IF cancelled THEN phase' = "cancelled" /\ UNCHANGED sent
       ELSE phase' = "sent" /\ sent' = sent + 1
    /\ UNCHANGED <<provider, transport, ordinary, waits, visible, attempt, shown>>

\* A piece of text or a tool name is shown, and the idle timer starts again.
Stream ==
    /\ phase = "sent" /\ transport = "stream" /\ ~cancelled /\ visible
    /\ shown' = shown \cup {attempt}
    /\ UNCHANGED <<phase, provider, transport, ordinary, waits, visible, attempt, sent>>

\* What was still in the channel when the attempt ended is shown too.
Drained == IF transport = "stream" /\ visible THEN {shown, shown \cup {attempt}} ELSE {shown}

\* The response is whole; a buffered one is shown at once.
Succeed ==
    /\ phase = "sent" /\ ~cancelled
    /\ shown' \in IF transport = "buffered" /\ visible THEN {shown \cup {attempt}} ELSE Drained
    /\ phase' = "ok"
    /\ UNCHANGED <<provider, transport, ordinary, waits, visible, attempt, sent>>

\* RetryState::schedule: a lost connection is waited out and does not count.
Waited(e) == visible /\ e = "Connection"
MayRetry(e, limit) == Retryable(e) /\ (Waited(e) \/ ordinary < limit)

\* The retries that a broken stream leaves for the other transport.
StreamRetries(e) ==
    IF TransportFallback /\ TransportEligible(e) /\ TotalRetries > 0 /\ MaxStreamRetries = TotalRetries
    THEN TotalRetries - 1 ELSE MaxStreamRetries

RetryLimit(e) == IF transport = "stream" THEN StreamRetries(e) ELSE TotalRetries

\* The preview of the attempt that failed stays on display.
MutRetry(e, seen) ==
    /\ MayRetry(e, RetryLimit(e)) /\ (Waited(e) => waits < MaxWaits)
    /\ waits' = IF Waited(e) THEN waits + 1 ELSE waits
    /\ ordinary' = IF Waited(e) THEN ordinary ELSE ordinary + 1
    /\ shown' = seen
    /\ phase' = "backoff" /\ UNCHANGED <<provider, transport, sent>>

\* The same transport is tried again after a pause; the preview of a streamed
\* attempt is reset if there was one.
Retry(e, seen) ==
    /\ MayRetry(e, RetryLimit(e)) /\ (Waited(e) => waits < MaxWaits)
    /\ waits' = IF Waited(e) THEN waits + 1 ELSE waits
    /\ ordinary' = IF Waited(e) THEN ordinary ELSE ordinary + 1
    /\ shown' = IF attempt \in seen THEN {} ELSE seen
    /\ phase' = "backoff" /\ UNCHANGED <<provider, transport, sent>>

\* The switch to the buffered transport is a retry, counted as one.
SwitchTransport(e) ==
    /\ transport = "stream" /\ TransportFallback /\ TransportEligible(e)
    /\ ~MayRetry(e, RetryLimit(e)) /\ ordinary < TotalRetries
    /\ transport' = "buffered" /\ ordinary' = ordinary + 1 /\ shown' = {}
    /\ phase' = "backoff" /\ UNCHANGED <<provider, waits, sent>>

\* complete_provider gives the error up.
Exhausted(e) ==
    /\ ~MayRetry(e, RetryLimit(e))
    /\ transport = "stream" /\ TransportFallback /\ TransportEligible(e) => ordinary >= TotalRetries

\* The fallback provider starts over, on a clean display.
SwitchProvider(e) ==
    /\ Exhausted(e) /\ provider = "primary" /\ HasFallback /\ FallbackEligible(e)
    /\ provider' = "fallback" /\ transport' = "stream" /\ ordinary' = 0 /\ waits' = 0
    /\ sent' = 0 /\ shown' = {} /\ phase' = "attempt"

GiveUp(e, seen) ==
    /\ Exhausted(e) /\ ~(provider = "primary" /\ HasFallback /\ FallbackEligible(e))
    /\ shown' = seen /\ phase' = "failed"
    /\ UNCHANGED <<provider, transport, ordinary, waits, sent>>

\* An attempt fails: an error, or the idle or request timeout (which leaves the
\* channel unread).  Only a stream can break off.
Fail(e) ==
    /\ phase = "sent" /\ ~cancelled /\ (e = "Interrupted" => transport = "stream")
    /\ \E seen \in Drained :
        \/ Retry(e, seen) \/ SwitchTransport(e) \/ SwitchProvider(e) \/ GiveUp(e, seen)
    /\ attempt' = IF phase' = "failed" THEN attempt ELSE attempt + 1
    /\ UNCHANGED visible

\* wait_backoff: whichever of the timer and the cancellation is seen.
BackoffOver ==
    /\ phase = "backoff" /\ phase' = "attempt"
    /\ UNCHANGED <<provider, transport, ordinary, waits, visible, attempt, sent, shown>>

SessionCancelled ==
    /\ phase \in {"sent", "backoff"} /\ cancelled /\ phase' = "cancelled"
    /\ UNCHANGED <<provider, transport, ordinary, waits, visible, attempt, sent, shown>>

\* timeout_at drops the session wherever it is.
DeadlineExceeded ==
    /\ Active /\ phase' = "deadline"
    /\ UNCHANGED <<provider, transport, ordinary, waits, visible, attempt, sent, shown>>

SessionStep ==
    \/ Send \/ Stream \/ Succeed \/ BackoffOver \/ SessionCancelled
    \/ \E e \in Errors : Fail(e)

-----------------------------------------------------------------------------
(* Properties *)

\* Whatever was retried or switched, the display holds text of one attempt only:
\* while an attempt runs, and in what is left of the one that answered.
PreviewOfOneAttempt == phase \in {"attempt", "sent", "ok"} => shown \subseteq {attempt}

\* A provider is asked at most once more than it may be retried, over both
\* transports together; lost connections come on top.
RetriesAreShared == sent <= 1 + TotalRetries + waits
=============================================================================
