---------------------------- MODULE GatewayClient ----------------------------
(***************************************************************************)
(* The HTTP transport (internal/gateway/client.go): one SendBatch call     *)
(* POSTs its batch up to MaxRetries + 1 times, sleeping an exponentially   *)
(* growing time between attempts.  The Gateway processes a POST or does    *)
(* not, and its answer arrives or does not.  It answers the POST itself:   *)
(* http.Client would follow a redirect to another server, or turn the POST *)
(* into a GET, and SendBatch would see the answer to that.                 *)
(***************************************************************************)
EXTENDS Naturals

CONSTANTS
    MaxRetries, BaseBackoff, MaxBackoff,
    Cancellable     \* may the caller's context be cancelled

ASSUME ClientAssumption ==
    /\ MaxRetries \in Nat
    /\ BaseBackoff \in Nat \ {0} /\ MaxBackoff \in Nat
    /\ BaseBackoff <= MaxBackoff
    /\ Cancellable \in BOOLEAN

VARIABLES
    pc,         \* "idle", "waiting", "posting" or "answered"
    attempt,    \* SendBatch: the loop counter
    backoff,    \* SendBatch: the next delay
    slept,      \* the delay before the current attempt, 0 for the first
    answer,     \* how the current POST ended
    result,     \* what the last call returned
    processed   \* how often the Gateway processed the batch of this call

vars == <<pc, attempt, backoff, slept, answer, result, processed>>

\* Answers and errors by what SendBatch does with them.  Every error of
\* http.Client.Do is a net.Error, except that errors.Is finds DeadlineExceeded
\* in that of the client's own Timeout; a body cut short is not a net.Error.
Answers == {"2xx", "2xx garbled", "4xx", "5xx", "connection", "timeout", "truncated"}

\* The answers the Gateway may give without, and with, processing the batch.
Unprocessed == {"4xx", "5xx", "connection", "timeout", "truncated"}
Processed == Answers \ {"4xx"}

IsRetryable(a) == a \in {"5xx", "connection"}

UncappedBackoff(current) == 2 * current                           \* fault
NextBackoff(current) ==
    IF 2 * current > MaxBackoff THEN MaxBackoff ELSE 2 * current

Init ==
    /\ pc = "idle" /\ attempt = 0 /\ backoff = BaseBackoff /\ slept = 0
    /\ answer = "none" /\ result = "none" /\ processed = 0

SendBatch ==
    /\ pc = "idle"
    /\ pc' = "posting"
    /\ attempt' = 0 /\ backoff' = BaseBackoff /\ slept' = 0
    /\ answer' = "none" /\ result' = "none" /\ processed' = 0

\* Fault: the last answer is left over.
ReturnDirty(r) ==
    /\ pc' = "idle"
    /\ result' = r
    /\ UNCHANGED <<attempt, backoff, slept, answer, processed>>

Return(r) ==
    /\ pc' = "idle"
    /\ result' = r
    /\ attempt' = 0 /\ backoff' = BaseBackoff /\ slept' = 0
    /\ answer' = "none"
    /\ UNCHANGED processed

\* The Gateway processes the POST; it will still have to answer.
Process(a) ==
    /\ pc = "posting" /\ a \in Processed
    /\ pc' = "answered"
    /\ answer' = a
    /\ processed' = processed + 1
    /\ UNCHANGED <<attempt, backoff, slept, result>>

Refuse(a) ==
    /\ pc = "posting" /\ a \in Unprocessed
    /\ pc' = "answered"
    /\ answer' = a
    /\ UNCHANGED <<attempt, backoff, slept, result, processed>>

\* Fault: every answer of the Gateway counts as success.
AcceptAnyAnswer ==
    /\ pc = "answered" /\ answer \in {"2xx", "4xx"}
    /\ Return("accepted")

Accept ==
    /\ pc = "answered" /\ answer = "2xx"
    /\ Return("accepted")

\* Fault: retries are not counted.
RetryForever ==
    /\ pc = "answered" /\ IsRetryable(answer) /\ attempt < MaxRetries
    /\ pc' = "waiting"
    /\ answer' = "none"
    /\ UNCHANGED <<attempt, backoff, slept, result, processed>>

Retry ==
    /\ pc = "answered" /\ IsRetryable(answer) /\ attempt < MaxRetries
    /\ pc' = "waiting"
    /\ attempt' = attempt + 1
    /\ backoff' = NextBackoff(backoff)
    /\ slept' = 0
    /\ answer' = "none"
    /\ UNCHANGED <<result, processed>>

GiveUp ==
    /\ pc = "answered" /\ answer # "2xx"
    /\ IsRetryable(answer) => attempt >= MaxRetries
    /\ Return("failed")

\* The delay is over; jitter spreads it by a quarter each way.
Wake ==
    /\ pc = "waiting"
    /\ pc' = "posting"
    /\ slept' = backoff
    /\ UNCHANGED <<attempt, backoff, answer, result, processed>>

\* The context ends while SendBatch sleeps or waits for an answer.  The
\* collection loop's never does: Run detaches it with WithoutCancel.
Cancelled ==
    /\ Cancellable
    /\ pc \in {"waiting", "posting"}
    /\ Return("failed")

Next ==
    \/ SendBatch
    \/ \E a \in Answers : Process(a) \/ Refuse(a)
    \/ Accept \/ Retry \/ GiveUp \/ Wake \/ Cancelled

\* The Gateway answers or the client times out, and sleeps end.
Fairness == WF_vars(\E a \in Answers : Process(a) \/ Refuse(a))
            /\ WF_vars(Accept \/ Retry \/ GiveUp \/ Wake)

Spec == Init /\ [][Next]_vars /\ Fairness
-----------------------------------------------------------------------------
TypeOK ==
    /\ pc \in {"idle", "waiting", "posting", "answered"}
    /\ attempt \in 0..MaxRetries
    /\ backoff \in Nat /\ slept \in Nat
    /\ answer \in Answers \cup {"none"}
    /\ result \in {"none", "accepted", "failed"}
    /\ processed \in 0..(MaxRetries + 1)
    /\ pc = "answered" <=> answer # "none"

\* SendBatch (client.go:125-204) returns nil only for a batch the Gateway
\* processed, and posts it at most MaxRetries + 1 times: it implements the
\* transport the loop relies on.
call == IF pc # "idle" THEN "sending" ELSE result
T == INSTANCE Transport WITH MaxDeliveries <- MaxRetries + 1, deliveries <- processed
ImplementsTransport == T!Spec

\* The delay before a retry is never below the base nor above the ceiling
\* (client.go:31-34, 113-119), jitter aside.
DelayBounded ==
    [][pc = "waiting" /\ pc' = "posting" => slept' \in BaseBackoff..MaxBackoff]_vars

\* How many steps are left of a call that is never cancelled.
StepsLeft ==
    3 * (MaxRetries - attempt) + (CASE pc = "waiting" -> 2 [] pc = "posting" -> 1 [] OTHER -> 0)

\* Every step of a call brings its end nearer, whatever the Gateway answers: it is
\* over after 3 * MaxRetries + 2 of them (client.go:136-204).
CallProgresses ==
    [][pc # "idle" /\ pc' # "idle" => StepsLeft' \in 0..(StepsLeft - 1)]_vars

\* A call returns: the loop, which makes one call at a time, is never stuck in it.
CallReturns == pc # "idle" ~> pc = "idle"

\* "It retries on connection errors, 5xx, and timeouts" (client.go:122-123).
TimeoutsRetried ==
    [][pc = "answered" /\ answer = "timeout" /\ attempt < MaxRetries => pc' # "idle"]_vars
=============================================================================
