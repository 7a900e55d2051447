------------------------- MODULE GatewayClientProofs -------------------------
(***************************************************************************)
(* The HTTP client implements the transport the collection loop relies on, *)
(* for every number of retries and every backoff.                          *)
(***************************************************************************)
EXTENDS GatewayClient, TLAPS

\* An answer to a processed batch was counted, and every POST counts at most once:
\* in attempt a, a POSTs are over, and one more once it is answered.
Posted == attempt + (IF pc = "answered" THEN 1 ELSE 0)

ClientInv ==
    /\ TypeOK
    /\ pc # "idle" => processed <= Posted
    /\ pc # "idle" => result = "none"
    /\ answer = "2xx" => processed > 0
    /\ backoff \in BaseBackoff..MaxBackoff

LEMMA ClientInit == Init => ClientInv
BY ClientAssumption DEF Init, ClientInv, TypeOK, Answers

LEMMA NextBackoffType ==
    ASSUME NEW b \in Nat
    PROVE  /\ NextBackoff(b) \in Nat
           /\ b \in BaseBackoff..MaxBackoff => NextBackoff(b) \in BaseBackoff..MaxBackoff
BY ClientAssumption DEF NextBackoff

LEMMA ClientNext == ClientInv /\ [Next]_vars => ClientInv'
<1>. SUFFICES ASSUME ClientInv, [Next]_vars PROVE ClientInv'
    OBVIOUS
<1>. USE ClientAssumption DEF ClientInv, TypeOK
<1>. "none" \notin Answers
    BY DEF Answers
<1>1. CASE SendBatch
    BY <1>1 DEF SendBatch, Posted
<1>2. ASSUME NEW a \in Answers, Process(a) PROVE ClientInv'
    <2>1. /\ pc = "posting" /\ pc' = "answered" /\ answer' = a
          /\ processed' = processed + 1
          /\ UNCHANGED <<attempt, backoff, slept, result>>
        BY <1>2 DEF Process
    <2>2. processed <= attempt
        BY <2>1 DEF Posted
    <2>3. TypeOK'
        BY <2>1, <2>2
    <2>4. processed' <= Posted'
        BY <2>1, <2>2 DEF Posted
    <2>. QED
        BY <2>1, <2>3, <2>4
<1>3. ASSUME NEW a \in Answers, Refuse(a) PROVE ClientInv'
    <2>1. /\ pc = "posting" /\ pc' = "answered" /\ answer' = a
          /\ UNCHANGED <<attempt, backoff, slept, result, processed>>
        BY <1>3 DEF Refuse
    <2>2. a # "2xx"
        BY <1>3 DEF Refuse, Unprocessed
    <2>3. TypeOK'
        BY <2>1
    <2>4. processed' <= Posted'
        BY <2>1 DEF Posted
    <2>. QED
        BY <2>1, <2>2, <2>3, <2>4
<1>4. CASE Accept \/ GiveUp \/ Cancelled
    <2>1. \E r \in {"accepted", "failed"} : Return(r)
        BY <1>4 DEF Accept, GiveUp, Cancelled
    <2>2. TypeOK'
        BY <2>1 DEF Return
    <2>. QED
        BY <2>1, <2>2 DEF Return
<1>5. CASE Retry
    <2>1. /\ pc = "answered" /\ attempt < MaxRetries
          /\ pc' = "waiting" /\ attempt' = attempt + 1
          /\ slept' = 0 /\ answer' = "none"
          /\ UNCHANGED <<result, processed>>
        BY <1>5 DEF Retry
    <2>2. backoff' \in Nat /\ backoff' \in BaseBackoff..MaxBackoff
        <3>1. backoff' = NextBackoff(backoff)
            BY <1>5 DEF Retry
        <3>. QED
            BY <3>1, NextBackoffType
    <2>3. TypeOK'
        BY <2>1, <2>2
    <2>4. processed' <= Posted'
        BY <2>1 DEF Posted
    <2>. QED
        BY <2>1, <2>2, <2>3, <2>4
<1>6. CASE Wake
    BY <1>6 DEF Wake, Posted
<1>7. CASE UNCHANGED vars
    BY <1>7 DEF vars, Posted
<1>. QED
    BY <1>1, <1>2, <1>3, <1>4, <1>5, <1>6, <1>7 DEF Next

LEMMA ClientInvariant == Spec => []ClientInv
BY ClientInit, ClientNext, PTL DEF Spec

\* The types, and no more POSTs than retries allow.
THEOREM ClientType == Spec => []TypeOK
<1>1. ClientInv => TypeOK
    BY DEF ClientInv
<1>. QED
    BY <1>1, ClientInvariant, PTL

\* Every delay is between the base and the ceiling.
THEOREM ClientDelayBounded == Spec => DelayBounded
<1>1. ClientInv /\ [Next]_vars
        => [pc = "waiting" /\ pc' = "posting" => slept' \in BaseBackoff..MaxBackoff]_vars
    <2>. SUFFICES ASSUME ClientInv, [Next]_vars, pc = "waiting", pc' = "posting"
                  PROVE  slept' \in BaseBackoff..MaxBackoff
        OBVIOUS
    <2>1. Wake
        BY DEF Next, SendBatch, Process, Refuse, Accept, Retry, GiveUp, Cancelled, Return, vars
    <2>. QED
        BY <2>1 DEF Wake, ClientInv
<1>. QED
    BY <1>1, ClientInvariant, PTL DEF Spec, DelayBounded

LEMMA StepsLeftType ==
    ASSUME TypeOK
    PROVE  StepsLeft \in Nat
BY ClientAssumption DEF TypeOK, StepsLeft

\* A call takes at most 3 * MaxRetries + 2 steps: StepsLeft is a natural number, one
\* less than that when the call begins, and every step lowers it.
THEOREM CallsProgress == Spec => CallProgresses
<1>1. ASSUME ClientInv, Next, pc # "idle", pc' # "idle"
      PROVE  StepsLeft' < StepsLeft
    <2>1. /\ attempt \in Nat /\ attempt <= MaxRetries /\ MaxRetries \in Nat
          /\ pc \in {"waiting", "posting", "answered"}
        BY <1>1, ClientAssumption DEF ClientInv, TypeOK
    <2>2. CASE \E a \in Answers : Process(a) \/ Refuse(a)
        BY <2>1, <2>2 DEF Process, Refuse, StepsLeft
    <2>3. CASE Retry
        BY <2>1, <2>3 DEF Retry, StepsLeft
    <2>4. CASE Wake
        BY <2>1, <2>4 DEF Wake, StepsLeft
    <2>. QED
        BY <1>1, <2>1, <2>2, <2>3, <2>4 DEF Next, SendBatch, Accept, GiveUp, Cancelled, Return
<1>2. ASSUME ClientInv, Next
      PROVE  StepsLeft \in Nat /\ StepsLeft' \in Nat
    <2>1. TypeOK'
        BY <1>2, ClientNext DEF ClientInv
    <2>2. StepsLeft' \in Nat
        BY <2>1, ClientAssumption DEF TypeOK, StepsLeft
    <2>. QED
        BY <1>2, <2>2, StepsLeftType DEF ClientInv
<1>3. ClientInv /\ [Next]_vars
        => [pc # "idle" /\ pc' # "idle" => StepsLeft' \in 0..(StepsLeft - 1)]_vars
    BY <1>1, <1>2
<1>. QED
    BY <1>3, ClientInvariant, PTL DEF Spec, CallProgresses

\* A step of the client is a step of the transport or leaves it alone.
LEMMA ClientStep == ClientInv /\ [Next]_vars => [T!Next]_<<call, processed>>
<1>. SUFFICES ASSUME ClientInv, [Next]_vars
              PROVE  T!Next \/ UNCHANGED <<call, processed>>
    BY DEF T!Next
<1>. USE ClientAssumption DEF ClientInv, TypeOK, Posted, call
<1>1. CASE SendBatch
    <2>1. T!Send
        BY <1>1 DEF SendBatch, T!Send
    <2>. QED
        BY <2>1 DEF T!Next
<1>2. ASSUME NEW a \in Answers, Process(a)
      PROVE  T!Next
    <2>1. T!Deliver
        BY <1>2 DEF Process, T!Deliver
    <2>. QED
        BY <2>1 DEF T!Next
<1>3. ASSUME NEW a \in Answers, Refuse(a)
      PROVE  UNCHANGED <<call, processed>>
    BY <1>3 DEF Refuse
<1>4. CASE Accept
    <2>1. T!Accept
        BY <1>4 DEF Accept, Return, T!Accept
    <2>. QED
        BY <2>1 DEF T!Next
<1>5. CASE GiveUp \/ Cancelled
    <2>1. T!Fail
        BY <1>5 DEF GiveUp, Cancelled, Return, T!Fail
    <2>. QED
        BY <2>1 DEF T!Next
<1>6. CASE Retry \/ Wake
    BY <1>6 DEF Retry, Wake
<1>7. CASE UNCHANGED vars
    BY <1>7 DEF vars
<1>. QED
    BY <1>1, <1>2, <1>3, <1>4, <1>5, <1>6, <1>7 DEF Next

\* SendBatch returns nil only for a processed batch, posted at most MaxRetries + 1
\* times.
THEOREM ClientImplementsTransport == Spec => ImplementsTransport
<1>1. Init => T!Init
    BY DEF Init, T!Init, call
<1>. QED
    BY <1>1, ClientStep, ClientInvariant, PTL DEF Spec, T!Spec, ImplementsTransport
=============================================================================
