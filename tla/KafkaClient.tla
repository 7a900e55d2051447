----------------------------- MODULE KafkaClient -----------------------------
(***************************************************************************)
(* The Kafka transport (internal/gateway/kafka.go).  SendBatch produces    *)
(* its batch as one record with ProduceSync, which returns once all        *)
(* in-sync replicas have the record, or with an error; its own retries set *)
(* no limit, so the call may block for ever.  SendBatch then looks at the  *)
(* error.  A record still under way when the producer gives up may be      *)
(* appended later; that repeats what the next cycle sends again, and is    *)
(* left out.                                                               *)
(***************************************************************************)
VARIABLES
    producing,  \* "no", or while SendBatch runs: "waiting" in ProduceSync, or what
                \* that returned, "acked" or "error"
    appended,   \* the record of this call is in the topic
    closed      \* Close was called

kafkaVars == <<producing, appended, closed>>

KafkaInit == producing = "no" /\ appended = FALSE /\ closed = FALSE

InCall == producing # "no"

SendBatch ==
    /\ ~InCall
    /\ producing' = "waiting"
    /\ UNCHANGED <<appended, closed>>

\* The leader of the partition appends the record, and possibly appends it again
\* when the producer tries again.  A producer that was closed sends nothing any more.
BrokerAppends ==
    /\ producing = "waiting" /\ ~closed
    /\ appended' = TRUE
    /\ UNCHANGED <<producing, closed>>

\* ProduceSync returns: without an error when the brokers have acknowledged the
\* record, or with one, which says nothing of whether it was appended.
BrokersAcknowledge ==
    /\ producing = "waiting" /\ appended
    /\ producing' = "acked"
    /\ UNCHANGED <<appended, closed>>

ProduceFails ==
    /\ producing = "waiting"
    /\ producing' = "error"
    /\ UNCHANGED <<appended, closed>>

Returns == producing' = "no" /\ appended' = FALSE /\ UNCHANGED closed

\* SendBatch returns what FirstErr says.  (Fault: nobody asks.)
AcceptUnchecked == producing \in {"acked", "error"} /\ Returns
Accept == producing = "acked" /\ Returns
Fail == producing = "error" /\ Returns

Close ==
    /\ closed' = TRUE
    /\ UNCHANGED <<producing, appended>>

\* The client goes with its process, whatever it was doing; the next process
\* has a new one.
Dropped == producing' = "no" /\ appended' = FALSE /\ closed' = FALSE
-----------------------------------------------------------------------------
\* "After Close returns, the KafkaClient MUST NOT be used" (kafka.go:90): no call
\* is in flight when the producer is closed, and none is made after that.
NeverUsedAfterClose == closed => ~InCall
=============================================================================
