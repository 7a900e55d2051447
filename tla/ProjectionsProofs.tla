-------------------------- MODULE ProjectionsProofs --------------------------
(***************************************************************************)
(* Proofs about Projections, for any tables, schemas and bounds.           *)
(***************************************************************************)
EXTENDS Projections, SequenceTheorems, TLAPS

USE DEF Kind, Optional, Stage

-----------------------------------------------------------------------------
(* Reading.                                                                *)

\* Whatever the stage, a query returns rows.
LEMMA QueriedAreRows ==
    ASSUME TypeOK, NEW k \in Kind, NEW stage \in Stage
    PROVE  Queried(k, stage) \subseteq Row
<1>1. CASE k = "contexts"
    <2>1. \A i \in DOMAIN page : page[i] \in Usage
        BY LenProperties, ElementOfSeq DEF TypeOK
    <2>2. Owners(k) \subseteq Session
        BY <1>1, <2>1 DEF Owners, SessionsOf, Usage
    <2>3. \A s \in Session : [owner |-> s, key |-> Blank, version |-> version[s]] \in Row
        BY DEF TypeOK, Row
    <2>4. Queried(k, stage) = {[owner |-> s, key |-> Blank, version |-> version[s]] :
                                s \in Owners(k)}
        BY <1>1 DEF Queried
    <2>5. QED BY <2>2, <2>3, <2>4
<1>2. CASE k # "contexts"
    <2>1. k \in Optional /\ table[k] \subseteq Row BY <1>2 DEF TypeOK
    <2>2. \A r \in Row : [r EXCEPT !.key = Blank] \in Row BY DEF Row
    <2>3. CASE stage = "absent"
        <3>1. Queried(k, stage) = {} BY <1>2, <2>3 DEF Queried
        <3>2. QED BY <3>1
    <2>4. CASE stage = "keyless"
        <3>1. Queried(k, stage) = {[r EXCEPT !.key = Blank] :
                                    r \in {q \in table[k] : q.owner \in Owners(k)}}
            BY <1>2, <2>4 DEF Queried
        <3>2. QED BY <2>1, <2>2, <3>1
    <2>5. CASE stage = "full"
        <3>1. Queried(k, stage) = {r \in table[k] : r.owner \in Owners(k)}
            BY <1>2, <2>5 DEF Queried
        <3>2. QED BY <2>1, <3>1
    <2>6. QED BY <2>3, <2>4, <2>5
<1>3. QED BY <1>1, <1>2

\* Only rows the query returned are sent.
LEMMA DedupOfQueried ==
    ASSUME NEW k, NEW S, NEW rows \in Orders(S) PROVE Dedup(k, rows) \subseteq S
<1>1. rows \in [1..Cardinality(S) -> S] BY DEF Orders
<1>2. \A i \in DOMAIN rows : rows[i] \in S BY <1>1
<1>3. QED BY <1>2 DEF Dedup

\* A snapshot is a set of rows.
LEMMA ReadRows ==
    ASSUME TypeOK, NEW k \in Kind, Read(k)
    PROVE  \E sent \in SUBSET Row : snapshot' = [snapshot EXCEPT ![k] = sent]
<1> DEFINE stage == IF k \in Optional THEN dbInfo[k] ELSE "full"
<1>1. stage \in Stage BY DEF TypeOK
<1>2. Queried(k, stage) \subseteq Row BY <1>1, QueriedAreRows
<1>3. PICK rows \in Orders(Queried(k, stage)) :
        snapshot' = [snapshot EXCEPT ![k] = Dedup(k, rows)]
    BY DEF Read
<1>4. Dedup(k, rows) \subseteq Queried(k, stage) BY DedupOfQueried
<1>5. QED BY <1>2, <1>3, <1>4

-----------------------------------------------------------------------------
(* Types.                                                                  *)

LEMMA TypeInit == Init => TypeOK
<1> SUFFICES ASSUME Init PROVE TypeOK OBVIOUS
<1> USE DEF Init, NoInfo, NoSnapshot
<1>1. version \in [Session -> 0..MaxVersion] BY ProjectionsAssumption
<1>2. backlog \in Seq(Usage) /\ page \in Seq(Usage) BY EmptySeq
<1>3. Len(page) <= Len(backlog) /\ \A i \in DOMAIN page : page[i] = backlog[i]
    OBVIOUS
<1>4. table \in [Optional -> SUBSET Row] /\ snapshot \in [Kind -> SUBSET Row]
    OBVIOUS
<1>5. schema \in [Optional -> Stage] /\ dbInfo \in [Optional -> Stage] OBVIOUS
<1>6. QED BY <1>1, <1>2, <1>3, <1>4, <1>5 DEF TypeOK

\* The source, the queue with its page, and the rest are types of their own.
SourceType ==
    /\ version \in [Session -> 0..MaxVersion]
    /\ table \in [Optional -> SUBSET Row]
    /\ schema \in [Optional -> Stage]

PageType ==
    /\ backlog \in Seq(Usage) /\ page \in Seq(Usage)
    /\ Len(page) <= Len(backlog)
    /\ \A i \in DOMAIN page : page[i] = backlog[i]

LoopType ==
    /\ dbInfo \in [Optional -> Stage]
    /\ pc \in {"idle", "records", "send", "acked", "down"} \cup Kind
    /\ snapshot \in [Kind -> SUBSET Row]

LEMMA TypeParts == TypeOK <=> SourceType /\ PageType /\ LoopType
BY DEF TypeOK, SourceType, PageType, LoopType

LEMMA SourceNext ==
    ASSUME TypeOK, [Next]_vars PROVE SourceType'
<1> USE TypeParts DEF SourceType
<1>1. ASSUME NEW s \in Session, UpdateSession(s) PROVE SourceType'
    <2>1. version[s] + 1 \in 0..MaxVersion
        BY <1>1, ProjectionsAssumption DEF UpdateSession
    <2>2. QED BY <1>1, <2>1 DEF UpdateSession
<1>2. ASSUME NEW k \in Optional, NEW r \in Candidates[k], Store(k, r) \/ Delete(k, r)
      PROVE SourceType'
    <2>1. r \in Row BY ProjectionsAssumption
    <2>2. QED BY <1>2, <2>1 DEF Store, Delete
<1>3. ASSUME NEW k \in Optional, NEW stage \in Stages[k], Migrate(k, stage)
      PROVE SourceType'
    <2>1. stage \in Stage BY ProjectionsAssumption
    <2>2. QED BY <1>3, <2>1 DEF Migrate
<1>4. CASE UNCHANGED sourceVars BY <1>4 DEF sourceVars
<1>5. ASSUME NEW s \in Session, CommitUsage(s) PROVE UNCHANGED sourceVars
    BY <1>5 DEF CommitUsage
<1>6. CASE Cycle \/ Crash
    BY <1>4, <1>6 DEF Cycle, Start, Inspection, Inspect, ReadNothing, ReadRecords, Reading,
        Read, ReadFails, SendAccepted, Advance, Fails, Crash, Return
<1>7. CASE UNCHANGED vars BY <1>4, <1>7 DEF vars
<1>8. QED BY <1>1, <1>2, <1>3, <1>4, <1>5, <1>6, <1>7 DEF Next, OpenCode

\* The page is the front of the backlog: it is taken from there, usage is appended at
\* the other end, and the front goes only with the page.
LEMMA PageNext ==
    ASSUME TypeOK, [Next]_vars PROVE PageType'
<1> USE TypeParts DEF PageType
<1>1. ASSUME NEW s \in Session, CommitUsage(s) PROVE PageType'
    <2>1. DEFINE u == [session |-> s, version |-> version[s]]
    <2>2. u \in Usage BY DEF Usage, SourceType
    <2>3. backlog' = Append(backlog, u) /\ page' = page
        BY <1>1 DEF CommitUsage, passVars
    <2>4. /\ Append(backlog, u) \in Seq(Usage)
          /\ Len(Append(backlog, u)) = Len(backlog) + 1
          /\ \A i \in 1..Len(backlog) : Append(backlog, u)[i] = backlog[i]
        BY <2>2, AppendProperties
    <2>5. Len(page) \in Nat /\ Len(backlog) \in Nat /\ DOMAIN page = 1..Len(page)
        BY LenProperties
    <2>6. QED BY <2>3, <2>4, <2>5
<1>2. CASE ReadRecords
    <2>1. DEFINE n == IF Len(backlog) < BatchLimit THEN Len(backlog) ELSE BatchLimit
    <2>2. page' = SubSeq(backlog, 1, n) /\ backlog' = backlog BY <1>2 DEF ReadRecords
    <2>3. n \in 0..Len(backlog) BY ProjectionsAssumption, LenProperties
    <2>4. \A i \in 1..n : backlog[i] \in Usage BY <2>3, ElementOfSeq, LenProperties
    <2>5. /\ SubSeq(backlog, 1, n) \in Seq(Usage)
          /\ Len(SubSeq(backlog, 1, n)) = n
          /\ \A i \in 1..n : SubSeq(backlog, 1, n)[i] = backlog[i]
        <3> HIDE DEF n
        <3>1. 1 \in Int /\ n \in Int BY <2>3
        <3>2. /\ SubSeq(backlog, 1, n) \in Seq(Usage)
              /\ Len(SubSeq(backlog, 1, n)) = IF 1 <= n THEN n - 1 + 1 ELSE 0
              /\ \A i \in 1 .. n - 1 + 1 : SubSeq(backlog, 1, n)[i] = backlog[1 + i - 1]
            BY <2>4, <3>1, SubSeqProperties
        <3>3. QED BY <2>3, <3>2
    <2>6. DOMAIN SubSeq(backlog, 1, n) = 1..n BY <2>5, LenProperties
    <2> HIDE DEF n
    <2>7. QED BY <2>2, <2>3, <2>5, <2>6
<1>3. ASSUME page' = <<>>, backlog' \in Seq(Usage) PROVE PageType'
    <2>1. Len(backlog') \in Nat BY <1>3, LenProperties
    <2>2. Len(page') = 0 /\ page' \in Seq(Usage) /\ DOMAIN page' = {}
        BY <1>3, EmptySeq
    <2>3. QED BY <1>3, <2>1, <2>2
<1>4. CASE Advance
    <2>1. DEFINE m == Len(page) + 1
    <2>2. m \in Int /\ Len(backlog) \in Int /\ m >= 1 BY LenProperties
    <2>3. \A i \in m..Len(backlog) : backlog[i] \in Usage
        BY <2>2, ElementOfSeq, LenProperties
    <2>4. SubSeq(backlog, m, Len(backlog)) \in Seq(Usage)
        BY <2>2, <2>3, SubSeqProperties
    <2>5. QED BY <1>3, <1>4, <2>4 DEF Advance, Return, Dropped
<1>5. CASE ReadNothing \/ Fails \/ Crash
    BY <1>3, <1>5 DEF ReadNothing, Fails, Crash, Return, Dropped
<1>6. CASE UNCHANGED <<backlog, page>> BY <1>6
<1>7. CASE Start \/ Inspection \/ Reading \/ SendAccepted
    BY <1>6, <1>7 DEF Start, Inspection, Inspect, Reading, Read, ReadFails, SendAccepted
<1>8. CASE UNCHANGED vars BY <1>6, <1>8 DEF vars, passVars
<1>9. ASSUME NEW s \in Session, UpdateSession(s) PROVE UNCHANGED <<backlog, page>>
    BY <1>9 DEF UpdateSession, passVars
<1>10. ASSUME NEW k \in Optional, NEW x, Store(k, x) \/ Delete(k, x) \/ Migrate(k, x)
       PROVE UNCHANGED <<backlog, page>>
    BY <1>10 DEF Store, Delete, Migrate, passVars
<1>11. QED
    BY <1>1, <1>2, <1>4, <1>5, <1>6, <1>7, <1>8, <1>9, <1>10 DEF Next, OpenCode, Cycle

LEMMA LoopNext ==
    ASSUME TypeOK, [Next]_vars PROVE LoopType'
<1> USE TypeParts DEF LoopType
<1>1. ASSUME pc' \in {"idle", "down"}, Dropped PROVE LoopType'
    BY <1>1 DEF Dropped, NoInfo, NoSnapshot
<1>2. CASE ReadNothing \/ Advance \/ Fails \/ Crash
    BY <1>1, <1>2 DEF ReadNothing, Advance, Fails, Crash, Return
<1>3. CASE Start \/ Inspection \/ ReadRecords \/ SendAccepted
    BY <1>3 DEF Start, Inspection, Inspect, ReadRecords, SendAccepted
<1>4. ASSUME NEW k \in Kind PROVE Following[k] \in {"send"} \cup Kind
    BY <1>4 DEF Following
<1>5. ASSUME NEW k \in Kind, Read(k) PROVE LoopType'
    <2>1. snapshot' \in [Kind -> SUBSET Row] BY <1>5, ReadRows
    <2>2. QED BY <1>4, <1>5, <2>1 DEF Read
<1>6. ASSUME NEW k \in Kind, ReadFails(k) PROVE LoopType'
    BY <1>4, <1>6 DEF ReadFails
<1>7. CASE UNCHANGED passVars BY <1>7 DEF passVars
<1>8. CASE OpenCode
    BY <1>7, <1>8 DEF OpenCode, UpdateSession, CommitUsage, Store, Delete, Migrate
<1>9. CASE UNCHANGED vars BY <1>7, <1>9 DEF vars
<1>10. QED
    BY <1>2, <1>3, <1>5, <1>6, <1>8, <1>9 DEF Next, Cycle, Reading

LEMMA TypeNext == TypeOK /\ [Next]_vars => TypeOK'
BY SourceNext, PageNext, LoopNext, TypeParts DEF TypeOK, SourceType, PageType, LoopType

\* The types, for any tables and bounds.
THEOREM ProjectionsType == Spec => []TypeOK
BY TypeInit, TypeNext, PTL DEF Spec

-----------------------------------------------------------------------------
(* The contexts are as new as the usage they come with: sessions only gain *)
(* versions, so no usage in the backlog is newer than its session; and no  *)
(* context is in hand when a page is taken, and none is taken before it.   *)

BacklogNotNewer ==
    \A i \in DOMAIN backlog : backlog[i].version <= version[backlog[i].session]

NoContextYet == pc \in {"idle", "down", "records", "contexts"} => snapshot["contexts"] = {}

ContextInv == BacklogNotNewer /\ NoContextYet /\ ContextNotOlder

LEMMA BacklogNext ==
    ASSUME TypeOK, TypeOK', BacklogNotNewer, [Next]_vars
    PROVE  BacklogNotNewer'
<1>0. \A i \in DOMAIN backlog : backlog[i] \in Usage
    BY LenProperties, ElementOfSeq DEF TypeOK
<1>1. ASSUME NEW s \in Session, UpdateSession(s) PROVE BacklogNotNewer'
    <2>1. backlog' = backlog BY <1>1 DEF UpdateSession
    <2>2. version' = [version EXCEPT ![s] = @ + 1] BY <1>1 DEF UpdateSession
    <2>3. \A t \in Session : version[t] \in Nat /\ version[t] <= version'[t]
        BY <2>2 DEF TypeOK
    <2>4. \A i \in DOMAIN backlog : backlog[i].version \in Nat /\ backlog[i].session \in Session
        BY <1>0 DEF Usage
    <2>5. SUFFICES ASSUME NEW i \in DOMAIN backlog
                   PROVE  backlog[i].version <= version'[backlog[i].session]
        BY <2>1 DEF BacklogNotNewer
    <2> DEFINE t == backlog[i].session
               v == backlog[i].version
    <2>6. v \in Nat /\ t \in Session /\ v <= version[t] BY <2>4 DEF BacklogNotNewer
    <2>7. version'[t] \in Nat BY <2>6 DEF TypeOK
    <2> HIDE DEF t, v
    <2>8. v <= version'[t] BY <2>3, <2>6, <2>7
    <2>9. QED BY <2>8 DEF t, v
<1>2. ASSUME NEW s \in Session, CommitUsage(s) PROVE BacklogNotNewer'
    <2> DEFINE u == [session |-> s, version |-> version[s]]
    <2>1. backlog' = Append(backlog, u) /\ version' = version
        BY <1>2 DEF CommitUsage, sourceVars
    <2>2. u \in Usage BY DEF Usage, TypeOK
    <2>3. /\ Len(Append(backlog, u)) = Len(backlog) + 1
          /\ \A i \in 1..Len(backlog) : Append(backlog, u)[i] = backlog[i]
          /\ Append(backlog, u)[Len(backlog) + 1] = u
          /\ Append(backlog, u) \in Seq(Usage)
        BY <2>2, AppendProperties DEF TypeOK
    <2>4. Len(backlog) \in Nat /\ DOMAIN backlog = 1..Len(backlog)
          /\ DOMAIN Append(backlog, u) = 1..(Len(backlog) + 1)
        BY <2>3, LenProperties DEF TypeOK
    <2>5. version[s] <= version[s] BY DEF TypeOK
    <2>6. SUFFICES ASSUME NEW i \in 1..(Len(backlog) + 1)
                   PROVE  Append(backlog, u)[i].version <= version[Append(backlog, u)[i].session]
        BY <2>1, <2>4 DEF BacklogNotNewer
    <2>7. CASE i = Len(backlog) + 1 BY <2>3, <2>5, <2>7
    <2>8. CASE i \in 1..Len(backlog) BY <2>3, <2>4, <2>8 DEF BacklogNotNewer
    <2>9. QED BY <2>4, <2>7, <2>8
<1>3. CASE Advance
    <2> DEFINE m == Len(page) + 1
    <2>1. backlog' = SubSeq(backlog, m, Len(backlog)) /\ version' = version
        BY <1>3 DEF Advance, Return, sourceVars
    <2>2. m \in Int /\ Len(backlog) \in Int /\ m >= 1 BY LenProperties DEF TypeOK
    <2>3. \A i \in m..Len(backlog) : i \in DOMAIN backlog
        BY <2>2, LenProperties DEF TypeOK
    <2> HIDE DEF m
    <2>4. /\ Len(SubSeq(backlog, m, Len(backlog)))
                = IF m <= Len(backlog) THEN Len(backlog) - m + 1 ELSE 0
          /\ \A i \in 1..(Len(backlog) - m + 1) :
                SubSeq(backlog, m, Len(backlog))[i] = backlog[m + i - 1]
        <3>1. \A i \in m..Len(backlog) : backlog[i] \in Usage BY <1>0, <2>3
        <3>2. QED BY <2>2, <3>1, SubSeqProperties
    <2>5. DOMAIN backlog' = 1..Len(backlog') BY LenProperties DEF TypeOK
    <2>6. \A i \in DOMAIN backlog' : i \in 1..(Len(backlog) - m + 1) /\ m + i - 1 \in m..Len(backlog)
        BY <2>1, <2>2, <2>4, <2>5
    <2>7. \A i \in DOMAIN backlog' : \E j \in DOMAIN backlog : backlog'[i] = backlog[j]
        BY <2>1, <2>3, <2>4, <2>6
    <2>8. QED BY <2>1, <2>7 DEF BacklogNotNewer
<1>4. CASE UNCHANGED <<backlog, version>> BY <1>4 DEF BacklogNotNewer
<1>5. ASSUME NEW k \in Optional, NEW x, Store(k, x) \/ Delete(k, x) \/ Migrate(k, x)
      PROVE UNCHANGED <<backlog, version>>
    BY <1>5 DEF Store, Delete, Migrate
<1>6. CASE Crash BY <1>4, <1>6 DEF Crash, sourceVars
<1>7. CASE Cycle /\ ~Advance
    BY <1>4, <1>7 DEF Cycle, Start, Inspection, Inspect, ReadNothing, ReadRecords, Reading,
        Read, ReadFails, SendAccepted, Fails, Return, sourceVars
<1>8. CASE UNCHANGED vars BY <1>4, <1>8 DEF vars, sourceVars
<1>9. QED BY <1>1, <1>2, <1>3, <1>4, <1>5, <1>6, <1>7, <1>8 DEF Next, OpenCode

LEMMA ContextNext ==
    ASSUME TypeOK, TypeOK', ContextInv, [Next]_vars
    PROVE  (NoContextYet /\ ContextNotOlder)'
<1> USE DEF ContextInv
<1>1. CASE Read("contexts")
    <2>1. Queried("contexts", "full") =
            {[owner |-> s, key |-> Blank, version |-> version[s]] : s \in Owners("contexts")}
        BY DEF Queried
    <2>2. PICK sent \in SUBSET Queried("contexts", "full") :
            snapshot' = [snapshot EXCEPT !["contexts"] = sent]
        BY <1>1, DedupOfQueried DEF Read
    <2>3. page' = page /\ pc' = "projects" BY <1>1 DEF Read, Following
    <2>4. snapshot'["contexts"] = sent BY <2>2 DEF TypeOK
    <2>5. SUFFICES ASSUME NEW i \in DOMAIN page, NEW r \in sent, r.owner = page[i].session
                   PROVE  r.version >= page[i].version
        BY <2>3, <2>4 DEF NoContextYet, ContextNotOlder
    <2>6. r.version = version[r.owner] BY <2>1
    <2>7. page[i] = backlog[i] /\ i \in DOMAIN backlog BY LenProperties DEF TypeOK
    <2>8. page[i].version <= version[page[i].session]
        BY <2>7 DEF BacklogNotNewer
    <2>9. page[i] \in Usage BY LenProperties, ElementOfSeq DEF TypeOK
    <2> DEFINE v == page[i].version
               w == version[page[i].session]
    <2>10. v \in Nat /\ w \in Nat /\ v <= w BY <2>8, <2>9 DEF Usage, TypeOK
    <2>11. r.version = w BY <2>5, <2>6
    <2> HIDE DEF v, w
    <2>12. w >= v BY <2>10
    <2>13. QED BY <2>11, <2>12 DEF v
<1>2. ASSUME NEW k \in Kind, Read(k), k # "contexts" PROVE (NoContextYet /\ ContextNotOlder)'
    <2>1. snapshot'["contexts"] = snapshot["contexts"] BY <1>2 DEF Read, TypeOK
    <2>2. page' = page /\ pc' \in {"directories", "todos", "send"}
        BY <1>2 DEF Read, Following
    <2>3. QED BY <2>1, <2>2 DEF NoContextYet, ContextNotOlder
<1>3. ASSUME NEW k \in Kind, ReadFails(k) PROVE (NoContextYet /\ ContextNotOlder)'
    <2>1. snapshot'["contexts"] \subseteq snapshot["contexts"] BY <1>3 DEF ReadFails, TypeOK
    <2>2. page' = page /\ pc' \in {"projects", "directories", "todos", "send"}
        BY <1>3 DEF ReadFails, Following
    <2>3. QED BY <2>1, <2>2 DEF NoContextYet, ContextNotOlder
<1>4. ASSUME snapshot'["contexts"] = {} PROVE (NoContextYet /\ ContextNotOlder)'
    BY <1>4 DEF NoContextYet, ContextNotOlder
<1>5. CASE Dropped BY <1>4, <1>5 DEF Dropped, NoSnapshot
<1>6. CASE ReadNothing \/ Advance \/ Fails \/ Crash
    BY <1>5, <1>6 DEF ReadNothing, Advance, Fails, Crash, Return
<1>7. CASE Start \/ Inspection \/ ReadRecords
    BY <1>4, <1>7 DEF Start, Inspection, Inspect, ReadRecords, NoContextYet
<1>8. CASE SendAccepted BY <1>8 DEF SendAccepted, NoContextYet, ContextNotOlder
<1>9. CASE UNCHANGED <<pc, page, snapshot>>
    BY <1>9 DEF NoContextYet, ContextNotOlder
<1>10. CASE OpenCode \/ UNCHANGED vars
    BY <1>9, <1>10 DEF OpenCode, UpdateSession, CommitUsage, Store, Delete, Migrate, vars,
        passVars
<1>11. QED
    BY <1>1, <1>2, <1>3, <1>6, <1>7, <1>8, <1>10 DEF Next, Cycle, Reading

\* No usage is sent with a context older than the session was at its commit.
THEOREM ContextsNotOlder == Spec => []ContextNotOlder
<1>1. Init => ContextInv
    BY DEF Init, NoSnapshot, ContextInv, BacklogNotNewer, NoContextYet, ContextNotOlder
<1>2. TypeOK /\ TypeOK' /\ ContextInv /\ [Next]_vars => ContextInv'
    BY BacklogNext, ContextNext DEF ContextInv
<1>3. ContextInv => ContextNotOlder BY DEF ContextInv
<1>4. QED BY <1>1, <1>2, <1>3, ProjectionsType, PTL DEF Spec
=============================================================================
