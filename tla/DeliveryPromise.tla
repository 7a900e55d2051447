--------------------------- MODULE DeliveryPromise ---------------------------
(***************************************************************************)
(* What Delivery promises by itself, and so does whatever implements it:   *)
(* wherever the marks go, resuming from them misses only ties and late     *)
(* commits.  Move speaks of the rows that are there when a mark is moved;  *)
(* the proof is about those committed later.  They cannot be stamped       *)
(* before a mark without being late, because a mark stays within what was  *)
(* delivered, and nothing delivered is from the future.                    *)
(***************************************************************************)
EXTENDS Delivery, TLAPS

DeliveryType ==
    /\ now \in Nat
    /\ source \in [DB -> SUBSET Row]
    /\ acked \in [DB -> SUBSET Row]
    /\ marks \in [DB -> SUBSET Time]

\* Neither what is in a database nor what was delivered is from the future.
Clocked == \A d \in DB : \A r \in source[d] \cup acked[d] : r.ts <= now

MarksReached == \A d \in DB : \A c \in marks[d] : Reached(d, c)

PromiseInv == DeliveryType /\ Clocked /\ MarksReached /\ NothingLeftBehind

LEMMA PromiseInit == Init => PromiseInv
BY DEF Init, PromiseInv, DeliveryType, Clocked, MarksReached, Reached, NothingLeftBehind,
    LeftBehind, Time, ZeroTime

LEMMA PromiseClock ==
    ASSUME PromiseInv, Clock
    PROVE  PromiseInv'
<1>1. DeliveryType'
    BY DEF PromiseInv, DeliveryType, Clock
<1>2. Clocked'
    <2>1. \A r \in Row : r.ts \in Int
        BY DEF Row
    <2>. QED
        BY <2>1 DEF PromiseInv, DeliveryType, Clocked, Clock
<1>. QED
    BY <1>1, <1>2
       DEF PromiseInv, MarksReached, Reached, NothingLeftBehind, LeftBehind, Overtaken, Clock

\* A row that was committed after a mark was moved and lies behind it was overtaken
\* by the row the mark stays within.
LEMMA PromiseCommit ==
    ASSUME CommitLag \in Nat, PromiseInv,
           NEW d \in DB, NEW id \in Id, NEW ts \in 0..now, Commit(d, id, ts)
    PROVE  PromiseInv'
<1>. DEFINE new == [id |-> id, ts |-> ts]
<1>. USE DEF PromiseInv, DeliveryType
<1>1. /\ \A e \in DB : \A r \in source'[e] : r \in source[e] \/ (e = d /\ r = new)
      /\ UNCHANGED <<now, acked, marks>>
    BY DEF Commit
<1>2. new \in Row /\ new.ts = ts /\ ts \in Int /\ now \in Int
    BY DEF Row
<1>3. DeliveryType'
    BY <1>1, <1>2 DEF Commit
<1>4. Clocked'
    BY <1>1, <1>2 DEF Clocked
<1>5. MarksReached'
    BY <1>1 DEF MarksReached, Reached
<1>6. ASSUME NEW c \in marks[d], ts <= c
      PROVE  Overtaken(d, new)
    <2>1. Reached(d, c) /\ c \in Int
        BY DEF MarksReached, Time, ZeroTime
    <2>2. PICK q \in acked[d] : c <= q.ts
        BY <1>2, <1>6, <2>1 DEF Reached, ZeroTime
    <2>3. q.ts \in Int /\ q.ts <= now
        BY DEF Clocked, Row
    <2>4. ts >= now - CommitLag
        BY DEF Commit
    <2>. QED
        BY <1>2, <1>6, <2>1, <2>2, <2>3, <2>4 DEF Overtaken
<1>7. NothingLeftBehind'
    <2>1. SUFFICES ASSUME NEW e \in DB, NEW c \in marks[e], NEW r \in source'[e], r.ts <= c
                   PROVE  r \in acked[e] \/ Overtaken(e, r)
        BY <1>1 DEF NothingLeftBehind, LeftBehind, Overtaken
    <2>2. CASE r \in source[e]
        BY <2>1, <2>2 DEF NothingLeftBehind, LeftBehind
    <2>3. CASE e = d /\ r = new
        BY <1>2, <1>6, <2>1, <2>3
    <2>. QED
        BY <1>1, <2>2, <2>3
<1>. QED
    BY <1>3, <1>4, <1>5, <1>7

LEMMA PromiseDeliver ==
    ASSUME PromiseInv, NEW d \in DB, Deliver(d)
    PROVE  PromiseInv'
<1>. USE DEF PromiseInv, DeliveryType
<1>1. /\ acked' = [acked EXCEPT ![d] = acked'[d]]
      /\ acked[d] \subseteq acked'[d] /\ acked'[d] \subseteq Row
      /\ UNCHANGED <<now, source, marks>>
    BY DEF Deliver
<1>2. DeliveryType'
    BY <1>1
<1>3. \A e \in DB : acked[e] \subseteq acked'[e] /\ (e # d => acked'[e] = acked[e])
    BY <1>1
\* What is delivered was, or was a version of, a row of the database.
<1>4. ASSUME NEW r \in acked'[d] \ acked[d]
      PROVE  r.ts <= now
    <2>1. PICK q \in source[d] : r.ts <= q.ts
        BY <1>4 DEF Deliver, Known
    <2>2. q.ts <= now /\ q.ts \in Int /\ r.ts \in Int
        BY <1>1 DEF Clocked, Row
    <2>. QED
        BY <2>1, <2>2
<1>5. Clocked'
    BY <1>1, <1>3, <1>4 DEF Clocked
<1>. QED
    BY <1>1, <1>2, <1>3, <1>5 DEF MarksReached, Reached, NothingLeftBehind, LeftBehind, Overtaken

LEMMA PromiseMove ==
    ASSUME PromiseInv, Move
    PROVE  PromiseInv'
BY DEF PromiseInv, DeliveryType, Clocked, Move, MarksReached, Reached, NothingLeftBehind,
    LeftBehind, Overtaken

LEMMA PromiseNext ==
    ASSUME CommitLag \in Nat, PromiseInv, [Next]_vars
    PROVE  PromiseInv'
<1>1. CASE UNCHANGED vars
    BY <1>1 DEF vars, PromiseInv, DeliveryType, Clocked, MarksReached, Reached,
        NothingLeftBehind, LeftBehind, Overtaken
<1>. QED
    BY <1>1, PromiseClock, PromiseCommit, PromiseDeliver, PromiseMove DEF Next

\* Every implementation of Delivery can resume from any of its marks at any time:
\* what lies behind a mark was delivered, or came too late to be seen.
THEOREM DeliveryKeepsPromise ==
    ASSUME CommitLag \in Nat
    PROVE  Spec => []NothingLeftBehind
<1>1. PromiseInv /\ [Next]_vars => PromiseInv'
    BY PromiseNext
<1>2. PromiseInv => NothingLeftBehind
    BY DEF PromiseInv
<1>. QED
    BY <1>1, <1>2, PromiseInit, PTL DEF Spec
=============================================================================
