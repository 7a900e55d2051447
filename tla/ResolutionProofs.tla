-------------------------- MODULE ResolutionProofs ---------------------------
(***************************************************************************)
(* For any set of databases: a database is only ever resolved under the    *)
(* identity in its file.  With the types, the property is inductive: an    *)
(* identity file is only written where there is none, and where there is   *)
(* none nothing was resolved, because used holds generated identities only.*)
(***************************************************************************)
EXTENDS Resolution, TLAPS

IdentityInv == TypeOK /\ IdentityDurable

LEMMA IdentityInit == Init => IdentityInv
<1>. SUFFICES ASSUME Init PROVE IdentityInv
    OBVIOUS
<1>. USE DEF Init
<1>1. IdentityDurable
    BY DEF IdentityDurable
<1>2. identity \in [DB -> Nat \cup {Torn}] /\ used \in [DB -> SUBSET UUID]
    BY DEF NoIdentity
<1>3. gate \in [DB -> {"none", "waiting", "due", "corrupt"}]
    OBVIOUS
<1>4. TypeOK
    BY <1>2, <1>3, NoDBAssumption DEF TypeOK
<1>. QED
    BY <1>1, <1>4 DEF IdentityInv

LEMMA ContinueType ==
    ASSUME Continue
    PROVE  pc' = "paths" /\ cur' = NoDB /\ excluded' = FALSE
BY DEF Continue

\* A database without an identity was never resolved.
LEMMA NoIdentityUnused ==
    ASSUME IdentityInv, NEW d \in DB, identity[d] = NoIdentity
    PROVE  used[d] = {}
BY DEF IdentityInv, TypeOK, IdentityDurable, NoIdentity, UUID

\* Steps that neither write an identity file nor resolve a database.
LEMMA IdentityFrame ==
    ASSUME IdentityInv, TypeOK', UNCHANGED <<identity, used>>
    PROVE  IdentityInv'
BY DEF IdentityInv, IdentityDurable

\* Steps that resolve cur under the identity its file ends up with.
LEMMA IdentityResolved ==
    ASSUME IdentityInv, cur \in DB, NEW id \in UUID, Resolve(id),
           identity' = [identity EXCEPT ![cur] = id],
           identity[cur] \in {NoIdentity, id}
    PROVE  IdentityDurable' /\ used' \in [DB -> SUBSET UUID]
<1>. USE DEF IdentityInv, TypeOK
<1>1. used' = [used EXCEPT ![cur] = @ \cup {id}]
    BY DEF Resolve
<1>2. used[cur] \subseteq {id}
    BY NoIdentityUnused DEF IdentityDurable
<1>3. ASSUME NEW d \in DB PROVE used'[d] \subseteq {identity'[d]}
    <2>1. CASE d = cur
        BY <1>1, <1>2, <2>1
    <2>2. CASE d # cur
        BY <1>1, <2>2 DEF IdentityDurable
    <2>. QED
        BY <2>1, <2>2
<1>4. used' \in [DB -> SUBSET UUID]
    BY <1>1
<1>. QED
    BY <1>3, <1>4 DEF IdentityDurable

\* Steps that fail over the identity file of cur write it only where there is none.
LEMMA IdentityLeft ==
    ASSUME IdentityInv, cur \in DB, UNCHANGED used, LeaveIdentity
    PROVE  IdentityDurable' /\ identity' \in [DB -> Nat \cup {Torn}] /\ issued' \in Nat
<1>. USE DEF IdentityInv, TypeOK, LeaveIdentity
<1>1. issued' \in Nat
    OBVIOUS
<1>2. \/ identity' = identity
      \/ /\ identity[cur] = NoIdentity
         /\ \E left \in Nat \cup {Torn} : identity' = [identity EXCEPT ![cur] = left]
    <2>1. issued + 1 \in Nat /\ Torn \in {Torn}
        OBVIOUS
    <2>2. CASE identity' = [identity EXCEPT ![cur] = Torn] /\ identity[cur] = NoIdentity
        BY <2>2
    <2>3. CASE identity' = [identity EXCEPT ![cur] = issued + 1] /\ identity[cur] = NoIdentity
        BY <2>1, <2>3
    <2>. QED
        BY <2>2, <2>3
<1>3. identity' \in [DB -> Nat \cup {Torn}]
    BY <1>2
<1>4. ASSUME NEW d \in DB PROVE used[d] \subseteq {identity'[d]}
    <2>1. CASE identity[d] = NoIdentity
        BY <2>1, NoIdentityUnused
    <2>2. CASE identity[d] # NoIdentity
        <3>1. identity'[d] = identity[d]
            BY <1>2, <2>2
        <3>. QED
            BY <3>1 DEF IdentityDurable
    <2>. QED
        BY <2>1, <2>2
<1>. QED
    BY <1>1, <1>3, <1>4 DEF IdentityDurable

\* Checking, inspecting, excluding and re-admitting a database.
LEMMA IdentityGate ==
    ASSUME IdentityInv,
           \/ \E d \in DB : Mend(d) \/ Elapse(d) \/ Path(d) \/ CheckFails(d)
           \/ Discover \/ WalkFails \/ Finish \/ Start \/ Crash
           \/ InspectionPasses \/ InspectionFails \/ Exclude \/ ExcludeFails \/ Remove
    PROVE  IdentityInv'
<1>. USE NoDBAssumption DEF IdentityInv, TypeOK
<1>1. ASSUME NEW d \in DB, Mend(d) \/ Elapse(d)
      PROVE  TypeOK' /\ UNCHANGED <<identity, used>>
    BY <1>1 DEF Mend, Elapse, files
<1>2. ASSUME NEW d \in DB, Path(d) \/ CheckFails(d)
      PROVE  TypeOK' /\ UNCHANGED <<identity, used>>
    BY <1>2 DEF Path, Skip, Check, CheckFails, Admit, files
<1>3. CASE Discover \/ WalkFails \/ Finish \/ Start
    <2>1. TypeOK' /\ UNCHANGED <<identity, used>>
        BY <1>3 DEF Discover, WalkFails, Finish, Start, files
    <2>. QED
        BY <2>1, IdentityFrame
<1>4. CASE Crash
    <2>1. TypeOK' /\ UNCHANGED <<identity, used>>
        BY <1>4 DEF Crash, Dead, files
    <2>. QED
        BY <2>1, IdentityFrame
<1>5. CASE InspectionPasses \/ InspectionFails
    <2>1. TypeOK' /\ UNCHANGED <<identity, used>>
        BY <1>5 DEF InspectionPasses, InspectionFails, files
    <2>. QED
        BY <2>1, IdentityFrame
<1>6. CASE Exclude \/ ExcludeFails
    <2>1. PICK outcome \in {"waiting", "corrupt", gate[cur]} : ExcludeAs(outcome)
        BY <1>6 DEF Exclude, ExcludeFails
    <2>2. gate' = [gate EXCEPT ![cur] = outcome] /\ pc = "exclude"
        BY <2>1 DEF ExcludeAs
    <2>3. gate' \in [DB -> {"none", "waiting", "due", "corrupt"}]
        BY <2>2
    <2>4. TypeOK' /\ UNCHANGED <<identity, used>>
        BY <2>1, <2>3, ContinueType DEF ExcludeAs
    <2>. QED
        BY <2>4, IdentityFrame
<1>7. CASE Remove
    <2>1. PICK left \in {"none", gate[cur]} : gate' = [gate EXCEPT ![cur] = left]
        BY <1>7 DEF Remove
    <2>2. gate' \in [DB -> {"none", "waiting", "due", "corrupt"}]
        BY <1>7, <2>1 DEF Remove
    <2>3. TypeOK' /\ UNCHANGED <<identity, used>>
        BY <1>7, <2>2 DEF Remove
    <2>. QED
        BY <2>3, IdentityFrame
<1>. QED
    BY <1>1, <1>2, <1>3, <1>4, <1>5, <1>6, <1>7, IdentityFrame

LEMMA IdentityNext == IdentityInv /\ [Next]_vars => IdentityInv'
<1>. SUFFICES ASSUME IdentityInv, [Next]_vars PROVE IdentityInv'
    OBVIOUS
<1>. USE NoDBAssumption DEF IdentityInv, TypeOK
<1>1. CASE ReadIdentity
    <2>1. pc = "identify" /\ cur \in DB /\ identity[cur] \in UUID /\ Resolve(identity[cur])
          /\ UNCHANGED <<healthy, files, todo>>
        BY <1>1 DEF ReadIdentity
    <2>2. identity' = [identity EXCEPT ![cur] = identity[cur]]
        BY <2>1 DEF files
    <2>3. IdentityDurable' /\ used' \in [DB -> SUBSET UUID]
        BY <2>1, <2>2, IdentityResolved
    <2>4. TypeOK'
        BY <2>1, <2>3, ContinueType DEF Resolve, files
    <2>. QED
        BY <2>3, <2>4
<1>2. CASE CreateIdentity
    <2>1. /\ pc = "identify" /\ cur \in DB /\ identity[cur] = NoIdentity
          /\ issued' = issued + 1
          /\ identity' = [identity EXCEPT ![cur] = issued + 1]
          /\ Resolve(issued + 1)
          /\ UNCHANGED <<healthy, gate, todo>>
        BY <1>2 DEF CreateIdentity
    <2>2. issued + 1 \in UUID
        BY DEF UUID
    <2>3. IdentityDurable' /\ used' \in [DB -> SUBSET UUID]
        BY <2>1, <2>2, IdentityResolved
    <2>4. identity' \in [DB -> Nat \cup {Torn}] /\ issued' \in Nat
        BY <2>1
    <2>5. TypeOK'
        BY <2>1, <2>3, <2>4, ContinueType DEF Resolve
    <2>. QED
        BY <2>3, <2>5
<1>3. CASE IdentityFails
    <2>1. pc = "identify" /\ cur \in DB /\ LeaveIdentity /\ Continue
          /\ UNCHANGED <<healthy, gate, todo, resolved, used>>
        BY <1>3 DEF IdentityFails
    <2>2. IdentityDurable' /\ identity' \in [DB -> Nat \cup {Torn}] /\ issued' \in Nat
        BY <2>1, IdentityLeft
    <2>3. TypeOK'
        BY <2>1, <2>2, ContinueType
    <2>. QED
        BY <2>2, <2>3
<1>4. CASE CrashInWrite
    <2>1. /\ pc' = "down" /\ todo' = {} /\ cur' = NoDB /\ excluded' = FALSE
          /\ resolved' = {}
          /\ UNCHANGED <<healthy, used>>
        BY <1>4 DEF CrashInWrite, Dead
    <2>2. CASE pc = "exclude" /\ gate' = [gate EXCEPT ![cur] = "corrupt"]
               /\ UNCHANGED <<identity, issued>>
        <3>1. gate' \in [DB -> {"none", "waiting", "due", "corrupt"}]
            BY <2>2
        <3>. QED
            BY <2>1, <2>2, <3>1, IdentityFrame
    <2>3. CASE pc = "identify" /\ LeaveIdentity /\ UNCHANGED gate
        <3>1. cur \in DB
            BY <2>3
        <3>2. IdentityDurable' /\ identity' \in [DB -> Nat \cup {Torn}] /\ issued' \in Nat
            BY <2>1, <2>3, <3>1, IdentityLeft
        <3>. QED
            BY <2>1, <2>3, <3>2
    <2>. QED
        BY <1>4, <2>2, <2>3 DEF CrashInWrite
<1>5. CASE UNCHANGED vars
    BY <1>5, IdentityFrame DEF vars, files
<1>. QED
    BY <1>1, <1>2, <1>3, <1>4, <1>5, IdentityGate DEF Next, Resolving, Disturbance

\* The types, and that a path is being resolved exactly where one should be.
THEOREM ResolutionType == Spec => []TypeOK
<1>1. IdentityInv => TypeOK
    BY DEF IdentityInv
<1>. QED
    BY <1>1, IdentityInit, IdentityNext, PTL DEF Spec

\* A database is only ever resolved under the identity in its file, for any set of
\* databases (identity.go:33-74, called at collector.go:349-356).
THEOREM IdentityIsDurable == Spec => []IdentityDurable
<1>1. IdentityInv => IdentityDurable
    BY DEF IdentityInv
<1>. QED
    BY <1>1, IdentityInit, IdentityNext, PTL DEF Spec
-----------------------------------------------------------------------------
\* A step neither mends a torn identity file nor resolves its database.
LEMMA TornStep ==
    ASSUME TypeOK, NEW d \in DB, identity[d] = Torn, [Next]_vars
    PROVE  identity'[d] = Torn /\ (d \in resolved' => d \in resolved)
<1>. USE DEF files, Torn, NoIdentity, UUID
<1>1. CASE ReadIdentity \/ CreateIdentity
    BY <1>1 DEF ReadIdentity, CreateIdentity, Resolve, TypeOK
<1>2. CASE IdentityFails
    BY <1>2 DEF IdentityFails, LeaveIdentity, TypeOK
<1>3. CASE CrashInWrite
    BY <1>3 DEF CrashInWrite, Dead, LeaveIdentity, TypeOK
<1>4. CASE \/ \E e \in DB : Mend(e) \/ Elapse(e) \/ Path(e) \/ CheckFails(e)
           \/ UNCHANGED vars
    BY <1>4 DEF Mend, Elapse, Path, Skip, Check, CheckFails, Admit, vars
<1>5. CASE \/ Discover \/ WalkFails \/ Finish \/ Start \/ Crash
           \/ InspectionPasses \/ InspectionFails \/ Exclude \/ ExcludeFails \/ Remove
    BY <1>5 DEF Discover, WalkFails, Finish, Start, Crash, Dead, InspectionPasses,
        InspectionFails, Exclude, ExcludeFails, ExcludeAs, Remove
<1>. QED
    BY <1>1, <1>2, <1>3, <1>4, <1>5 DEF Next, Resolving, Disturbance

\* The violation of TornIdentityReplaced is for good: once the identity file of a
\* database is torn it stays torn, through every restart, recheck and retry, and no
\* cycle resolves the database again (identity.go:51-61).
THEOREM TornIdentityIsFinal ==
    ASSUME NEW d \in DB
    PROVE  Spec => /\ [](identity[d] = Torn => [](identity[d] = Torn))
                   /\ [][identity[d] = Torn /\ d \in resolved' => d \in resolved]_vars
<1>1. TypeOK /\ identity[d] = Torn /\ [Next]_vars => (identity[d] = Torn)'
    BY TornStep
<1>2. TypeOK /\ [Next]_vars
        => [identity[d] = Torn /\ d \in resolved' => d \in resolved]_vars
    BY TornStep
<1>. QED
    BY <1>1, <1>2, ResolutionType, PTL DEF Spec
=============================================================================
