----------------------------- MODULE CacheProofs -----------------------------
(***************************************************************************)
(* Proofs about the usage-report cache (Cache): every reachable state is   *)
(* well typed and no project ever caches more than Cap reports, for any    *)
(* projects, cap, day range and number of clock changes.                   *)
(***************************************************************************)
EXTENDS Cache, FiniteSetTheorems, TLAPS

\* The inductive invariant: the bound holds together with the types.
IInv == TypeOK /\ CacheBounded

\* Every set of cached dates is finite.
LEMMA DatesFinite ==
    ASSUME NEW S \in SUBSET Days
    PROVE  IsFiniteSet(S)
<1>1. IsFiniteSet(Days)
    BY CacheAssumption, FS_Interval DEF Days
<1>2. QED
    BY <1>1, FS_Subset

\* A call in progress is a record of the call's arguments.
OpRec == [phase : {"lock", "evict"}, project : Projects, date : Days, today : Days]

LEMMA CallInProgress ==
    ASSUME NEW o \in Ops, o.phase \in {"lock", "evict"}
    PROVE  o \in OpRec
BY DEF Ops, Idle, OpRec

LEMMA InitIInv == Init => IInv
<1> SUFFICES ASSUME Init PROVE IInv
    OBVIOUS
<1>1. TypeOK
    BY CacheAssumption DEF Init, TypeOK, Ops, Idle
<1>2. CacheBounded
    BY CacheAssumption, FS_EmptySet DEF Init, CacheBounded
<1>3. QED
    BY <1>1, <1>2 DEF IInv

LEMMA NextIInv == IInv /\ [Next]_vars => IInv'
<1> SUFFICES ASSUME IInv, [Next]_vars PROVE IInv'
    OBVIOUS
<1>1. ASSUME NEW p \in Projects, NEW d \in Days, SetReport(p, d)
      PROVE  IInv'
    BY <1>1 DEF IInv, TypeOK, CacheBounded, SetReport, Ops
<1>2. CASE SetReportLocked
    <2>1. op \in OpRec /\ op.phase = "lock"
        BY <1>2, CallInProgress DEF IInv, TypeOK, SetReportLocked
    <2>2. TypeOK'
        <3>1. CASE reports[op.project] = {}
            BY <1>2, <2>1, <3>1 DEF IInv, TypeOK, SetReportLocked, Ops, Idle, OpRec
        <3>2. CASE reports[op.project] # {}
            <4>1. op' = [op EXCEPT !.phase = "evict"] /\ UNCHANGED <<reports, today, backs>>
                BY <1>2, <3>2 DEF SetReportLocked
            <4>2. op' \in OpRec
                BY <2>1, <4>1 DEF OpRec
            <4>3. QED
                BY <4>1, <4>2 DEF IInv, TypeOK, Ops, OpRec
        <3>3. QED
            BY <3>1, <3>2
    <2>3. Cardinality({op.date}) <= Cap
        <3>1. Cardinality({op.date}) = 1
            BY FS_Singleton
        <3>2. QED
            BY <3>1, CacheAssumption
    <2>4. CacheBounded'
        BY <1>2, <2>1, <2>3 DEF IInv, TypeOK, CacheBounded, SetReportLocked, OpRec
    <2>5. QED
        BY <2>2, <2>4 DEF IInv
<1>3. CASE EvictOldest
    <2> DEFINE keys == reports[op.project]
               gone == OldestBefore(keys, op.today)
    <2>1. op \in OpRec /\ op.project \in Projects
        BY <1>3, CallInProgress DEF IInv, TypeOK, EvictOldest, OpRec
    <2>2. reports' = [reports EXCEPT ![op.project] = keys \ {gone}]
        BY <1>3 DEF EvictOldest
    <2>3. keys \in SUBSET Days
        BY <2>1 DEF IInv, TypeOK
    <2>4. Cardinality(keys \ {gone}) <= Cardinality(keys)
        <3>1. IsFiniteSet(keys)
            BY <2>3, DatesFinite
        <3>2. Cardinality(keys \ {gone}) =
                IF gone \in keys THEN Cardinality(keys) - 1 ELSE Cardinality(keys)
            BY <3>1, FS_RemoveElement
        <3>3. Cardinality(keys) \in Nat
            BY <3>1, FS_CardinalityType
        <3>4. QED
            BY <3>2, <3>3
    <2>5. TypeOK'
        BY <1>3, <2>1, <2>2, <2>3 DEF IInv, TypeOK, EvictOldest
    <2>6. CacheBounded'
        <3>1. Cardinality(keys) <= Cap
            BY <2>1 DEF IInv, CacheBounded
        <3>2. Cardinality(keys \ {gone}) <= Cap
            BY <2>4, <3>1, <2>3, DatesFinite, FS_CardinalityType, CacheAssumption
        <3>3. QED
            BY <2>1, <2>2, <3>2 DEF IInv, TypeOK, CacheBounded
    <2>7. QED
        BY <2>5, <2>6 DEF IInv
<1>4. CASE Insert
    <2> DEFINE keys == reports[op.project]
    <2>1. op \in OpRec /\ op.project \in Projects /\ op.date \in Days
        BY <1>4, CallInProgress DEF IInv, TypeOK, Insert, OpRec
    <2>2. reports' = [reports EXCEPT ![op.project] = keys \cup {op.date}]
        BY <1>4 DEF Insert
    <2>3. keys \in SUBSET Days
        BY <2>1 DEF IInv, TypeOK
    <2>a. IsFiniteSet(keys) /\ Cardinality(keys) \in Nat
        BY <2>3, DatesFinite, FS_CardinalityType
    <2>4. Cardinality(keys) < Cap
        BY <1>4, <2>a, CacheAssumption DEF Insert, LoopAgain
    <2>b. Cardinality(keys \cup {op.date}) <= Cardinality(keys) + 1
        <3>1. Cardinality(keys \cup {op.date}) =
                IF op.date \in keys THEN Cardinality(keys) ELSE Cardinality(keys) + 1
            BY <2>a, FS_AddElement
        <3>2. QED
            BY <3>1, <2>a
    <2>5. Cardinality(keys \cup {op.date}) <= Cap
        <3>1. Cardinality(keys \cup {op.date}) \in Nat
            BY <2>a, FS_AddElement, FS_CardinalityType
        <3>2. QED
            BY <3>1, <2>a, <2>4, <2>b, CacheAssumption
    <2>6. TypeOK'
        BY <1>4, <2>1, <2>2, <2>3 DEF IInv, TypeOK, Insert, Ops
    <2>7. CacheBounded'
        BY <2>1, <2>2, <2>5 DEF IInv, TypeOK, CacheBounded
    <2>8. QED
        BY <2>6, <2>7 DEF IInv
<1>5. CASE Tick
    BY <1>5, CacheAssumption DEF IInv, TypeOK, CacheBounded, Tick, Days
<1>6. CASE ClockBack
    BY <1>6, CacheAssumption DEF IInv, TypeOK, CacheBounded, ClockBack, Days
<1>7. CASE UNCHANGED vars
    BY <1>7 DEF IInv, TypeOK, CacheBounded, vars
<1>8. QED
    BY <1>1, <1>2, <1>3, <1>4, <1>5, <1>6, <1>7 DEF Next

(***************************************************************************)
(* set_report's eviction loop (`while usage.reports.len() >= 30`, then     *)
(* insert) keeps at most Cap reports per project, however calls and clock  *)
(* changes interleave, for every value of the constants.                   *)
(***************************************************************************)
THEOREM CacheStaysBounded == Spec => []CacheBounded
<1>1. IInv => CacheBounded
    BY DEF IInv
<1>2. QED
    BY <1>1, InitIInv, NextIInv, PTL DEF Spec

(***************************************************************************)
(* set_report and the clock keep the cache, the clock and the call in     *)
(* progress well typed.                                                    *)
(***************************************************************************)
THEOREM CacheTypeCorrect == Spec => []TypeOK
<1>1. IInv => TypeOK
    BY DEF IInv
<1>2. QED
    BY <1>1, InitIInv, NextIInv, PTL DEF Spec

(***************************************************************************)
(* Why the captured today covers the cache while the clock has only moved  *)
(* forward: every cached date is at or before the clock, and a call in     *)
(* progress captured a today no later than the clock, for a date no later  *)
(* than that today, and every date of its project is at or before it.      *)
(***************************************************************************)
ForwardInv ==
    backs = 0 =>
        /\ \A p \in Projects : \A d \in reports[p] : d <= today
        /\ op # Idle =>
               /\ op.today <= today /\ op.date <= op.today
               /\ \A d \in reports[op.project] : d <= op.today

\* The days, and so every date, clock value and captured today, are numbers.
LEMMA DaysNat == Days \subseteq Nat
BY CacheAssumption DEF Days

LEMMA InitForward == Init => ForwardInv
BY DEF Init, ForwardInv

\* Every step keeps ForwardInv: set_report refuses a date after today
\* (line 131), the loop only removes, insert adds the call's own date, and
\* a tick moves the clock past every date.
LEMMA NextForward == IInv /\ ForwardInv /\ [Next]_vars => ForwardInv'
<1> SUFFICES ASSUME IInv, ForwardInv, [Next]_vars, backs' = 0
             PROVE  ForwardInv'
    BY DEF ForwardInv
<1>0. /\ reports \in [Projects -> SUBSET Days] /\ today \in Days
      /\ backs \in Nat /\ op \in Ops
    BY CacheAssumption DEF IInv, TypeOK
<1>1. ASSUME NEW p \in Projects, NEW d \in Days, SetReport(p, d)
      PROVE  ForwardInv'
    BY <1>0, <1>1, DaysNat DEF SetReport, ForwardInv, Idle
<1>2. CASE SetReportLocked
    <2>1. op \in OpRec /\ op.phase = "lock" /\ backs = 0
        BY <1>0, <1>2, CallInProgress DEF SetReportLocked
    <2>2. op.today \in Nat /\ op.date \in Nat
        BY <2>1, DaysNat DEF OpRec
    <2>3. CASE reports[op.project] = {}
        BY <1>0, <1>2, <2>1, <2>2, <2>3, DaysNat DEF SetReportLocked, ForwardInv, Idle, OpRec
    <2>4. CASE reports[op.project] # {}
        BY <1>0, <1>2, <2>1, <2>2, <2>4 DEF SetReportLocked, ForwardInv, Idle, OpRec
    <2>5. QED
        BY <2>3, <2>4
<1>3. CASE EvictOldest
    <2>1. op \in OpRec /\ backs = 0
        BY <1>0, <1>3, CallInProgress DEF EvictOldest
    <2>2. QED
        BY <1>0, <1>3, <2>1 DEF EvictOldest, ForwardInv, OpRec
<1>4. CASE Insert
    <2>1. op \in OpRec /\ backs = 0
        BY <1>0, <1>4, CallInProgress DEF Insert
    <2>2. op.today \in Nat /\ op.date \in Nat
        BY <2>1, DaysNat DEF OpRec
    <2>3. QED
        BY <1>0, <1>4, <2>1, <2>2, DaysNat DEF Insert, ForwardInv, Idle, OpRec
<1>5. CASE Tick
    <2>1. op # Idle => op.today \in Nat
        BY <1>0, DaysNat DEF Ops, Idle
    <2>2. QED
        BY <1>0, <1>5, <2>1, DaysNat DEF Tick, ForwardInv
<1>6. CASE ClockBack
    BY <1>0, <1>6 DEF ClockBack
<1>7. CASE UNCHANGED vars
    BY <1>7 DEF vars, ForwardInv
<1>8. QED
    BY <1>1, <1>2, <1>3, <1>4, <1>5, <1>6, <1>7 DEF Next

(***************************************************************************)
(* While the clock has never been set back, every date cached for the     *)
(* project of a set_report call in progress is at or before the today it  *)
(* captured before waiting for the write lock, for every cap, day range    *)
(* and number of projects: the eviction loop's scan always finds a cached  *)
(* date to remove.                                                         *)
(***************************************************************************)
THEOREM CapturedTodayCoversCache == Spec => []CachedNotAfterCapturedToday
<1>1. ForwardInv => CachedNotAfterCapturedToday
    BY DEF ForwardInv, CachedNotAfterCapturedToday
<1>2. QED
    BY <1>1, InitIInv, NextIInv, InitForward, NextForward, PTL DEF Spec

=============================================================================
