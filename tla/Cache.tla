------------------------------- MODULE Cache --------------------------------
(***************************************************************************)
(* The usage-report cache of the slurm agent (slurm/src/cache.rs):         *)
(* set_report keeps at most Cap daily reports per project, evicting the    *)
(* oldest first.  A date is a day number; the clock (Date::today) is a     *)
(* variable that moves forward, and may be set back at most MaxClockBacks  *)
(* times (a wall clock corrected by an operator or NTP).  The reports      *)
(* themselves are left out: a project's entry is the set of dates cached. *)
(*                                                                         *)
(* set_report reads the clock, checks its arguments, then takes the write  *)
(* lock of the cache and, while it holds it, runs the eviction loop.  The  *)
(* lock makes every call one writer at a time, so one caller is modelled:  *)
(* op is idle or the call in progress, one step per loop iteration.        *)
(***************************************************************************)
EXTENDS Naturals, FiniteSets

CONSTANTS
    Projects,       \* the projects reports are cached for
    MaxDay,         \* the last day the clock reaches
    Cap,            \* the number of reports kept per project (30)
    MaxClockBacks   \* how often the clock may be set back

ASSUME CacheAssumption ==
    /\ Projects # {}
    /\ MaxDay \in Nat
    /\ Cap \in Nat \ {0}
    /\ MaxClockBacks \in Nat

VARIABLES
    reports,    \* reports[p]: the dates cached for project p ({} = no entry)
    today,      \* the wall clock
    backs,      \* how often the clock has been set back
    op          \* the set_report call in progress, or Idle

vars == <<reports, today, backs, op>>

Days == 0..MaxDay
Idle == [phase |-> "idle"]
Ops  == {Idle} \cup
        [phase : {"lock", "evict"}, project : Projects, date : Days, today : Days]

\* Mutant: the newest date, not the oldest, is looked for.
NewestBefore(keys, t) ==
    IF \E d \in keys : d > t
        THEN CHOOSE d \in keys : d > t /\ \A e \in keys : e <= d
        ELSE t

\* The oldest date of the loop: the captured today, lowered by every
\* cached date that is earlier (the loop at cache.rs 153-159).
OldestBefore(keys, t) ==
    IF \E d \in keys : d < t
        THEN CHOOSE d \in keys : d < t /\ \A e \in keys : e >= d
        ELSE t

\* Mutant: the loop runs while the bound is exceeded, not reached.
LoopAgainOffByOne(keys) == Cardinality(keys) > Cap

\* The condition of the eviction loop (cache.rs 152).
LoopAgain(keys) == Cardinality(keys) >= Cap

Init ==
    /\ reports = [p \in Projects |-> {}]
    /\ today \in Days
    /\ backs = 0
    /\ op = Idle

\* Mutant: the clock read a day ahead.
SetReportClockAhead(p, d) ==
    /\ op = Idle
    /\ d <= today + 1
    /\ op' = [phase |-> "lock", project |-> p, date |-> d, today |-> today + 1]
    /\ UNCHANGED <<reports, today, backs>>

\* Mutant: the future-date check at line 131 left out.
SetReportNoFutureCheck(p, d) ==
    /\ op = Idle
    /\ op' = [phase |-> "lock", project |-> p, date |-> d, today |-> today]
    /\ UNCHANGED <<reports, today, backs>>

(***************************************************************************)
(* set_report, up to the lock: the clock is read, and a report for a       *)
(* future date (or an incomplete one) is refused with nothing changed.     *)
(***************************************************************************)
SetReport(p, d) ==
    /\ op = Idle
    /\ d <= today
    /\ op' = [phase |-> "lock", project |-> p, date |-> d, today |-> today]
    /\ UNCHANGED <<reports, today, backs>>

\* The write lock is taken.  A project with no entry gets one holding the
\* date; otherwise the eviction loop starts.
SetReportLocked ==
    /\ op.phase = "lock"
    /\ IF reports[op.project] = {}
         THEN /\ reports' = [reports EXCEPT ![op.project] = {op.date}]
              /\ op' = Idle
         ELSE /\ op' = [op EXCEPT !.phase = "evict"]
              /\ UNCHANGED reports
    /\ UNCHANGED <<today, backs>>

(***************************************************************************)
(* One iteration of `while usage.reports.len() >= 30`: the oldest date     *)
(* (or the captured today, if none is earlier) is removed; when that date  *)
(* is not cached nothing is removed and the loop goes round again.         *)
(***************************************************************************)
EvictOldest ==
    LET keys == reports[op.project] IN
    /\ op.phase = "evict"
    /\ LoopAgain(keys)
    /\ reports' = [reports EXCEPT ![op.project] = @ \ {OldestBefore(keys, op.today)}]
    /\ UNCHANGED <<today, backs, op>>

\* Below the bound the loop ends, the report is inserted and the call
\* returns, releasing the lock.
Insert ==
    /\ op.phase = "evict"
    /\ ~LoopAgain(reports[op.project])
    /\ reports' = [reports EXCEPT ![op.project] = @ \cup {op.date}]
    /\ op' = Idle
    /\ UNCHANGED <<today, backs>>

\* The clock moves on a day.
Tick ==
    /\ today < MaxDay
    /\ today' = today + 1
    /\ UNCHANGED <<reports, backs, op>>

\* The clock is set back.
ClockBack ==
    /\ backs < MaxClockBacks
    /\ \E t \in Days : t < today /\ today' = t
    /\ backs' = backs + 1
    /\ UNCHANGED <<reports, op>>

Next ==
    \/ \E p \in Projects, d \in Days : SetReport(p, d)
    \/ SetReportLocked \/ EvictOldest \/ Insert
    \/ Tick \/ ClockBack

\* The tokio write lock is granted to a waiting writer, and a running
\* loop keeps running.
Spec == Init /\ [][Next]_vars /\ WF_vars(SetReportLocked \/ EvictOldest \/ Insert)

-----------------------------------------------------------------------------
TypeOK ==
    /\ reports \in [Projects -> SUBSET Days]
    /\ today \in Days
    /\ backs \in 0..MaxClockBacks
    /\ op \in Ops

(***************************************************************************)
(* The comment at cache.rs 149-151: at most Cap (30) reports are cached    *)
(* per project, however the calls and the clock interleave.                *)
(***************************************************************************)
CacheBounded ==
    \A p \in Projects : Cardinality(reports[p]) <= Cap

(***************************************************************************)
(* Every set_report call returns (and releases the write lock that every   *)
(* other reader and writer of the cache waits on).                         *)
(***************************************************************************)
SetReportReturns ==
    op # Idle ~> op = Idle


(***************************************************************************)
(* A set_report call made while the clock has never gone back returns:     *)
(* every cached date is then at or before the captured today, so each turn *)
(* of the eviction loop (cache.rs 152-159) removes a date.                 *)
(***************************************************************************)
SetReportReturnsClockForward ==
    (op # Idle /\ backs = 0) ~> op = Idle


(***************************************************************************)
(* The captured today is never stale in the way that matters while the    *)
(* clock has only moved forward: every date cached for the project of the *)
(* call in progress is at or before the today that call read at line 129,  *)
(* however long it waited for the lock and however the clock ticked.  It  *)
(* rests on the future-date check at line 131, and it is why the scan at  *)
(* 153-159 then always finds a cached date and each turn of the loop      *)
(* removes one (SetReportReturnsClockForward).                             *)
(***************************************************************************)
CachedNotAfterCapturedToday ==
    backs = 0 /\ op # Idle => \A d \in reports[op.project] : d <= op.today

=============================================================================
