---------------------------- MODULE JobLifecycle ----------------------------
(***************************************************************************)
(* What the boards promise about the jobs they hold (spec section 4.4,     *)
(* "version monotonicity; at most one terminal transition per job id"),    *)
(* stated without connections, messages or runners.                        *)
(*                                                                         *)
(* Keys are the places a job is kept (in the dispatch fabric: a board and  *)
(* a job id).  Each place holds no job, or one version of a job.  In one   *)
(* step any number of places move on, each independently, and a place     *)
(* only ever moves forward along the life of its job: to a strictly newer  *)
(* version, never out of Complete or Error, never back to Pending, never   *)
(* back to "no job".  A place may skip versions (a resync snapshot brings  *)
(* the latest version only).                                               *)
(***************************************************************************)
EXTENDS Job

CONSTANT Keys

VARIABLE jobs

\* A place moves from job old to job new.
Advance(old, new) ==
    /\ new.version > old.version
    /\ old.state \notin Terminal
    /\ new.state # "Absent"
    /\ new.state = "Pending" => old = NoJob

Init == jobs = [k \in Keys |-> NoJob]

\* Some places advance; the others keep their job.
Step ==
    /\ jobs' \in [Keys -> JobRec]
    /\ jobs' # jobs
    /\ \A k \in Keys : jobs'[k] = jobs[k] \/ Advance(jobs[k], jobs'[k])

Spec == Init /\ [][Step]_jobs

=============================================================================
