-------------------------------- MODULE Job --------------------------------
(***************************************************************************)
(* The lifecycle of a templemeads Job (templemeads/src/job.rs).            *)
(*                                                                         *)
(* A job is abstracted to what the board and the dispatch fabric tell      *)
(* apart: its version and its state.  The id is the key under which a      *)
(* board stores it; the command, the timestamps and the result text are    *)
(* left out.  The state "Absent" with version 0 stands for "no job under   *)
(* this id", so that inserting a job and replacing it by a newer version   *)
(* obey the same version rule (see Board).                                 *)
(***************************************************************************)
EXTENDS Naturals

\* Status of job.rs, with the Running state that the callers of job.rs
\* (slurm/src/main.rs:136) and the spec use.
Status   == {"Pending", "Running", "Complete", "Error"}
Terminal == {"Complete", "Error"}

JobRec == [version : Nat, state : Status \cup {"Absent"}]

NoJob == [version |-> 0, state |-> "Absent"]

\* Job::new: a fresh job is Pending at version 1.
NewJob == [version |-> 1, state |-> "Pending"]

\* Job::completed / Job::errored: the state is set and the version bumped.
\* (Both refuse a job that is not Pending; the runners only ever finish
\* the version-1 job of the put that started them, which is Pending.)
Completed(job) == [version |-> job.version + 1, state |-> "Complete"]

Errored(job) == [version |-> job.version + 1, state |-> "Error"]

\* job.running(...): an interim version that says the job is in progress.
Running(job) == [version |-> job.version + 1, state |-> "Running"]

=============================================================================
