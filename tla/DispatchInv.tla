---------------------------- MODULE DispatchInv ----------------------------
(***************************************************************************)
(* The inductive invariant behind DestinationNotBehind and the lifecycle   *)
(* refinement of Dispatch.                                                 *)
(*                                                                         *)
(* Every job has a home: the board its running agent keeps for the peer   *)
(* that put it (the slurm board for the portal for a request job, the     *)
(* account board for slurm for the job slurm creates).  Only the runner    *)
(* writes a new version there, once, from the version-1 job of the put    *)
(* that started it.  Every other copy of the job, on any board, in any     *)
(* snapshot, put or update in flight or queued, is either the fresh job or *)
(* absent, or it is exactly the home job and sits on the home's link.      *)
(***************************************************************************)
EXTENDS Dispatch

\* The agent that put a job: the portal for a request, slurm for the job
\* it creates for the account agent.
Upstream(id) == IF id[2] = "req" THEN Portal ELSE Slurm

\* The home board of a job, and what a family of boards b holds there.
Home(id)      == <<Dest(id), Upstream(id)>>
HomeIn(b, id) == b[Home(id)][id]
HomeJob(id)   == HomeIn(board, id)

\* The versions a runner can write: the fresh job moved on once.
Finished == {Running(NewJob), Completed(NewJob), Errored(NewJob)}
Vals     == {NoJob, NewJob} \cup Finished

\* A copy j of job id, kept or carried on pair pr, when the boards are b.
CanonIn(b, pr, id, j) ==
    \/ j \in {NoJob, NewJob}
    \/ Link(pr) = Link(Home(id)) /\ j = HomeIn(b, id)

\* A message on (or queued for) pair pr carries only such copies, and a
\* put carries the fresh job towards the job's home.
MsgCanon(b, pr, m) ==
    /\ m.kind = "sync" => \A id \in JobIds : CanonIn(b, pr, id, m.snap[id])
    /\ m.kind \in {"put", "update"} => CanonIn(b, pr, m.id, m.job)
    /\ m.kind = "put" => m.job = NewJob /\ Rev(pr) = Home(m.id)

SeqCanon(b, pr, s) == \A i \in 1..Len(s) : MsgCanon(b, pr, s[i])

HomeShape   == \A id \in JobIds : HomeJob(id) \in Vals
BoardsCanon == \A pr \in Pairs, id \in JobIds : CanonIn(board, pr, id, board[pr][id])
WireCanon   == \A pr \in Pairs : SeqCanon(board, pr, wire[pr])
QueuedCanon == \A pr \in Pairs : SeqCanon(board, pr, queued[pr])

\* A started runner finds the fresh job at home.
ReadyFresh == \A id \in JobIds : pc[id] = "ready" => HomeJob(id) = NewJob

(***************************************************************************)
(* The strengthening used by the proofs (DispatchRefinement): copies of a  *)
(* job are the fresh job or the home job, on the home's link, on every     *)
(* board and in every message the fabric carries or queues, and a runner   *)
(* that the inbound handler started (RecvPut) finds the fresh job.         *)
(***************************************************************************)
IInv ==
    /\ TypeOK
    /\ HomeShape
    /\ BoardsCanon
    /\ WireCanon
    /\ QueuedCanon
    /\ ReadyFresh

=============================================================================
