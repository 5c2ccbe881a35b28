------------------------------- MODULE Board -------------------------------
(***************************************************************************)
(* The per-peer job board: a map from job id to the latest version of the  *)
(* job seen on the connection to one peer.  board.rs is not part of the   *)
(* sources at hand; its rules are taken from the spec (section 4.4):       *)
(*   - add(job) replaces the entry only if the new version is strictly     *)
(*     greater; an equal version is an idempotent no-op; a lower version   *)
(*     fails with OutOfOrder and is discarded;                             *)
(*   - a waiter for an id resolves once the entry under that id is         *)
(*     Complete or Error.                                                  *)
(***************************************************************************)
EXTENDS Job

EmptyBoard(Ids) == [id \in Ids |-> NoJob]

\* board.add(job) returns Ok (newer or equal version) or Err(OutOfOrder).
AddOk(b, id, job) == job.version >= b[id].version

\* The board after board.add(job): only a strictly newer version replaces.
Add(b, id, job) == IF job.version > b[id].version
                     THEN [b EXCEPT ![id] = job]
                     ELSE b

\* Applying a resynchronisation snapshot: the add rule, id by id.
Merge(b, snap) == [id \in DOMAIN b |->
                     IF snap[id].version > b[id].version THEN snap[id] ELSE b[id]]

=============================================================================
