--------------------------- MODULE DispatchProofs ---------------------------
(***************************************************************************)
(* Proofs about the dispatch fabric (Dispatch), for every set of requests *)
(* and every bound on drops.                                               *)
(***************************************************************************)
EXTENDS Dispatch, TLAPS

\* The messages a step appends to a stream are messages.
LEMMA ConcatMsgs ==
    ASSUME NEW s \in Seq(Msg), NEW t \in Seq(Msg)
    PROVE  s \o t \in Seq(Msg)
  OBVIOUS

\* The add rule and a resync keep a board a map from ids to jobs.
LEMMA AddType ==
    ASSUME NEW b \in [JobIds -> JobRec], NEW id \in JobIds, NEW job \in JobRec
    PROVE  Add(b, id, job) \in [JobIds -> JobRec]
  BY DEF Add

LEMMA MergeType ==
    ASSUME NEW b \in [JobIds -> JobRec], NEW snap \in [JobIds -> JobRec]
    PROVE  Merge(b, snap) \in [JobIds -> JobRec]
  BY DEF Merge

\* The jobs the runners produce are jobs.
LEMMA LifecycleType ==
    ASSUME NEW job \in JobRec
    PROVE  /\ Completed(job) \in JobRec
           /\ Errored(job) \in JobRec
           /\ Running(job) \in JobRec
           /\ NewJob \in JobRec
  BY DEF Completed, Errored, Running, NewJob, JobRec, Status

\* The two ends of a pair are agents, and its reverse is a pair.
LEMMA PairFacts ==
    ASSUME NEW pr \in Pairs
    PROVE  /\ pr[1] \in Agents /\ pr[2] \in Agents
           /\ Rev(pr) \in Pairs
  BY DEF Pairs, Agents, Rev

LEMMA PostType ==
    ASSUME TypeOK, NEW D \in SUBSET Pairs, NEW out \in [D -> Seq(Msg)], Post(out)
    PROVE  /\ wire' \in [Pairs -> Seq(Msg)]
           /\ queued' \in [Pairs -> Seq(Msg)]
  BY ConcatMsgs DEF Post, TypeOK

\* The initial state is well typed.
LEMMA TypeInit == Init => TypeOK
  BY DispatchAssumption
  DEF Init, TypeOK, EmptyBoard, NoJob, JobRec, Status, Instructions
\* Every step keeps the state well typed.
LEMMA TypeStep == TypeOK /\ [Next]_vars => TypeOK'
  <2> SUFFICES ASSUME TypeOK, [Next]_vars PROVE TypeOK'
    OBVIOUS
  <2>1. ASSUME NEW l \in Links, ClientConnect(l) PROVE TypeOK'
    BY <2>1 DEF ClientConnect, TypeOK
  <2>2. ASSUME NEW l \in Links, Disconnect(l) PROVE TypeOK'
    <3>1. drops' \in [Links -> 0..MaxDrops]
      BY <2>2, DispatchAssumption DEF Disconnect, TypeOK
    <3>2. wire' \in [Pairs -> Seq(Msg)]
      BY <2>2 DEF Disconnect, TypeOK
    <3>3. QED BY <2>2, <3>1, <3>2 DEF Disconnect, TypeOK
  <2>3. ASSUME NEW pr \in Pairs, ProcessConnected(pr) PROVE TypeOK'
    <3>1. [kind |-> "sync", snap |-> board[pr]] \in Msg /\ [kind |-> "register"] \in Msg
      BY DEF Msg, TypeOK
    <3>2. wire[pr] \o (<<[kind |-> "register"], [kind |-> "sync", snap |-> board[pr]]>>
                       \o queued[pr]) \in Seq(Msg)
      BY <3>1, ConcatMsgs DEF TypeOK
    <3>3. wire' \in [Pairs -> Seq(Msg)]
      BY <2>3, <3>2 DEF ProcessConnected, TypeOK
    <3>4. QED BY <2>3, <3>3 DEF ProcessConnected, TypeOK
  <2>4. ASSUME NEW pr \in Pairs, ProcessConnectedFailed(pr) PROVE TypeOK'
    BY <2>4 DEF ProcessConnectedFailed, TypeOK
  <2>5. ASSUME NEW pr \in Pairs, RecvRegister(pr) PROVE TypeOK'
    <3>1. registry' \in [Agents -> SUBSET Agents]
      BY <2>5, PairFacts DEF RecvRegister, TypeOK
    <3>2. wire' \in [Pairs -> Seq(Msg)]
      BY <2>5 DEF RecvRegister, TypeOK
    <3>3. QED BY <2>5, <3>1, <3>2 DEF RecvRegister, TypeOK
  <2>6. ASSUME NEW pr \in Pairs, RecvSync(pr) PROVE TypeOK'
    <3>1. Head(wire[pr]) \in Msg /\ Head(wire[pr]).kind = "sync"
      BY <2>6 DEF RecvSync, TypeOK
    <3>2. Head(wire[pr]).snap \in [JobIds -> JobRec]
      BY <3>1 DEF Msg
    <3>3. board' \in [Pairs -> [JobIds -> JobRec]]
      BY <2>6, <3>2, PairFacts, MergeType DEF RecvSync, TypeOK
    <3>4. wire' \in [Pairs -> Seq(Msg)]
      BY <2>6 DEF RecvSync, TypeOK
    <3>5. QED BY <2>6, <3>3, <3>4 DEF RecvSync, TypeOK
  <2>7. ASSUME NEW pr \in Pairs, RecvPut(pr) PROVE TypeOK'
    <3>1. Head(wire[pr]) \in Msg /\ Head(wire[pr]).kind = "put"
      BY <2>7 DEF RecvPut, TypeOK
    <3>2. Head(wire[pr]).id \in JobIds /\ Head(wire[pr]).job \in JobRec
      BY <3>1 DEF Msg
    <3>3. board' \in [Pairs -> [JobIds -> JobRec]]
      BY <2>7, <3>2, PairFacts, AddType DEF RecvPut, UpdateOnBoard, TypeOK
    <3>4. pc' \in [JobIds -> {"idle", "ready", "waiting", "done"}]
      BY <2>7, <3>2 DEF RecvPut, TypeOK
    <3>5. wire' \in [Pairs -> Seq(Msg)]
      BY <2>7 DEF RecvPut, TypeOK
    <3>6. QED BY <2>7, <3>3, <3>4, <3>5 DEF RecvPut, TypeOK
  <2>8. ASSUME NEW pr \in Pairs, RecvUpdate(pr) PROVE TypeOK'
    <3>1. Head(wire[pr]) \in Msg /\ Head(wire[pr]).kind = "update"
      BY <2>8 DEF RecvUpdate, TypeOK
    <3>2. Head(wire[pr]).id \in JobIds /\ Head(wire[pr]).job \in JobRec
      BY <3>1 DEF Msg
    <3>3. board' \in [Pairs -> [JobIds -> JobRec]]
      BY <2>8, <3>2, PairFacts, AddType DEF RecvUpdate, UpdateOnBoard, TypeOK
    <3>4. wire' \in [Pairs -> Seq(Msg)]
      BY <2>8 DEF RecvUpdate, TypeOK
    <3>5. QED BY <2>8, <3>3, <3>4 DEF RecvUpdate, TypeOK
  <2>9. ASSUME NEW r \in Requests, BridgeRun(r) PROVE TypeOK'
    <3>1. ReqId(r) \in JobIds /\ NewJob \in JobRec
      BY DEF ReqId, JobIds, NewJob, JobRec, Status
    <3>2. <<PutMsg(ReqId(r), NewJob)>> \in Seq(Msg)
      BY <3>1 DEF PutMsg, Msg
    <3>3. Out(<<Portal, Slurm>>, <<PutMsg(ReqId(r), NewJob)>>)
            \in [{<<Portal, Slurm>>} -> Seq(Msg)]
      BY <3>2 DEF Out
    <3>4. wire' \in [Pairs -> Seq(Msg)] /\ queued' \in [Pairs -> Seq(Msg)]
      BY <2>9, <3>3, PostType DEF BridgeRun, Pairs
    <3>5. board' \in [Pairs -> [JobIds -> JobRec]]
      BY <2>9, <3>1, AddType DEF BridgeRun, UpdateOnBoard, Pairs, TypeOK
    <3>6. instr' \in [Requests -> Instructions] /\ req' \in [Requests -> {"unsent", "sent", "rejected"}]
      BY <2>9 DEF BridgeRun, TypeOK
    <3>7. QED BY <2>9, <3>4, <3>5, <3>6 DEF BridgeRun, TypeOK
  <2>10. ASSUME NEW r \in Requests, BridgeRunRejected(r) PROVE TypeOK'
    BY <2>10 DEF BridgeRunRejected, TypeOK
  <2>11. ASSUME NEW r \in Requests, SlurmRunnerAddUser(r) PROVE TypeOK'
    <3> DEFINE job == EnvelopeJob(r)
    <3>1. job \in JobRec /\ ReqId(r) \in JobIds /\ AddId(r) \in JobIds
      BY DEF EnvelopeJob, ReqId, AddId, JobIds, Pairs, TypeOK
    <3>2. Running(job) \in JobRec /\ NewJob \in JobRec
      BY <3>1, LifecycleType
    <3>3. /\ <<PutMsg(AddId(r), NewJob)>> \in Seq(Msg)
          /\ <<UpdateMsg(ReqId(r), Running(job))>> \in Seq(Msg)
      BY <3>1, <3>2 DEF PutMsg, UpdateMsg, Msg
    <3>4. Add(Add(board[<<Slurm, Account>>], ReqId(r), job), AddId(r), NewJob)
            \in [JobIds -> JobRec]
      BY <3>1, <3>2, AddType DEF Pairs, TypeOK
    <3>5. Add(board[<<Slurm, Portal>>], ReqId(r), Running(job)) \in [JobIds -> JobRec]
      BY <3>1, <3>2, AddType DEF Pairs, TypeOK
    <3>6. board' \in [Pairs -> [JobIds -> JobRec]]
      BY <2>11, <3>4, <3>5 DEF SlurmRunnerAddUser, TypeOK
    <3>7. Out2(<<Slurm, Account>>, <<PutMsg(AddId(r), NewJob)>>,
               <<Slurm, Portal>>, <<UpdateMsg(ReqId(r), Running(job))>>)
            \in [{<<Slurm, Account>>, <<Slurm, Portal>>} -> Seq(Msg)]
      BY <3>3 DEF Out2
    <3>8. wire' \in [Pairs -> Seq(Msg)] /\ queued' \in [Pairs -> Seq(Msg)]
      BY <2>11, <3>7, PostType DEF SlurmRunnerAddUser, Pairs
    <3>9. pc' \in [JobIds -> {"idle", "ready", "waiting", "done"}]
      BY <2>11, <3>1 DEF SlurmRunnerAddUser, TypeOK
    <3>10. QED BY <2>11, <3>6, <3>8, <3>9 DEF SlurmRunnerAddUser, TypeOK
  <2>12. ASSUME NEW r \in Requests, SlurmRunnerNoAccount(r) PROVE TypeOK'
    <3> DEFINE done == Errored(EnvelopeJob(r))
    <3>1. EnvelopeJob(r) \in JobRec /\ ReqId(r) \in JobIds
      BY DEF EnvelopeJob, ReqId, JobIds, Pairs, TypeOK
    <3>2. done \in JobRec BY <3>1, LifecycleType
    <3>3. Out(<<Slurm, Portal>>, <<UpdateMsg(ReqId(r), done)>>)
            \in [{<<Slurm, Portal>>} -> Seq(Msg)]
      BY <3>1, <3>2 DEF UpdateMsg, Msg, Out
    <3>4. wire' \in [Pairs -> Seq(Msg)] /\ queued' \in [Pairs -> Seq(Msg)]
      BY <2>12, <3>3, PostType DEF SlurmRunnerNoAccount, Pairs
    <3>5. board' \in [Pairs -> [JobIds -> JobRec]]
      BY <2>12, <3>1, <3>2, AddType DEF SlurmRunnerNoAccount, UpdateOnBoard, Pairs, TypeOK
    <3>6. pc' \in [JobIds -> {"idle", "ready", "waiting", "done"}]
      BY <2>12, <3>1 DEF SlurmRunnerNoAccount, TypeOK
    <3>7. QED BY <2>12, <3>4, <3>5, <3>6 DEF SlurmRunnerNoAccount, TypeOK
  <2>13. ASSUME NEW r \in Requests, SlurmRunnerRemoveUser(r) PROVE TypeOK'
    <3> DEFINE done == Completed(EnvelopeJob(r))
    <3>1. EnvelopeJob(r) \in JobRec /\ ReqId(r) \in JobIds
      BY DEF EnvelopeJob, ReqId, JobIds, Pairs, TypeOK
    <3>2. done \in JobRec BY <3>1, LifecycleType
    <3>3. Out(<<Slurm, Portal>>, <<UpdateMsg(ReqId(r), done)>>)
            \in [{<<Slurm, Portal>>} -> Seq(Msg)]
      BY <3>1, <3>2 DEF UpdateMsg, Msg, Out
    <3>4. wire' \in [Pairs -> Seq(Msg)] /\ queued' \in [Pairs -> Seq(Msg)]
      BY <2>13, <3>3, PostType DEF SlurmRunnerRemoveUser, Pairs
    <3>5. board' \in [Pairs -> [JobIds -> JobRec]]
      BY <2>13, <3>1, <3>2, AddType DEF SlurmRunnerRemoveUser, UpdateOnBoard, Pairs, TypeOK
    <3>6. pc' \in [JobIds -> {"idle", "ready", "waiting", "done"}]
      BY <2>13, <3>1 DEF SlurmRunnerRemoveUser, TypeOK
    <3>7. QED BY <2>13, <3>4, <3>5, <3>6 DEF SlurmRunnerRemoveUser, TypeOK
  <2>14. ASSUME NEW r \in Requests, FreeIpaRunner(r) PROVE TypeOK'
    <3> DEFINE job == board[<<Account, Slurm>>][AddId(r)]
    <3>1. job \in JobRec /\ AddId(r) \in JobIds
      BY DEF AddId, JobIds, Pairs, TypeOK
    <3>2. PICK done \in {Completed(job), Errored(job)} :
            /\ board' = UpdateOnBoard(<<Account, Slurm>>, AddId(r), done)
            /\ Post(Out(<<Account, Slurm>>, <<UpdateMsg(AddId(r), done)>>))
      BY <2>14 DEF FreeIpaRunner
    <3>3. done \in JobRec BY <3>1, LifecycleType
    <3>4. Out(<<Account, Slurm>>, <<UpdateMsg(AddId(r), done)>>)
            \in [{<<Account, Slurm>>} -> Seq(Msg)]
      BY <3>1, <3>3 DEF UpdateMsg, Msg, Out
    <3>5. wire' \in [Pairs -> Seq(Msg)] /\ queued' \in [Pairs -> Seq(Msg)]
      BY <3>2, <3>4, PostType DEF Pairs
    <3>6. board' \in [Pairs -> [JobIds -> JobRec]]
      BY <3>1, <3>2, <3>3, AddType DEF UpdateOnBoard, Pairs, TypeOK
    <3>7. pc' \in [JobIds -> {"idle", "ready", "waiting", "done"}]
      BY <2>14, <3>1 DEF FreeIpaRunner, TypeOK
    <3>8. QED BY <2>14, <3>5, <3>6, <3>7 DEF FreeIpaRunner, TypeOK
  <2>15. CASE UNCHANGED vars
    BY <2>15 DEF vars, TypeOK
  <2>16. QED
    BY <2>1, <2>2, <2>3, <2>4, <2>5, <2>6, <2>7, <2>8, <2>9, <2>10, <2>11,
       <2>12, <2>13, <2>14, <2>15 DEF Next, Receive
(***************************************************************************)
(* Every state the fabric reaches is well typed: whatever connects, drops, *)
(* is sent, queued, resynchronised or run, boards hold jobs, streams hold  *)
(* messages and the runners' positions are the ones the code has.          *)
(***************************************************************************)
THEOREM TypeCorrect == Spec => []TypeOK
  BY TypeInit, TypeStep, PTL DEF Spec
=============================================================================
