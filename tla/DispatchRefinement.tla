------------------------- MODULE DispatchRefinement -------------------------
(***************************************************************************)
(* Proofs that the dispatch fabric keeps its jobs consistent, for every    *)
(* set of requests and every bound on drops: the running agent is never    *)
(* behind the peer it exchanges a job with (DestinationNotBehind), and     *)
(* every board, in every step, moves each job only forward along its life  *)
(* (the boards implement JobLifecycle under the mapping BoardJobs).        *)
(*                                                                         *)
(* Both rest on the inductive invariant IInv of DispatchInv.  The lemmas   *)
(* below are stated over an explicit family of boards b (the boards        *)
(* before a step) and b2 (after it), so that one lemma serves every action *)
(* that writes a board.                                                    *)
(***************************************************************************)
EXTENDS DispatchInv, DispatchProofs

Boards == [Pairs -> [JobIds -> JobRec]]

\* A step from boards b to b2 leaves every home job alone that has moved
\* beyond the fresh job.
HomeKept(b, b2) ==
    \A id \in JobIds : HomeIn(b2, id) = HomeIn(b, id) \/ HomeIn(b, id) \in {NoJob, NewJob}

\* No entry of any board loses versions.
Grows(b, b2) ==
    \A pr \in Pairs, id \in JobIds :
        b2[pr][id] = b[pr][id] \/ b2[pr][id].version > b[pr][id].version

\* Board q after board.add(job) of j under id, and after a resync.
AddAt(b, q, id, j)  == [b EXCEPT ![q] = Add(b[q], id, j)]
MergeAt(b, q, snap) == [b EXCEPT ![q] = Merge(b[q], snap)]

\* The parts of IInv that speak of the boards alone.
BoardsOK(b) ==
    /\ b \in Boards
    /\ \A id \in JobIds : HomeIn(b, id) \in Vals
    /\ \A pr \in Pairs, id \in JobIds : CanonIn(b, pr, id, b[pr][id])

LEMMA ValsType == Vals \subseteq JobRec /\ \A v \in Vals : v.version \in 0..2
  BY DEF Vals, Finished, NoJob, NewJob, Running, Completed, Errored, JobRec, Status

LEMMA HomeFacts ==
    ASSUME NEW id \in JobIds
    PROVE  /\ Home(id) \in Pairs
           /\ Link(Home(id)) = {Dest(id), Upstream(id)}
  BY DispatchAssumption DEF Home, Pairs, JobIds, Dest, Upstream, Link

\* A copy that is canonical on a pair is canonical on its reverse.
LEMMA CanonRev ==
    ASSUME NEW b, NEW pr \in Pairs, NEW id, NEW j, CanonIn(b, pr, id, j)
    PROVE  CanonIn(b, Rev(pr), id, j)
  BY DEF CanonIn, Link, Rev, Pairs

\* Canonical copies stay canonical across a step that keeps the homes.
LEMMA CanonKept ==
    ASSUME NEW b, NEW b2, HomeKept(b, b2),
           NEW pr, NEW id \in JobIds, NEW j, CanonIn(b, pr, id, j)
    PROVE  CanonIn(b2, pr, id, j)
  BY DEF HomeKept, CanonIn

LEMMA MsgKept ==
    ASSUME NEW b, NEW b2, HomeKept(b, b2), NEW pr, NEW m \in Msg, MsgCanon(b, pr, m)
    PROVE  MsgCanon(b2, pr, m)
<1>1. m.kind = "sync" => \A id \in JobIds : CanonIn(b2, pr, id, m.snap[id])
    BY CanonKept DEF MsgCanon
<1>2. m.kind \in {"put", "update"} => CanonIn(b2, pr, m.id, m.job)
    BY CanonKept DEF MsgCanon, Msg
<1>3. QED
    BY <1>1, <1>2 DEF MsgCanon

LEMMA SeqKept ==
    ASSUME NEW b, NEW b2, HomeKept(b, b2), NEW pr, NEW s \in Seq(Msg), SeqCanon(b, pr, s)
    PROVE  SeqCanon(b2, pr, s)
  BY MsgKept DEF SeqCanon

\* The messages of a stream, split and joined.
LEMMA SeqConcat ==
    ASSUME NEW b, NEW pr, NEW s \in Seq(Msg), NEW t \in Seq(Msg),
           SeqCanon(b, pr, s), SeqCanon(b, pr, t)
    PROVE  SeqCanon(b, pr, s \o t)
  BY DEF SeqCanon

LEMMA SeqTail ==
    ASSUME NEW b, NEW pr, NEW s \in Seq(Msg), s # <<>>, SeqCanon(b, pr, s)
    PROVE  SeqCanon(b, pr, Tail(s)) /\ MsgCanon(b, pr, Head(s))
  BY DEF SeqCanon

LEMMA SeqOne ==
    ASSUME NEW b, NEW pr, NEW m, MsgCanon(b, pr, m)
    PROVE  SeqCanon(b, pr, <<m>>)
  BY DEF SeqCanon

LEMMA SeqEmpty ==
    ASSUME NEW b, NEW pr
    PROVE  SeqCanon(b, pr, <<>>)
  BY DEF SeqCanon

\* A canonical copy is newer than the home job only when it is the fresh
\* job and the home has none.
LEMMA NoGain ==
    ASSUME NEW b, NEW id, HomeIn(b, id) \in Vals, NEW pr, NEW j,
           CanonIn(b, pr, id, j), j.version > HomeIn(b, id).version
    PROVE  j = NewJob /\ HomeIn(b, id) = NoJob
<1>1. HomeIn(b, id).version \in 0..2
    BY ValsType
<1>2. j # NoJob /\ j # HomeIn(b, id)
    BY <1>1 DEF NoJob
<1>3. j = NewJob
    BY <1>2 DEF CanonIn
<1>4. HomeIn(b, id).version = 0
    BY <1>1, <1>3 DEF NewJob
<1>5. QED
    BY <1>3, <1>4 DEF Vals, Finished, NoJob, NewJob, Running, Completed, Errored

\* board.add of a canonical copy (a put, an update, Command::put/update):
\* the homes are kept, nothing loses versions, and the boards stay
\* canonical.
LEMMA AddStep ==
    ASSUME NEW b, BoardsOK(b), NEW q \in Pairs, NEW id \in JobIds,
           NEW j \in JobRec, CanonIn(b, q, id, j)
    PROVE  /\ BoardsOK(AddAt(b, q, id, j))
           /\ HomeKept(b, AddAt(b, q, id, j))
           /\ Grows(b, AddAt(b, q, id, j))
           /\ \A id2 \in JobIds : HomeIn(b, id2) = NewJob => HomeIn(AddAt(b, q, id, j), id2) = NewJob
<1> DEFINE b2 == AddAt(b, q, id, j)
<1>1. b2 \in Boards
    BY AddType DEF BoardsOK, Boards, AddAt
<1>2. \A pr \in Pairs, id2 \in JobIds :
        b2[pr][id2] = IF pr = q /\ id2 = id /\ j.version > b[q][id].version
                        THEN j ELSE b[pr][id2]
    BY DEF BoardsOK, Boards, Add, AddAt
<1>3. \A id2 \in JobIds :
        \/ HomeIn(b2, id2) = HomeIn(b, id2)
        \/ HomeIn(b, id2) = NoJob /\ HomeIn(b2, id2) = NewJob
    <2> SUFFICES ASSUME NEW id2 \in JobIds,
                        Home(id2) = q, id2 = id, j.version > b[q][id].version
                 PROVE  HomeIn(b, id2) = NoJob /\ HomeIn(b2, id2) = NewJob
        BY <1>2, HomeFacts DEF HomeIn
    <2>1. j = NewJob /\ HomeIn(b, id) = NoJob
        BY NoGain DEF BoardsOK, HomeIn
    <2>2. QED
        BY <1>2, <2>1, HomeFacts DEF HomeIn
<1>4. HomeKept(b, b2)
    BY <1>3 DEF HomeKept
<1>5. \A id2 \in JobIds : HomeIn(b2, id2) \in Vals
    BY <1>3 DEF BoardsOK, Vals
<1>6. \A pr \in Pairs, id2 \in JobIds : CanonIn(b2, pr, id2, b2[pr][id2])
    BY <1>2, <1>4, CanonKept DEF BoardsOK
<1>7. Grows(b, b2)
    BY <1>2 DEF Grows
<1>8. QED
    BY <1>1, <1>3, <1>4, <1>5, <1>6, <1>7 DEF BoardsOK, NoJob, NewJob

\* A resync snapshot of canonical copies, merged by the add rule.
LEMMA MergeStep ==
    ASSUME NEW b, BoardsOK(b), NEW q \in Pairs,
           NEW snap \in [JobIds -> JobRec],
           \A id \in JobIds : CanonIn(b, q, id, snap[id])
    PROVE  /\ BoardsOK(MergeAt(b, q, snap))
           /\ HomeKept(b, MergeAt(b, q, snap))
           /\ Grows(b, MergeAt(b, q, snap))
           /\ \A id2 \in JobIds : HomeIn(b, id2) = NewJob => HomeIn(MergeAt(b, q, snap), id2) = NewJob
<1> DEFINE b2 == MergeAt(b, q, snap)
<1>1. b2 \in Boards
    BY MergeType DEF BoardsOK, Boards, MergeAt
<1>2. \A pr \in Pairs, id2 \in JobIds :
        b2[pr][id2] = IF pr = q /\ snap[id2].version > b[q][id2].version
                        THEN snap[id2] ELSE b[pr][id2]
    BY DEF BoardsOK, Boards, Merge, MergeAt
<1>3. \A id2 \in JobIds :
        \/ HomeIn(b2, id2) = HomeIn(b, id2)
        \/ HomeIn(b, id2) = NoJob /\ HomeIn(b2, id2) = NewJob
    <2> SUFFICES ASSUME NEW id2 \in JobIds,
                        Home(id2) = q, snap[id2].version > b[q][id2].version
                 PROVE  HomeIn(b, id2) = NoJob /\ HomeIn(b2, id2) = NewJob
        BY <1>2, HomeFacts DEF HomeIn
    <2>1. snap[id2] = NewJob /\ HomeIn(b, id2) = NoJob
        BY NoGain DEF BoardsOK, HomeIn
    <2>2. QED
        BY <1>2, <2>1, HomeFacts DEF HomeIn
<1>4. HomeKept(b, b2)
    BY <1>3 DEF HomeKept
<1>5. \A id2 \in JobIds : HomeIn(b2, id2) \in Vals
    BY <1>3 DEF BoardsOK, Vals
<1>6. \A pr \in Pairs, id2 \in JobIds : CanonIn(b2, pr, id2, b2[pr][id2])
    BY <1>2, <1>4, CanonKept DEF BoardsOK
<1>7. Grows(b, b2)
    BY <1>2 DEF Grows
<1>8. QED
    BY <1>1, <1>3, <1>4, <1>5, <1>6, <1>7 DEF BoardsOK, NoJob, NewJob

\* A runner finishes (or reports Running on) the fresh job at its home.
LEMMA HomeWrite ==
    ASSUME NEW b, BoardsOK(b), NEW id \in JobIds, HomeIn(b, id) = NewJob,
           NEW f \in Finished
    PROVE  /\ BoardsOK(AddAt(b, Home(id), id, f))
           /\ HomeKept(b, AddAt(b, Home(id), id, f))
           /\ Grows(b, AddAt(b, Home(id), id, f))
           /\ HomeIn(AddAt(b, Home(id), id, f), id) = f
           /\ \A id2 \in JobIds \ {id} : HomeIn(AddAt(b, Home(id), id, f), id2) = HomeIn(b, id2)
<1> DEFINE b2 == AddAt(b, Home(id), id, f)
<1>1. f.version = 2 /\ f \in JobRec
    BY ValsType DEF Finished, Vals, Running, Completed, Errored, NewJob
<1>2. \A pr \in Pairs, id2 \in JobIds :
        b2[pr][id2] = IF pr = Home(id) /\ id2 = id THEN f ELSE b[pr][id2]
    BY <1>1, HomeFacts DEF BoardsOK, Boards, Add, AddAt, HomeIn, NewJob
<1>3. b2 \in Boards
    BY <1>1, HomeFacts, AddType DEF BoardsOK, Boards, AddAt
<1>4. HomeIn(b2, id) = f /\ \A id2 \in JobIds \ {id} : HomeIn(b2, id2) = HomeIn(b, id2)
    BY <1>2, HomeFacts DEF HomeIn
<1>5. HomeKept(b, b2)
    BY <1>4 DEF HomeKept
<1>6. \A pr \in Pairs, id2 \in JobIds : CanonIn(b2, pr, id2, b2[pr][id2])
    <2> SUFFICES ASSUME NEW pr \in Pairs, NEW id2 \in JobIds
                 PROVE  CanonIn(b2, pr, id2, b2[pr][id2])
        OBVIOUS
    <2>1. CASE pr = Home(id) /\ id2 = id
        BY <2>1, <1>2, <1>4 DEF CanonIn
    <2>2. CASE ~(pr = Home(id) /\ id2 = id)
        BY <2>2, <1>2, <1>5, CanonKept DEF BoardsOK
    <2>3. QED
        BY <2>1, <2>2
<1>7. \A id2 \in JobIds : HomeIn(b2, id2) \in Vals
    BY <1>4 DEF BoardsOK, Vals
<1>8. Grows(b, b2)
    BY <1>1, <1>2 DEF Grows, BoardsOK, HomeIn, NewJob
<1>9. QED
    BY <1>3, <1>4, <1>5, <1>6, <1>7, <1>8 DEF BoardsOK

\* Steps compose.
LEMMA HomeKeptTrans ==
    ASSUME NEW b0, NEW b1, NEW b2, HomeKept(b0, b1), HomeKept(b1, b2)
    PROVE  HomeKept(b0, b2)
  BY DEF HomeKept

LEMMA GrowsTrans ==
    ASSUME NEW b0 \in Boards, NEW b1 \in Boards, NEW b2 \in Boards,
           Grows(b0, b1), Grows(b1, b2)
    PROVE  Grows(b0, b2)
<1> SUFFICES ASSUME NEW pr \in Pairs, NEW id \in JobIds
             PROVE  b2[pr][id] = b0[pr][id] \/ b2[pr][id].version > b0[pr][id].version
    BY DEF Grows
<1>1. /\ b0[pr][id].version \in Nat
      /\ b1[pr][id].version \in Nat
      /\ b2[pr][id].version \in Nat
    BY DEF Boards, JobRec
<1>2. /\ b1[pr][id] = b0[pr][id] \/ b1[pr][id].version > b0[pr][id].version
      /\ b2[pr][id] = b1[pr][id] \/ b2[pr][id].version > b1[pr][id].version
    BY DEF Grows
<1>3. QED
    BY <1>1, <1>2


-----------------------------------------------------------------------------
(***************************************************************************)
(* The invariant, split into what each step has to re-establish.           *)
(***************************************************************************)

\* The streams and queues, read against boards b.
StreamsCanon(b, w, qd) ==
    \A pr \in Pairs : SeqCanon(b, pr, w[pr]) /\ SeqCanon(b, pr, qd[pr])

\* What a step must establish besides the types: the boards stay
\* canonical and only grow, the streams stay canonical against the new
\* boards, and a started runner still finds the fresh job.
StepGood ==
    /\ BoardsOK(board')
    /\ Grows(board, board')
    /\ StreamsCanon(board', wire', queued')
    /\ \A id \in JobIds : pc'[id] = "ready" => HomeIn(board', id) = NewJob

LEMMA IInvBoards ==
    ASSUME IInv
    PROVE  BoardsOK(board) /\ StreamsCanon(board, wire, queued)
  BY DEF IInv, BoardsOK, Boards, TypeOK, HomeShape, HomeJob, BoardsCanon,
         WireCanon, QueuedCanon, StreamsCanon

LEMMA GoodIInv ==
    ASSUME TypeOK', StepGood
    PROVE  IInv' /\ Grows(board, board')
  BY DEF StepGood, IInv, BoardsOK, HomeShape, HomeJob, BoardsCanon,
         WireCanon, QueuedCanon, StreamsCanon, ReadyFresh

\* Streams written against the old boards still read canonically against
\* boards that kept the homes.
LEMMA StreamsKept ==
    ASSUME NEW w \in [Pairs -> Seq(Msg)], NEW qd \in [Pairs -> Seq(Msg)],
           NEW b, NEW b2, HomeKept(b, b2), StreamsCanon(b, w, qd)
    PROVE  StreamsCanon(b2, w, qd)
  BY SeqKept DEF StreamsCanon

\* Exchange send of canonical messages keeps the streams and queues
\* canonical: each message goes on the wire or on the queued list of its
\* own pair.
LEMMA PostCanon ==
    ASSUME TypeOK, NEW b, StreamsCanon(b, wire, queued),
           NEW D \in SUBSET Pairs, NEW out \in [D -> Seq(Msg)],
           \A pr \in D : SeqCanon(b, pr, out[pr]),
           Post(out)
    PROVE  StreamsCanon(b, wire', queued')
  BY SeqConcat DEF Post, StreamsCanon, TypeOK

\* The runner of a job started by a put finishes it at home (remove_user,
\* NoAccount, freeipa_runner), writes the result to its board for the
\* peer and sends it back as an update.
LEMMA RunnerStep ==
    ASSUME IInv, NEW id \in JobIds, pc[id] = "ready", NEW f \in Finished,
           board' = [board EXCEPT ![Home(id)] = Add(@, id, f)],
           Post(Out(Home(id), <<UpdateMsg(id, f)>>)),
           pc' = [pc EXCEPT ![id] = "done"]
    PROVE  StepGood
<1> DEFINE nb == AddAt(board, Home(id), id, f)
<1>1. HomeIn(board, id) = NewJob /\ BoardsOK(board) /\ StreamsCanon(board, wire, queued)
    BY IInvBoards DEF IInv, ReadyFresh, HomeJob
<1>2. /\ BoardsOK(nb)
      /\ HomeKept(board, nb)
      /\ Grows(board, nb)
      /\ HomeIn(nb, id) = f
      /\ \A id2 \in JobIds \ {id} : HomeIn(nb, id2) = HomeIn(board, id2)
    BY <1>1, HomeWrite
<1>3. StreamsCanon(nb, wire, queued)
    BY <1>1, <1>2, StreamsKept DEF IInv, TypeOK
<1>4. f \in JobRec /\ UpdateMsg(id, f) \in Msg
    BY ValsType DEF Vals, UpdateMsg, Msg
<1>5. Out(Home(id), <<UpdateMsg(id, f)>>) \in [{Home(id)} -> Seq(Msg)]
    BY <1>4 DEF Out
<1>6. SeqCanon(nb, Home(id), <<UpdateMsg(id, f)>>)
    <2>1. MsgCanon(nb, Home(id), UpdateMsg(id, f))
        BY <1>2 DEF MsgCanon, UpdateMsg, CanonIn
    <2>2. QED
        BY <2>1, SeqOne
<1>7. StreamsCanon(nb, wire', queued')
    <2>1. \A pr \in {Home(id)} : SeqCanon(nb, pr, Out(Home(id), <<UpdateMsg(id, f)>>)[pr])
        BY <1>6 DEF Out
    <2>2. TypeOK /\ {Home(id)} \in SUBSET Pairs
        BY HomeFacts DEF IInv
    <2>3. QED
        BY <1>3, <1>5, <2>1, <2>2, PostCanon
<1>8. \A id2 \in JobIds : pc'[id2] = "ready" => HomeIn(nb, id2) = NewJob
    BY <1>2 DEF IInv, ReadyFresh, HomeJob, TypeOK
<1>9. board' = nb
    BY DEF AddAt
<1>10. QED
    BY <1>2, <1>7, <1>8, <1>9 DEF StepGood


\* A step that leaves the boards and the runners alone needs only to keep
\* the streams canonical.
LEMMA QuietStep ==
    ASSUME IInv, UNCHANGED <<board, pc>>, StreamsCanon(board, wire', queued')
    PROVE  StepGood
  BY IInvBoards DEF StepGood, Grows, IInv, ReadyFresh, HomeJob

LEMMA ConnectGood ==
    ASSUME IInv, NEW l \in Links, ClientConnect(l) \/ Disconnect(l)
    PROVE  StepGood
<1>1. StreamsCanon(board, wire', queued')
    BY IInvBoards, SeqEmpty DEF ClientConnect, Disconnect, StreamsCanon
<1>2. QED
    BY <1>1, QuietStep DEF ClientConnect, Disconnect

LEMMA ProcessConnectedGood ==
    ASSUME IInv, NEW pr \in Pairs, ProcessConnected(pr) \/ ProcessConnectedFailed(pr)
    PROVE  StepGood
<1>1. CASE ProcessConnectedFailed(pr)
    BY <1>1, IInvBoards, QuietStep DEF ProcessConnectedFailed
<1>2. CASE ProcessConnected(pr)
    <2> DEFINE reg  == [kind |-> "register"]
               sync == [kind |-> "sync", snap |-> board[pr]]
    <2>1. TypeOK /\ BoardsOK(board) /\ StreamsCanon(board, wire, queued)
        BY IInvBoards DEF IInv
    <2>2. reg \in Msg /\ sync \in Msg
        BY <2>1 DEF Msg, TypeOK
    <2>3. MsgCanon(board, pr, reg) /\ MsgCanon(board, pr, sync)
        BY <2>1 DEF MsgCanon, BoardsOK
    <2>4. SeqCanon(board, pr, <<reg, sync>>)
        BY <2>3 DEF SeqCanon
    <2>5. /\ wire[pr] \in Seq(Msg) /\ queued[pr] \in Seq(Msg)
          /\ <<reg, sync>> \in Seq(Msg)
          /\ <<reg, sync>> \o queued[pr] \in Seq(Msg)
        BY <2>1, <2>2, ConcatMsgs DEF TypeOK
    <2>a. SeqCanon(board, pr, <<reg, sync>> \o queued[pr])
        BY <2>1, <2>4, <2>5, SeqConcat DEF StreamsCanon
    <2>b. SeqCanon(board, pr, wire[pr] \o (<<reg, sync>> \o queued[pr]))
        BY <2>1, <2>5, <2>a, SeqConcat DEF StreamsCanon
    <2>6. StreamsCanon(board, wire', queued')
        BY <1>2, <2>1, <2>b, SeqEmpty DEF ProcessConnected, StreamsCanon
    <2>7. QED
        BY <1>2, <2>6, QuietStep DEF ProcessConnected
<1>3. QED
    BY <1>1, <1>2

LEMMA RecvRegisterGood ==
    ASSUME IInv, NEW pr \in Pairs, RecvRegister(pr)
    PROVE  StepGood
<1>1. StreamsCanon(board, wire', queued')
    BY IInvBoards, SeqTail DEF RecvRegister, StreamsCanon, IInv, TypeOK
<1>2. QED
    BY <1>1, QuietStep DEF RecvRegister

LEMMA BridgeRunRejectedGood ==
    ASSUME IInv, NEW r \in Requests, BridgeRunRejected(r)
    PROVE  StepGood
  BY IInvBoards, QuietStep DEF BridgeRunRejected


LEMMA RecvSyncGood ==
    ASSUME IInv, TypeOK', NEW pr \in Pairs, RecvSync(pr)
    PROVE  StepGood
<1> DEFINE m  == Head(wire[pr])
           nb == MergeAt(board, Rev(pr), m.snap)
<1>1. TypeOK /\ BoardsOK(board) /\ StreamsCanon(board, wire, queued)
    BY IInvBoards DEF IInv
<1>2. /\ m \in Msg /\ m.kind = "sync"
      /\ MsgCanon(board, pr, m) /\ SeqCanon(board, pr, Tail(wire[pr]))
    BY <1>1, SeqTail DEF RecvSync, TypeOK, StreamsCanon
<1>3. m.snap \in [JobIds -> JobRec]
    BY <1>2 DEF Msg
<1>4. \A id \in JobIds : CanonIn(board, Rev(pr), id, m.snap[id])
    BY <1>2, CanonRev DEF MsgCanon
<1>5. /\ BoardsOK(nb)
      /\ HomeKept(board, nb)
      /\ Grows(board, nb)
      /\ \A id2 \in JobIds : HomeIn(board, id2) = NewJob => HomeIn(nb, id2) = NewJob
    BY <1>1, <1>3, <1>4, PairFacts, MergeStep
<1>6. board' = nb
    BY DEF RecvSync, MergeAt
<1>7. StreamsCanon(board, wire', queued')
    BY <1>1, <1>2 DEF RecvSync, StreamsCanon
<1>8. StreamsCanon(nb, wire', queued')
    BY <1>5, <1>7, StreamsKept DEF TypeOK
<1>9. \A id \in JobIds : pc'[id] = "ready" => HomeIn(nb, id) = NewJob
    BY <1>5 DEF RecvSync, IInv, ReadyFresh, HomeJob
<1>10. QED
    BY <1>5, <1>6, <1>8, <1>9 DEF StepGood

LEMMA RecvUpdateGood ==
    ASSUME IInv, TypeOK', NEW pr \in Pairs, RecvUpdate(pr)
    PROVE  StepGood
<1> DEFINE m  == Head(wire[pr])
           nb == AddAt(board, Rev(pr), m.id, m.job)
<1>1. TypeOK /\ BoardsOK(board) /\ StreamsCanon(board, wire, queued)
    BY IInvBoards DEF IInv
<1>2. /\ m \in Msg /\ m.kind = "update"
      /\ MsgCanon(board, pr, m) /\ SeqCanon(board, pr, Tail(wire[pr]))
    BY <1>1, SeqTail DEF RecvUpdate, TypeOK, StreamsCanon
<1>3. m.id \in JobIds /\ m.job \in JobRec
    BY <1>2 DEF Msg
<1>4. CanonIn(board, Rev(pr), m.id, m.job)
    BY <1>2, CanonRev DEF MsgCanon
<1>5. /\ BoardsOK(nb)
      /\ HomeKept(board, nb)
      /\ Grows(board, nb)
      /\ \A id2 \in JobIds : HomeIn(board, id2) = NewJob => HomeIn(nb, id2) = NewJob
    BY <1>1, <1>3, <1>4, PairFacts, AddStep
<1>6. board' = nb
    BY DEF RecvUpdate, UpdateOnBoard, AddAt
<1>7. StreamsCanon(board, wire', queued')
    BY <1>1, <1>2 DEF RecvUpdate, StreamsCanon
<1>8. StreamsCanon(nb, wire', queued')
    BY <1>5, <1>7, StreamsKept DEF TypeOK
<1>9. \A id \in JobIds : pc'[id] = "ready" => HomeIn(nb, id) = NewJob
    BY <1>5 DEF RecvUpdate, IInv, ReadyFresh, HomeJob
<1>10. QED
    BY <1>5, <1>6, <1>8, <1>9 DEF StepGood


\* A put the board accepts (the home holds no newer version) leaves the
\* fresh job at home, for the runner it starts.
LEMMA RecvPutGood ==
    ASSUME IInv, TypeOK', NEW pr \in Pairs, RecvPut(pr)
    PROVE  StepGood
<1> DEFINE m  == Head(wire[pr])
           nb == AddAt(board, Rev(pr), m.id, m.job)
<1>1. TypeOK /\ BoardsOK(board) /\ StreamsCanon(board, wire, queued)
    BY IInvBoards DEF IInv
<1>2. /\ m \in Msg /\ m.kind = "put"
      /\ MsgCanon(board, pr, m) /\ SeqCanon(board, pr, Tail(wire[pr]))
    BY <1>1, SeqTail DEF RecvPut, TypeOK, StreamsCanon
<1>3. /\ m.id \in JobIds /\ m.job = NewJob /\ Rev(pr) = Home(m.id)
      /\ NewJob \in JobRec
    BY <1>2 DEF Msg, MsgCanon, NewJob, JobRec, Status
<1>4. CanonIn(board, Rev(pr), m.id, m.job)
    BY <1>3 DEF CanonIn
<1>5. /\ BoardsOK(nb)
      /\ HomeKept(board, nb)
      /\ Grows(board, nb)
      /\ \A id2 \in JobIds : HomeIn(board, id2) = NewJob => HomeIn(nb, id2) = NewJob
    BY <1>1, <1>3, <1>4, PairFacts, AddStep
<1>6. board' = nb
    BY DEF RecvPut, UpdateOnBoard, AddAt
<1>7. StreamsCanon(board, wire', queued')
    BY <1>1, <1>2 DEF RecvPut, StreamsCanon
<1>8. StreamsCanon(nb, wire', queued')
    BY <1>5, <1>7, StreamsKept DEF TypeOK
<1>9. AddOk(board[Rev(pr)], m.id, m.job) => HomeIn(nb, m.id) = NewJob
    <2>1. HomeIn(board, m.id) \in Vals
        BY <1>1, <1>3 DEF BoardsOK
    <2>2. AddOk(board[Rev(pr)], m.id, m.job) => HomeIn(board, m.id) \in {NoJob, NewJob}
        BY <1>3, <2>1 DEF AddOk, HomeIn, Vals, Finished, NoJob, NewJob,
                           Running, Completed, Errored
    <2>3. QED
        BY <1>1, <1>3, <2>2, HomeFacts DEF AddAt, Add, HomeIn, NoJob, NewJob, TypeOK
<1>10. \A id \in JobIds : pc'[id] = "ready" => HomeIn(nb, id) = NewJob
    BY <1>5, <1>9 DEF RecvPut, IInv, ReadyFresh, HomeJob, TypeOK
<1>11. QED
    BY <1>5, <1>6, <1>8, <1>10 DEF StepGood


LEMMA IdFacts ==
    ASSUME NEW r \in Requests
    PROVE  /\ ReqId(r) \in JobIds /\ AddId(r) \in JobIds /\ ReqId(r) # AddId(r)
           /\ Home(ReqId(r)) = <<Slurm, Portal>>
           /\ Home(AddId(r)) = <<Account, Slurm>>
  BY DEF ReqId, AddId, JobIds, Home, Dest, Upstream

\* The bridge puts the fresh request job, on its board for slurm and
\* towards slurm.
LEMMA BridgeRunGood ==
    ASSUME IInv, TypeOK', NEW r \in Requests, BridgeRun(r)
    PROVE  StepGood
<1> DEFINE pr  == <<Portal, Slurm>>
           put == PutMsg(ReqId(r), NewJob)
           nb  == AddAt(board, pr, ReqId(r), NewJob)
<1>1. TypeOK /\ BoardsOK(board) /\ StreamsCanon(board, wire, queued)
    BY IInvBoards DEF IInv
<1>2. pr \in Pairs /\ NewJob \in JobRec /\ ReqId(r) \in JobIds
    BY IdFacts DEF Pairs, NewJob, JobRec, Status
<1>3. /\ BoardsOK(nb)
      /\ HomeKept(board, nb)
      /\ Grows(board, nb)
      /\ \A id2 \in JobIds : HomeIn(board, id2) = NewJob => HomeIn(nb, id2) = NewJob
    BY <1>1, <1>2, AddStep DEF CanonIn
<1>4. board' = nb
    BY DEF BridgeRun, UpdateOnBoard, AddAt
<1>5. StreamsCanon(nb, wire, queued)
    BY <1>1, <1>3, StreamsKept DEF TypeOK
<1>6. put \in Msg /\ MsgCanon(nb, pr, put)
    BY <1>2, IdFacts DEF PutMsg, Msg, MsgCanon, CanonIn, Rev
<1>7. StreamsCanon(nb, wire', queued')
    <2>1. Out(pr, <<put>>) \in [{pr} -> Seq(Msg)]
        BY <1>6 DEF Out
    <2>2. \A p2 \in {pr} : SeqCanon(nb, p2, Out(pr, <<put>>)[p2])
        BY <1>6, SeqOne DEF Out
    <2>3. QED
        BY <1>1, <1>2, <1>5, <2>1, <2>2, PostCanon DEF BridgeRun
<1>8. \A id \in JobIds : pc'[id] = "ready" => HomeIn(nb, id) = NewJob
    BY <1>3 DEF BridgeRun, IInv, ReadyFresh, HomeJob
<1>9. QED
    BY <1>3, <1>4, <1>7, <1>8 DEF StepGood

LEMMA SlurmRunnerNoAccountGood ==
    ASSUME IInv, NEW r \in Requests, SlurmRunnerNoAccount(r)
    PROVE  StepGood
<1>1. EnvelopeJob(r) = NewJob
    BY IdFacts DEF SlurmRunnerNoAccount, IInv, ReadyFresh, HomeJob, HomeIn, EnvelopeJob
<1>2. Errored(NewJob) \in Finished
    BY DEF Finished
<1>3. QED
    BY <1>1, <1>2, IdFacts, RunnerStep DEF SlurmRunnerNoAccount, UpdateOnBoard

LEMMA SlurmRunnerRemoveUserGood ==
    ASSUME IInv, NEW r \in Requests, SlurmRunnerRemoveUser(r)
    PROVE  StepGood
<1>1. EnvelopeJob(r) = NewJob
    BY IdFacts DEF SlurmRunnerRemoveUser, IInv, ReadyFresh, HomeJob, HomeIn, EnvelopeJob
<1>2. Completed(NewJob) \in Finished
    BY DEF Finished
<1>3. QED
    BY <1>1, <1>2, IdFacts, RunnerStep DEF SlurmRunnerRemoveUser, UpdateOnBoard

LEMMA FreeIpaRunnerGood ==
    ASSUME IInv, NEW r \in Requests, FreeIpaRunner(r)
    PROVE  StepGood
<1>1. board[<<Account, Slurm>>][AddId(r)] = NewJob
    BY IdFacts DEF FreeIpaRunner, IInv, ReadyFresh, HomeJob, HomeIn
<1>2. PICK done \in {Completed(NewJob), Errored(NewJob)} :
        /\ board' = UpdateOnBoard(<<Account, Slurm>>, AddId(r), done)
        /\ Post(Out(<<Account, Slurm>>, <<UpdateMsg(AddId(r), done)>>))
    BY <1>1 DEF FreeIpaRunner
<1>3. done \in Finished
    BY DEF Finished
<1>4. QED
    BY <1>2, <1>3, IdFacts, RunnerStep DEF FreeIpaRunner, UpdateOnBoard


\* add_user: two adds of the fresh jobs to the account board, then the
\* Running report at the request's home, read as three board steps.
LEMMA SlurmRunnerAddUserGood ==
    ASSUME IInv, TypeOK', NEW r \in Requests, SlurmRunnerAddUser(r)
    PROVE  StepGood
<1> DEFINE SA  == <<Slurm, Account>>
           SP  == <<Slurm, Portal>>
           run == Running(NewJob)
           b1  == AddAt(board, SA, ReqId(r), NewJob)
           b2  == AddAt(b1, SA, AddId(r), NewJob)
           b3  == AddAt(b2, Home(ReqId(r)), ReqId(r), run)
           put == PutMsg(AddId(r), NewJob)
           upd == UpdateMsg(ReqId(r), run)
<1>1. TypeOK /\ BoardsOK(board) /\ StreamsCanon(board, wire, queued)
    BY IInvBoards DEF IInv
<1>2. /\ SA \in Pairs /\ SP \in Pairs /\ SA # SP
      /\ NewJob \in JobRec /\ run \in Finished
    BY DispatchAssumption DEF Pairs, NewJob, JobRec, Status, Finished
<1>3. EnvelopeJob(r) = NewJob /\ HomeIn(board, ReqId(r)) = NewJob
    BY IdFacts DEF SlurmRunnerAddUser, IInv, ReadyFresh, HomeJob, HomeIn, EnvelopeJob
<1>4. /\ BoardsOK(b1) /\ HomeKept(board, b1) /\ Grows(board, b1)
      /\ \A id2 \in JobIds : HomeIn(board, id2) = NewJob => HomeIn(b1, id2) = NewJob
    BY <1>1, <1>2, IdFacts, AddStep DEF CanonIn
<1>5. /\ BoardsOK(b2) /\ HomeKept(b1, b2) /\ Grows(b1, b2)
      /\ \A id2 \in JobIds : HomeIn(b1, id2) = NewJob => HomeIn(b2, id2) = NewJob
    BY <1>2, <1>4, IdFacts, AddStep DEF CanonIn
<1>6. /\ BoardsOK(b3) /\ HomeKept(b2, b3) /\ Grows(b2, b3)
      /\ HomeIn(b3, ReqId(r)) = run
      /\ \A id2 \in JobIds \ {ReqId(r)} : HomeIn(b3, id2) = HomeIn(b2, id2)
    BY <1>2, <1>3, <1>4, <1>5, IdFacts, HomeWrite
<1>7. board' = b3
    BY <1>2, <1>3, IdFacts DEF SlurmRunnerAddUser, AddAt
<1>8. HomeKept(board, b3) /\ Grows(board, b3)
    <2>1. HomeKept(board, b2)
        BY <1>4, <1>5, HomeKeptTrans
    <2>2. board \in Boards /\ b1 \in Boards /\ b2 \in Boards /\ b3 \in Boards
        BY <1>1, <1>4, <1>5, <1>6 DEF BoardsOK
    <2>3. Grows(board, b2)
        BY <1>4, <1>5, <2>2, GrowsTrans
    <2>4. QED
        BY <1>6, <2>1, <2>2, <2>3, HomeKeptTrans, GrowsTrans
<1>9. StreamsCanon(b3, wire, queued)
    BY <1>1, <1>8, StreamsKept DEF TypeOK
<1>10. /\ put \in Msg /\ upd \in Msg
       /\ MsgCanon(b3, SA, put) /\ MsgCanon(b3, SP, upd)
    BY <1>2, <1>6, IdFacts DEF PutMsg, UpdateMsg, Msg, MsgCanon, CanonIn, Rev,
                             Finished, Running, NewJob, JobRec, Status
<1>11. StreamsCanon(b3, wire', queued')
    <2> DEFINE out == Out2(SA, <<put>>, SP, <<upd>>)
    <2>1. out \in [{SA, SP} -> Seq(Msg)]
        BY <1>10 DEF Out2
    <2>2. \A p2 \in {SA, SP} : SeqCanon(b3, p2, out[p2])
        BY <1>2, <1>10, SeqOne DEF Out2
    <2>3. Post(out)
        BY <1>3 DEF SlurmRunnerAddUser
    <2>4. QED
        BY <1>1, <1>2, <1>9, <2>1, <2>2, <2>3, PostCanon
<1>12. \A id \in JobIds : pc'[id] = "ready" => HomeIn(b3, id) = NewJob
    BY <1>4, <1>5, <1>6 DEF SlurmRunnerAddUser, IInv, ReadyFresh, HomeJob, TypeOK
<1>13. QED
    BY <1>6, <1>7, <1>8, <1>11, <1>12 DEF StepGood


-----------------------------------------------------------------------------
LEMMA InitIInv == Init => IInv
<1> SUFFICES ASSUME Init PROVE IInv
    OBVIOUS
<1>1. TypeOK
    BY TypeInit
<1>2. \A pr \in Pairs, id \in JobIds : board[pr][id] = NoJob
    BY DEF Init, EmptyBoard
<1>3. \A id \in JobIds : HomeJob(id) = NoJob
    BY <1>2, HomeFacts DEF HomeJob, HomeIn
<1>4. QED
    BY <1>1, <1>2, <1>3, SeqEmpty
       DEF IInv, HomeShape, Vals, BoardsCanon, CanonIn, WireCanon, QueuedCanon,
           ReadyFresh, Init

\* Every step keeps the invariant and never lowers a board's version.
LEMMA NextStep == IInv /\ [Next]_vars => IInv' /\ Grows(board, board')
<1> SUFFICES ASSUME IInv, [Next]_vars PROVE IInv' /\ Grows(board, board')
    OBVIOUS
<1>1. TypeOK'
    BY TypeStep DEF IInv
<1>2. StepGood
    <2>1. CASE \E l \in Links : ClientConnect(l) \/ Disconnect(l)
        BY <2>1, ConnectGood
    <2>2. CASE \E pr \in Pairs : ProcessConnected(pr) \/ ProcessConnectedFailed(pr)
        BY <2>2, ProcessConnectedGood
    <2>3. CASE \E pr \in Pairs : Receive(pr)
        BY <2>3, <1>1, RecvRegisterGood, RecvSyncGood, RecvPutGood, RecvUpdateGood
           DEF Receive
    <2>4. CASE \E r \in Requests : BridgeRun(r) \/ BridgeRunRejected(r)
        BY <2>4, <1>1, BridgeRunGood, BridgeRunRejectedGood
    <2>5. CASE \E r \in Requests : SlurmRunnerAddUser(r) \/ SlurmRunnerNoAccount(r)
        BY <2>5, <1>1, SlurmRunnerAddUserGood, SlurmRunnerNoAccountGood
    <2>6. CASE \E r \in Requests : SlurmRunnerRemoveUser(r) \/ FreeIpaRunner(r)
        BY <2>6, SlurmRunnerRemoveUserGood, FreeIpaRunnerGood
    <2>7. CASE UNCHANGED vars
        BY <2>7, IInvBoards, QuietStep DEF vars
    <2>8. QED
        BY <2>1, <2>2, <2>3, <2>4, <2>5, <2>6, <2>7 DEF Next
<1>3. QED
    BY <1>1, <1>2, GoodIInv

(***************************************************************************)
(* The fabric's consistency invariant: on every board, in every stream and *)
(* queue, a copy of a job is absent, fresh, or the job's home version on   *)
(* the home's link, and a started runner finds the fresh job, however the  *)
(* links drop and reconnect and the handlers and runners interleave.       *)
(***************************************************************************)
THEOREM FabricConsistent == Spec => []IInv
  BY InitIInv, NextStep, PTL DEF Spec

(***************************************************************************)
(* The running agent is never behind the peer it exchanges a job with:     *)
(* Command::update writing the local board before sending, the add rule of *)
(* board.add and of resync keep every upstream copy of a job at or below   *)
(* the version the running agent holds, for every number of requests and   *)
(* drops.                                                                  *)
(***************************************************************************)
THEOREM DestinationNeverBehind == Spec => []DestinationNotBehind
<1>1. IInv => DestinationNotBehind
    <2> SUFFICES ASSUME IInv, NEW pr \in Pairs, NEW id \in JobIds,
                        pr[2] = Dest(id), board[pr][id].version > 1
                 PROVE  board[pr][id].version <= board[Rev(pr)][id].version
        BY DEF DestinationNotBehind
    <2>1. board[pr][id] \notin {NoJob, NewJob}
        BY DEF NoJob, NewJob
    <2>2. Link(pr) = Link(Home(id)) /\ board[pr][id] = HomeIn(board, id)
        BY <2>1 DEF IInv, BoardsCanon, CanonIn
    <2>3. Rev(pr) = Home(id)
        BY <2>2, HomeFacts, DispatchAssumption DEF Pairs, Link, Rev, Home, Dest, Upstream, JobIds
    <2>4. QED
        BY <2>2, <2>3, ValsType DEF IInv, HomeShape, HomeJob, HomeIn
<1>2. QED
    BY <1>1, FabricConsistent, PTL


\* Every entry of canonical boards is a version some runner can write.
LEMMA EntriesVals ==
    ASSUME NEW b, BoardsOK(b), NEW pr \in Pairs, NEW id \in JobIds
    PROVE  b[pr][id] \in Vals
  BY DEF BoardsOK, CanonIn, Vals

\* Between such versions, a newer one is an advance of the lifecycle.
LEMMA AdvanceVals ==
    ASSUME NEW old \in Vals, NEW new \in Vals, new.version > old.version
    PROVE  Life!Advance(old, new)
<1>1. old.version \in 0..1 /\ new.version \in 1..2
    BY ValsType
<1>2. old \in {NoJob, NewJob} /\ new # NoJob
    BY <1>1 DEF Vals, Finished, NoJob, NewJob, Running, Completed, Errored
<1>3. new.state = "Pending" => old = NoJob
    BY <1>1 DEF Vals, Finished, NoJob, NewJob, Running, Completed, Errored
<1>4. new.state # "Absent"
    BY <1>2 DEF Vals, Finished, NoJob, NewJob, Running, Completed, Errored
<1>5. QED
    BY <1>2, <1>3, <1>4 DEF NoJob, NewJob, Terminal, Life!Advance, Life!NoJob, Life!Terminal

LEMMA LifeInit == Init => Life!Init
<1> SUFFICES ASSUME Init PROVE Life!Init
    OBVIOUS
<1>1. \A k \in Pairs \X JobIds : board[k[1]][k[2]] = NoJob
    BY DEF Init, EmptyBoard
<1>2. QED
    BY <1>1 DEF BoardJobs, Life!Init, Life!NoJob, NoJob

LEMMA LifeStep ==
    IInv /\ IInv' /\ Grows(board, board') => [Life!Step]_BoardJobs
<1> SUFFICES ASSUME IInv, IInv', Grows(board, board'), BoardJobs' # BoardJobs
             PROVE  Life!Step
    OBVIOUS
<1>1. BoardsOK(board) /\ BoardsOK(board')
    <2>1. BoardsOK(board)
        BY IInvBoards
    <2>2. BoardsOK(board')
        BY DEF IInv, BoardsOK, Boards, TypeOK, HomeShape, HomeJob, BoardsCanon
    <2>3. QED
        BY <2>1, <2>2
<1>2. BoardJobs' \in [Pairs \X JobIds -> JobRec]
    BY <1>1 DEF BoardJobs, BoardsOK, Boards
<1>3. ASSUME NEW k \in Pairs \X JobIds
      PROVE  BoardJobs'[k] = BoardJobs[k] \/ Life!Advance(BoardJobs[k], BoardJobs'[k])
    <2>1. board[k[1]][k[2]] \in Vals /\ board'[k[1]][k[2]] \in Vals
        BY <1>1, EntriesVals
    <2>2. board'[k[1]][k[2]] = board[k[1]][k[2]]
          \/ board'[k[1]][k[2]].version > board[k[1]][k[2]].version
        BY DEF Grows
    <2>3. QED
        BY <2>1, <2>2, AdvanceVals DEF BoardJobs
<1>4. QED
    BY <1>2, <1>3 DEF Life!Step, Life!JobRec, JobRec, Life!Status, Status

(***************************************************************************)
(* The boards implement the job lifecycle (JobLifecycle, spec section 4.4) *)
(* under the mapping BoardJobs: every step of every handler, runner, drop  *)
(* and resync moves each board entry forward along its job's life (a newer *)
(* version, never out of Complete or Error, never back to Pending or to no *)
(* job) or leaves it alone.                                                *)
(***************************************************************************)
THEOREM LifecycleRefinement == Spec => LifecycleRefined
<1>1. IInv /\ [Next]_vars => [Life!Step]_BoardJobs
    BY NextStep, LifeStep
<1>2. QED
    BY <1>1, LifeInit, FabricConsistent, PTL DEF Spec, LifecycleRefined, Life!Spec

=============================================================================
