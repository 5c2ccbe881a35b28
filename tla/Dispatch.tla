------------------------------ MODULE Dispatch ------------------------------
(***************************************************************************)
(* The job dispatch fabric of the agent runtime, for the route             *)
(*                                                                         *)
(*      Portal  --put-->  Slurm (instance)  --put-->  Account (freeipa)    *)
(*              <-update--                  <-update--                     *)
(*                                                                         *)
(* A request enters at the portal through the bridge (bridge.rs run) and   *)
(* is put to the slurm instance agent.  The slurm runner                   *)
(* (slurm/src/main.rs runner) either finishes it at once (remove_user) or  *)
(* creates a second job for the account agent, puts it there, reports the  *)
(* request as Running upstream and waits on its account board.  The        *)
(* freeipa runner (freeipa/src/main.rs) executes the jobs it is given.     *)
(*                                                                         *)
(* Each agent keeps one board per peer (board[<<a, p>>] is the board agent *)
(* a keeps for peer p).  Each direction of a link is an ordered stream     *)
(* (wire); a message put while the link is down waits in the queued list.  *)
(* A link can drop (losing what is in flight) and the client side          *)
(* reconnects forever (paddington/src/client.rs run).  After every         *)
(* handshake each side handles a Connected control message                 *)
(* (templemeads/src/control_message.rs): register, sync_board, send_queued.*)
(*                                                                         *)
(* The exchange, the board, Command::put/update and the inbound handler    *)
(* are not among the sources; they follow the spec (sections 4.3 - 4.5).   *)
(***************************************************************************)
EXTENDS Naturals, Sequences, Board

CONSTANTS
    Portal, Slurm, Account,   \* the three agents of the route
    Requests,                 \* the requests the bridge may submit
    MaxDrops                  \* how often each link may drop

ASSUME DispatchAssumption ==
    /\ Portal # Slurm /\ Slurm # Account /\ Portal # Account
    /\ Requests # {}
    /\ MaxDrops \in Nat

VARIABLES
    conn,       \* conn[l]: is link l up (a live entry in the exchange)?
    drops,      \* drops[l]: how often link l has dropped so far
    connected,  \* connected[<<a, p>>]: a Connected control message for p
                \* is waiting to be handled by a
    wire,       \* wire[<<a, p>>]: messages in flight from a to p
    queued,     \* queued[<<a, p>>]: messages a could not send to p
    board,      \* board[<<a, p>>]: the board a keeps for peer p
    registry,   \* registry[a]: the peers whose agent type a has learnt
    pc,         \* pc[id]: where the runner of job id is
    req,        \* req[r]: has the bridge submitted request r?
    instr       \* instr[r]: the instruction of request r

vars == <<conn, drops, connected, wire, queued, board, registry, pc, req, instr>>

Agents == {Portal, Slurm, Account}
Links  == {{Portal, Slurm}, {Slurm, Account}}
Pairs  == {<<Portal, Slurm>>, <<Slurm, Portal>>, <<Slurm, Account>>, <<Account, Slurm>>}

Link(pr) == {pr[1], pr[2]}
Rev(pr)  == <<pr[2], pr[1]>>
Up(pr)   == conn[Link(pr)]

\* A request r is the job ReqId(r) that the portal puts to the slurm
\* agent; for add_user the slurm runner creates the job AddId(r) for the
\* account agent.
ReqId(r) == <<r, "req">>
AddId(r) == <<r, "add">>
JobIds   == Requests \X {"req", "add"}

\* The agent that runs a job.
Dest(id) == IF id[2] = "req" THEN Slurm ELSE Account

Instructions == {"add_user", "remove_user", "invalid"}

Msg ==
    [kind : {"register"}] \cup
    [kind : {"sync"}, snap : [JobIds -> JobRec]] \cup
    [kind : {"put", "update"}, id : JobIds, job : JobRec]

PutMsg(id, job)    == [kind |-> "put", id |-> id, job |-> job]
UpdateMsg(id, job) == [kind |-> "update", id |-> id, job |-> job]

(***************************************************************************)
(* Exchange send: out maps some pairs <<a, p>> to the messages a sends to  *)
(* p, in order.  On a live link they go on the wire; otherwise they are    *)
(* kept on the queued list for replay after the next Connected.            *)
(***************************************************************************)
Post(out) ==
    /\ wire'   = [pr \in Pairs |-> IF pr \in DOMAIN out /\ Up(pr)
                                     THEN wire[pr] \o out[pr] ELSE wire[pr]]
    /\ queued' = [pr \in Pairs |-> IF pr \in DOMAIN out /\ ~Up(pr)
                                     THEN queued[pr] \o out[pr] ELSE queued[pr]]

\* The messages of one send, and of two sends to different peers.
Out(pr, ms) == [x \in {pr} |-> ms]
Out2(pr1, ms1, pr2, ms2) == [x \in {pr1, pr2} |-> IF x = pr1 THEN ms1 ELSE ms2]

\* Command::update(job).send_to(p) by agent a: the job is written to the
\* board a keeps for p, then sent.  (Command::put is the same, downstream.)
UpdateOnBoard(pr, id, job) == [board EXCEPT ![pr] = Add(@, id, job)]

-----------------------------------------------------------------------------
Init ==
    /\ conn      = [l \in Links |-> FALSE]
    /\ drops     = [l \in Links |-> 0]
    /\ connected = [pr \in Pairs |-> FALSE]
    /\ wire      = [pr \in Pairs |-> <<>>]
    /\ queued    = [pr \in Pairs |-> <<>>]
    /\ board     = [pr \in Pairs |-> EmptyBoard(JobIds)]
    /\ registry  = [a \in Agents |-> {}]
    /\ pc        = [id \in JobIds |-> "idle"]
    /\ req       = [r \in Requests |-> "unsent"]
    /\ instr     = [r \in Requests |-> "invalid"]

(***************************************************************************)
(* Transport.                                                              *)
(***************************************************************************)

\* client::run reconnects after every session; a successful handshake
\* registers the connection and gives each side a Connected message.
ClientConnect(l) ==
    /\ ~conn[l]
    /\ conn'      = [conn EXCEPT ![l] = TRUE]
    /\ connected' = [pr \in Pairs |-> IF Link(pr) = l THEN TRUE ELSE connected[pr]]
    /\ UNCHANGED <<drops, wire, queued, board, registry, pc, req, instr>>

\* The session ends: the exchange forgets it and what is in flight is
\* lost.  Boards and queued lists are kept (the Disconnected control
\* message is only logged).
Disconnect(l) ==
    /\ conn[l]
    /\ drops[l] < MaxDrops
    /\ conn'  = [conn EXCEPT ![l] = FALSE]
    /\ drops' = [drops EXCEPT ![l] = @ + 1]
    /\ wire'  = [pr \in Pairs |-> IF Link(pr) = l THEN <<>> ELSE wire[pr]]
    /\ UNCHANGED <<connected, queued, board, registry, pc, req, instr>>

\* Mutant: the Connected handler skips sync_board.
ProcessConnectedNoSync(pr) ==
    /\ connected[pr]
    /\ Up(pr)
    /\ connected' = [connected EXCEPT ![pr] = FALSE]
    /\ wire'   = [wire EXCEPT ![pr] = @ \o (<<[kind |-> "register"]>> \o queued[pr])]
    /\ queued' = [queued EXCEPT ![pr] = <<>>]
    /\ UNCHANGED <<conn, drops, board, registry, pc, req, instr>>

(***************************************************************************)
(* process_control_message(Connected) by agent pr[1] for peer pr[2]:       *)
(* register, then sync_board, then send_queued.  If the register send      *)
(* fails (the link is already down) the handler returns at the `?` and     *)
(* neither the board nor the queue is sent.                                *)
(***************************************************************************)
ProcessConnected(pr) ==
    /\ connected[pr]
    /\ Up(pr)
    /\ connected' = [connected EXCEPT ![pr] = FALSE]
    /\ wire'   = [wire EXCEPT ![pr] = @ \o (<<[kind |-> "register"],
                                             [kind |-> "sync", snap |-> board[pr]]>>
                                            \o queued[pr])]
    /\ queued' = [queued EXCEPT ![pr] = <<>>]
    /\ UNCHANGED <<conn, drops, board, registry, pc, req, instr>>

ProcessConnectedFailed(pr) ==
    /\ connected[pr]
    /\ ~Up(pr)
    /\ connected' = [connected EXCEPT ![pr] = FALSE]
    /\ UNCHANGED <<conn, drops, wire, queued, board, registry, pc, req, instr>>

(***************************************************************************)
(* The inbound handler of agent pr[2] takes the next message from pr[1].   *)
(***************************************************************************)
\* Mutant: the connection key recorded instead of the peer.
RecvRegisterWrongKey(pr) ==
    /\ wire[pr] # <<>>
    /\ Head(wire[pr]).kind = "register"
    /\ wire'     = [wire EXCEPT ![pr] = Tail(@)]
    /\ registry' = [registry EXCEPT ![pr[2]] = @ \cup {pr}]
    /\ UNCHANGED <<conn, drops, connected, queued, board, pc, req, instr>>

RecvRegister(pr) ==
    /\ wire[pr] # <<>>
    /\ Head(wire[pr]).kind = "register"
    /\ wire'     = [wire EXCEPT ![pr] = Tail(@)]
    /\ registry' = [registry EXCEPT ![pr[2]] = @ \cup {pr[1]}]
    /\ UNCHANGED <<conn, drops, connected, queued, board, pc, req, instr>>

RecvSync(pr) ==
    /\ wire[pr] # <<>>
    /\ Head(wire[pr]).kind = "sync"
    /\ wire'  = [wire EXCEPT ![pr] = Tail(@)]
    /\ board' = [board EXCEPT ![Rev(pr)] = Merge(@, Head(wire[pr]).snap)]
    /\ UNCHANGED <<conn, drops, connected, queued, registry, pc, req, instr>>

\* A put that the board accepts starts the runner of the receiving agent.
RecvPut(pr) ==
    LET m == Head(wire[pr]) IN
    /\ wire[pr] # <<>>
    /\ m.kind = "put"
    /\ wire'  = [wire EXCEPT ![pr] = Tail(@)]
    /\ board' = UpdateOnBoard(Rev(pr), m.id, m.job)
    /\ pc'    = IF AddOk(board[Rev(pr)], m.id, m.job)
                  THEN [pc EXCEPT ![m.id] = "ready"] ELSE pc
    /\ UNCHANGED <<conn, drops, connected, queued, registry, req, instr>>

RecvUpdate(pr) ==
    LET m == Head(wire[pr]) IN
    /\ wire[pr] # <<>>
    /\ m.kind = "update"
    /\ wire'  = [wire EXCEPT ![pr] = Tail(@)]
    /\ board' = UpdateOnBoard(Rev(pr), m.id, m.job)
    /\ UNCHANGED <<conn, drops, connected, queued, registry, pc, req, instr>>

(***************************************************************************)
(* bridge.rs run: parse the command and put the job to the next hop.  It   *)
(* is refused when the command does not parse or when the agent it goes    *)
(* to has not registered yet (NoPortal).                                   *)
(***************************************************************************)
BridgeRun(r) ==
    /\ req[r] = "unsent"
    /\ Slurm \in registry[Portal]
    /\ \E i \in Instructions \ {"invalid"} : instr' = [instr EXCEPT ![r] = i]
    /\ req'   = [req EXCEPT ![r] = "sent"]
    /\ board' = UpdateOnBoard(<<Portal, Slurm>>, ReqId(r), NewJob)
    /\ Post(Out(<<Portal, Slurm>>, <<PutMsg(ReqId(r), NewJob)>>))
    /\ UNCHANGED <<conn, drops, connected, registry, pc>>

BridgeRunRejected(r) ==
    /\ req[r] = "unsent"
    /\ \E i \in Instructions :
          /\ i = "invalid" \/ Slurm \notin registry[Portal]
          /\ instr' = [instr EXCEPT ![r] = i]
    /\ req' = [req EXCEPT ![r] = "rejected"]
    /\ UNCHANGED <<conn, drops, connected, wire, queued, board, registry, pc>>

(***************************************************************************)
(* The slurm runner, for the request job it was put (envelope.job()).      *)
(* When the runner returns, the runtime sends the job it returned (or, on  *)
(* an Err, the job marked Error) back to the sender.                       *)
(***************************************************************************)
EnvelopeJob(r) == board[<<Slurm, Portal>>][ReqId(r)]

\* add_user: put the job for the account agent, report Running upstream
\* and block on a waiter of the account board.  As written, the runner
\* adds the request job itself (not add_job) to the account board and
\* waits for the request's id there.  The continuation after the waiter
\* (lines 145-183) is not modelled: "waiting" is final, so the model says
\* nothing about whether the request completes.
SlurmRunnerAddUser(r) ==
    LET job == EnvelopeJob(r)
        run == Running(job)
    IN
    /\ pc[ReqId(r)] = "ready"
    /\ instr[r] = "add_user"
    /\ Account \in registry[Slurm]
    /\ board' = [board EXCEPT
                   ![<<Slurm, Account>>] = Add(Add(@, ReqId(r), job), AddId(r), NewJob),
                   ![<<Slurm, Portal>>]  = Add(@, ReqId(r), run)]
    /\ Post(Out2(<<Slurm, Account>>, <<PutMsg(AddId(r), NewJob)>>,
              <<Slurm, Portal>>,  <<UpdateMsg(ReqId(r), run)>>))
    /\ pc' = [pc EXCEPT ![ReqId(r)] = "waiting"]
    /\ UNCHANGED <<conn, drops, connected, registry, req, instr>>

\* add_user with no account agent registered: Err(NoAccount).
SlurmRunnerNoAccount(r) ==
    LET done == Errored(EnvelopeJob(r)) IN
    /\ pc[ReqId(r)] = "ready"
    /\ instr[r] = "add_user"
    /\ Account \notin registry[Slurm]
    /\ board' = UpdateOnBoard(<<Slurm, Portal>>, ReqId(r), done)
    /\ Post(Out(<<Slurm, Portal>>, <<UpdateMsg(ReqId(r), done)>>))
    /\ pc' = [pc EXCEPT ![ReqId(r)] = "done"]
    /\ UNCHANGED <<conn, drops, connected, registry, req, instr>>

\* Mutant: the update is sent without writing the local board.
SlurmRunnerRemoveUserNoLocalWrite(r) ==
    LET done == Completed(EnvelopeJob(r)) IN
    /\ pc[ReqId(r)] = "ready"
    /\ instr[r] = "remove_user"
    /\ Post(Out(<<Slurm, Portal>>, <<UpdateMsg(ReqId(r), done)>>))
    /\ pc' = [pc EXCEPT ![ReqId(r)] = "done"]
    /\ UNCHANGED <<board, conn, drops, connected, registry, req, instr>>

\* Mutant: the completed job is written locally but never sent upstream.
SlurmRunnerRemoveUserNoSend(r) ==
    LET done == Completed(EnvelopeJob(r)) IN
    /\ pc[ReqId(r)] = "ready"
    /\ instr[r] = "remove_user"
    /\ board' = UpdateOnBoard(<<Slurm, Portal>>, ReqId(r), done)
    /\ pc' = [pc EXCEPT ![ReqId(r)] = "done"]
    /\ UNCHANGED <<wire, queued, conn, drops, connected, registry, req, instr>>

\* remove_user (and every other instruction): completed at once.
SlurmRunnerRemoveUser(r) ==
    LET done == Completed(EnvelopeJob(r)) IN
    /\ pc[ReqId(r)] = "ready"
    /\ instr[r] = "remove_user"
    /\ board' = UpdateOnBoard(<<Slurm, Portal>>, ReqId(r), done)
    /\ Post(Out(<<Slurm, Portal>>, <<UpdateMsg(ReqId(r), done)>>))
    /\ pc' = [pc EXCEPT ![ReqId(r)] = "done"]
    /\ UNCHANGED <<conn, drops, connected, registry, req, instr>>

\* Mutant: the runner is not kept from running again on a job it finished.
FreeIpaRunnerRerun(r) ==
    LET job == board[<<Account, Slurm>>][AddId(r)] IN
    /\ pc[AddId(r)] # "idle"
    /\ \E done \in {Completed(job), Errored(job)} :
          /\ board' = UpdateOnBoard(<<Account, Slurm>>, AddId(r), done)
          /\ Post(Out(<<Account, Slurm>>, <<UpdateMsg(AddId(r), done)>>))
    /\ pc' = [pc EXCEPT ![AddId(r)] = "done"]
    /\ UNCHANGED <<conn, drops, connected, registry, req, instr>>

\* freeipa_runner: the FreeIPA client calls may fail (Err, so the job is
\* marked Error); otherwise job.execute() completes it.
FreeIpaRunner(r) ==
    LET job == board[<<Account, Slurm>>][AddId(r)] IN
    /\ pc[AddId(r)] = "ready"
    /\ \E done \in {Completed(job), Errored(job)} :
          /\ board' = UpdateOnBoard(<<Account, Slurm>>, AddId(r), done)
          /\ Post(Out(<<Account, Slurm>>, <<UpdateMsg(AddId(r), done)>>))
    /\ pc' = [pc EXCEPT ![AddId(r)] = "done"]
    /\ UNCHANGED <<conn, drops, connected, registry, req, instr>>

-----------------------------------------------------------------------------
Receive(pr) ==
    \/ RecvRegister(pr) \/ RecvSync(pr) \/ RecvPut(pr) \/ RecvUpdate(pr)

Next ==
    \/ \E l \in Links : ClientConnect(l) \/ Disconnect(l)
    \/ \E pr \in Pairs :
          \/ ProcessConnected(pr) \/ ProcessConnectedFailed(pr)
          \/ Receive(pr)
    \/ \E r \in Requests :
          \/ BridgeRun(r) \/ BridgeRunRejected(r)
          \/ SlurmRunnerAddUser(r) \/ SlurmRunnerNoAccount(r)
          \/ SlurmRunnerRemoveUser(r) \/ FreeIpaRunner(r)

\* The client loop retries for ever, every inbound message and control
\* message is handled by a task of its own, and every runner that has
\* been started runs.  Drops and submissions are the environment's.
Fairness ==
    /\ \A l \in Links : WF_vars(ClientConnect(l))
    /\ \A pr \in Pairs : /\ WF_vars(ProcessConnected(pr))
                         /\ WF_vars(ProcessConnectedFailed(pr))
                         /\ WF_vars(Receive(pr))
    /\ \A r \in Requests : /\ WF_vars(SlurmRunnerAddUser(r))
                           /\ WF_vars(SlurmRunnerNoAccount(r))
                           /\ WF_vars(SlurmRunnerRemoveUser(r))
                           /\ WF_vars(FreeIpaRunner(r))

Spec == Init /\ [][Next]_vars /\ Fairness

-----------------------------------------------------------------------------
TypeOK ==
    /\ conn      \in [Links -> BOOLEAN]
    /\ drops     \in [Links -> 0..MaxDrops]
    /\ connected \in [Pairs -> BOOLEAN]
    /\ wire      \in [Pairs -> Seq(Msg)]
    /\ queued    \in [Pairs -> Seq(Msg)]
    /\ board     \in [Pairs -> [JobIds -> JobRec]]
    /\ registry  \in [Agents -> SUBSET Agents]
    /\ pc        \in [JobIds -> {"idle", "ready", "waiting", "done"}]
    /\ req       \in [Requests -> {"unsent", "sent", "rejected"}]
    /\ instr     \in [Requests -> Instructions]


(***************************************************************************)
(* The agent that runs a job is never behind the peer it exchanges it      *)
(* with: a peer's board holds a version beyond the first only once the     *)
(* running agent's own board holds it.  This is what Command::update       *)
(* writing the local board before sending, and resync applying the add     *)
(* rule, are for.                                                          *)
(***************************************************************************)
DestinationNotBehind ==
    \A pr \in Pairs, id \in JobIds :
        pr[2] = Dest(id) /\ board[pr][id].version > 1
            => board[pr][id].version <= board[Rev(pr)][id].version

(***************************************************************************)
(* Spec property 4, for the boards at the two ends of every link: once     *)
(* the links stop dropping, the two ends eventually agree, for good, on    *)
(* every job both of them hold (resync after reconnect repairs what was    *)
(* lost in flight).                                                        *)
(***************************************************************************)
Convergence ==
    <>[](\A pr \in Pairs, id \in JobIds :
            board[pr][id].version > 0 /\ board[Rev(pr)][id].version > 0
                => board[pr][id] = board[Rev(pr)][id])

(***************************************************************************)
(* Spec scenario 3 (reconnect convergence): a remove_user request that the *)
(* bridge submitted eventually finishes on the portal's board, also when   *)
(* the connection dies while the request is in flight.                     *)
(***************************************************************************)
RemoveUserEventuallyTerminal ==
    \A r \in Requests :
        (req[r] = "sent" /\ instr[r] = "remove_user")
            ~> board[<<Portal, Slurm>>][ReqId(r)].state \in Terminal

(***************************************************************************)
(* Spec scenario 3 without a failure: a remove_user request that the       *)
(* bridge submitted while no link had dropped eventually finishes on the   *)
(* portal's board, unless a link drops later (then RemoveUserEventually-   *)
(* Terminal is the question, and finding 2 the answer).                    *)
(***************************************************************************)
NoDrops == \A l \in Links : drops[l] = 0

RemoveUserTerminalWithoutDrops ==
    \A r \in Requests :
        (req[r] = "sent" /\ instr[r] = "remove_user" /\ NoDrops)
            ~> (board[<<Portal, Slurm>>][ReqId(r)].state \in Terminal \/ ~NoDrops)

(***************************************************************************)
(* Spec scenario 2 and section 4.6 (a Connected handshake registers the    *)
(* agent type, and the route Portal -> Slurm -> Account is then served):   *)
(* the slurm agent turns a request into an Error only while the account    *)
(* agent is unreachable, i.e. the slurm-account link is down.  The runner  *)
(* decides from agent::account() (slurm main.rs 97), which reads the       *)
(* registry that only the peer's register message fills.                  *)
(***************************************************************************)
NoSpuriousNoAccount ==
    [][\A r \in Requests :
          (/\ board[<<Slurm, Portal>>][ReqId(r)].state # "Error"
           /\ board'[<<Slurm, Portal>>][ReqId(r)].state = "Error")
              => ~conn[{Slurm, Account}]]_vars

(***************************************************************************)
(* The boards implement the job lifecycle of JobLifecycle: every board     *)
(* entry only moves forward, whatever is lost in flight, replayed from the *)
(* queued list or brought back by a resync snapshot (the board add rule,   *)
(* Command::update writing its own board first, and the runners finishing  *)
(* only the fresh job of the put that started them).                      *)
(***************************************************************************)
BoardJobs == [k \in Pairs \X JobIds |-> board[k[1]][k[2]]]

Life == INSTANCE JobLifecycle WITH Keys <- Pairs \X JobIds, jobs <- BoardJobs

LifecycleRefined == Life!Spec

=============================================================================
