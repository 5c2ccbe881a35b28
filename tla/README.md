# TLA+ models of OpenPortal

This directory holds TLA+ models of the OpenPortal agents, the TLC configurations
that check them, and TLAPS proofs. The repository's sources are in `src/` and its
specification is `spec.md`. `PROJECT.json` lists every modelled definition
together with the source lines it translates.

## The system and its parts

OpenPortal is a set of agents joined by encrypted websocket links. An agent is a
portal, a slurm instance or a FreeIPA account service.

- **paddington** provides the transport: `config.rs`, `client.rs`, `eventloop.rs`
  and `crypto.rs`.
- **templemeads** provides the agent runtime: jobs (`job.rs`), the instruction
  grammar (`grammar.rs`), control messages (`control_message.rs`) and the portal
  bridge (`bridge.rs`).
- A request follows the route portal → slurm → account:
  1. A request enters at the portal through the bridge.
  2. It is put on the slurm agent.
  3. The slurm runner (`slurm/src/main.rs`) either finishes it, or creates a job
     for the account agent (`freeipa/src/main.rs`) and waits for that job.
  4. Updates travel back along the same links.
- Each agent keeps one board per peer. After every (re)connection, each side of
  the link registers, resyncs its board and replays the jobs it queued while the
  link was down.

The board, the exchange, `Command::put/update` and the inbound message handler
are **not among the sources**. They are modelled from spec sections 4.3-4.5 and
marked `spec_modelled` in the map.

## Modules

| Module | Models | State | Actions |
|---|---|---|---|
| `Job` | `job.rs` Status, `new`, `completed`, `errored` (plus `running`, from the spec) | a job is `[version, state]`; `NoJob` is an absent entry | operators only |
| `Board` | board add rule and resync merge (from the spec) | a board maps ids to jobs | `Add` (strictly newer wins), `AddOk`, `Merge` |
| `Dispatch` | the three-agent route | `conn`, `drops`, `connected`, `wire`, `queued`, `board`, `registry`, `pc` (runner position), `req`, `instr` | see below |
| `Config` | `config.rs` client/server lists and invitations | `clients`, `servers`, `invites`, `nextKey` | `AddClient`, `RemoveClient`, `AddServer`, `RemoveServer` |
| `Cache` | `cache.rs` `set_report` | `reports` (dates per project), `today`, `backs`, `op` | `SetReport`, `SetReportLocked`, `EvictOldest`, `Insert`, `Tick`, `ClockBack` |
| `Grammar` | `grammar.rs` parse and print | `text`, `parsed`, `sent` | `Parse` (Instruction::new), `Forward` (Display, serde) |
| `JobLifecycle` | the abstract promise of the boards (spec §4.4): a kept job only moves forward | `jobs` (one job per board and id) | `Step` |
| `DispatchInv` | the inductive invariant `IInv` of `Dispatch` | | |
| `WebsocketUrl` | `config.rs` `create_websocket_url`, `ServiceConfig::create/new`, `ServerConfig::from_invite`, `get_websocket_url`, `Defaults::parse`; `portal-svc init` | `cfg` (config directory), `host` (--host), `svcUrl`, `invite`, `server`, `dialled` | `PortalInit`, `AddClient`, `AddServer`, `Dial` |
| `DispatchProofs`, `DispatchRefinement`, `ConfigProofs`, `CacheProofs`, `UrlProofs` | TLAPS proofs about `Dispatch`, `Config`, `Cache` and `WebsocketUrl` | | |
| `MC_*` | TLC instantiations (model values, small sets, symmetry) | | |

### Dispatch actions and the code they translate

- **Transport.**
  - `ClientConnect`: a successful `client::run_once`. Both sides get a Connected message.
  - `Disconnect`: the session ends and everything in flight on the link is lost.
    It is bounded by `MaxDrops`.
- **Connected handling (`process_control_message`).**
  - `ProcessConnected`: sends register, then the board snapshot, then the queued
    list, in that order.
  - `ProcessConnectedFailed`: the `?` at line 20 returns early when the link is
    already down, so nothing is sent.
- **Inbound handler (from the spec).**
  - `RecvRegister`, `RecvSync` and `RecvUpdate`.
  - `RecvPut` starts the receiving runner when the board accepts the put.
- **Bridge (`bridge::run`).**
  - `BridgeRun`: the command parses and the slurm agent has registered, so the
    job is put.
  - `BridgeRunRejected`: the command does not parse, or the result is `NoPortal`.
- **Slurm runner (`runner`).** Each branch is one atomic step.
  - `SlurmRunnerAddUser`: the AddUser branch up to `waiter.result()`.
    - It is written as the code has it: the upstream job is added to the account
      board, and the waiter waits on that job's id.
  - `SlurmRunnerNoAccount`: the request is refused with `NoAccount`.
  - `SlurmRunnerRemoveUser`: the request is completed at once.
  - The continuation after `waiter.result()` (main.rs 145-183) is not modelled.
    `"waiting"` is a final runner position, so the model says nothing about
    whether an add_user request completes (see the hazards below).
- **FreeIPA runner (`freeipa_runner`).**
  - `FreeIpaRunner`: the job completes, or it errors when a FreeIPA call fails.

A message put while the link is down is kept on `queued`. This follows spec
§5: a send to an unconnected peer is queued and replayed.

`Dispatch` also defines `BoardJobs`, every board's job for every id, and
`LifecycleRefined`: `JobLifecycle` instantiated with `jobs <- BoardJobs`. It holds
when every step of the fabric moves each board entry forward or leaves it alone.

### WebsocketUrl: the URL a client dials

A URL text is a record of its parts, in one of three forms:

- "hier": `scheme://host[:port]path`;
- "opaque": `word:digits`, which the url crate reads as scheme `word` and path
  `digits`;
- "bare": a word without a colon, which does not parse.

`UrlParse` models what `url::Url` answers. `port()` is absent when the port equals
the scheme's default. An empty path of a special scheme reads as `/`.

`Format` models `format!("{}://{}:{}{}")`. An opaque path's digits run on into
the port. A digit string is a record of its value and its `shift`, 10 to the
number of its digits, so that the port written is `port * shift + value`.
`UrlAssumption` ties `shift` to a power of ten; the proofs use only that it is
a natural number. The empty path and the missing scheme are named (`EmptyPath`,
`NoScheme`) rather than written as `""` in the operators that use them.

The actions:

- `PortalInit` is `portal-svc init`:
  - an existing directory without `--force` bails;
  - with `--force`, the directory is removed first;
  - then `ServiceConfig::create` stores `create_websocket_url(--host)`, or fails.
- `AddClient` writes the service URL into the invitation.
- `AddServer` is `from_invite`, which converts the URL a second time.
- `Dial` is `get_websocket_url`.

`portal-svc` calls `paddington::config::create`, which `config.rs` does not
define. The model takes `ServiceConfig::create` as what that call does.

## Runs

| Run | Expect | Checks | Bounds |
|---|---|---|---|
| dispatch_drops | pass | TypeOK, DestinationNotBehind, IInv, LifecycleRefined, Convergence, RemoveUserTerminalWithoutDrops | 1 request, 1 drop per link (143,688 states) |
| dispatch_noaccount_race | violation | NoSpuriousNoAccount | no drops: finding 4 |
| dispatch_removeuser_lost | violation | RemoveUserEventuallyTerminal | 1 drop: finding 1 |
| config_pairing | pass | NamesUnique, ServerKeysIdentify | 3 services, 3 keys, symmetry (68,818 states) |
| cache_bound | pass | TypeOK, CacheBounded, CachedNotAfterCapturedToday, SetReportReturnsClockForward | 2 projects, days 0..4, Cap 2, 1 clock-back (73,836 states) |
| cache_clockback | violation | SetReportReturns | 1 clock-back: finding 2 |
| grammar_roundtrip | pass | TypeOK, RoundTrip | every command over the alphabet up to the sizes in `MC_Grammar` |
| grammar_dropped | violation | NothingDropped | finding 3 |
| url_pipeline | pass | TypeOK, DialsTypedHost | 6 schemes, ports 80/443/8042, `h:8042`, `h`, the default URL |
| url_typed_port | violation | ReachesTypedPort | findings 5 and 6 |

### Why the bounds are enough

- **Dispatch.**
  - One drop per link is enough to lose a put, an update or a snapshot in flight.
  - One drop is also enough for the reconnect path to replay queued messages
    after a resync.
  - A second drop repeats the same cases.
- **Cache.** A cap of 2 makes the eviction loop run, and a cap of 30 behaves the
  same way. Five days give more dates than the cap.
- **Config.** Three keys allow an add, a remove and a re-add of one pairing.
- **IInv** is checked in dispatch_drops. A run with two requests takes several
  minutes and adds nothing, because the invariant's clauses are per job. With
  two drops per link (565,126 states) it also holds.
- **WebsocketUrl.** The ports 80 and 443 are the defaults of the special
  schemes, and 8042 is not a default. "ftp" is special with default 21, and
  "foo" is not special. Together they reach every branch of `port()` and
  `path()` and of the scheme match.
- **Grammar.**
  - The alphabet keeps apart every character the parsers treat differently:
    separators, the space, and other whitespace.
  - Fields of length up to 2 include empty fields, whitespace-only fields and
    fields with inner whitespace.

The Dispatch runs, `url_pipeline` and `cache_bound` set `CHECK_DEADLOCK FALSE`.
In WebsocketUrl, each run of the CLI ends after one command. In Dispatch, a
finished system really stops: every request is done and the links are up. In
`cache_bound`, the eviction loop may spin in place, which a stuttering state
cannot tell apart from a deadlock.

### Fairness

- **Dispatch** assumes weak fairness of:
  - reconnect, because `client::run` retries forever;
  - Connected handling and message receipt, because each is a tokio task;
  - every started runner.

  Drops and bridge submissions are the environment's, so they get no fairness.
- **Cache** assumes weak fairness of the steps of a call already in progress.
  The tokio RwLock grants the lock to a waiting writer, and a running loop keeps
  running.

## What is proved

`DispatchProofs.tla` proves **`TypeCorrect`**: `Spec => []TypeOK` for every value
of the constants. It assumes only `DispatchAssumption`: three distinct agents, a
nonempty set of requests, and `MaxDrops ∈ Nat`.

TypeOK is inductive by itself, so no strengthening is needed. The proof has one
step per action, and under each step one sub-step per variable the action
writes. It rests on these lemmas:

- `AddType` and `MergeType`: the board operators keep boards typed;
- `ConcatMsgs`: appending messages keeps a wire a sequence of messages;
- `PostType`: exchange send keeps wires and queues typed;
- `PairFacts`.

`ConfigProofs.tla` proves **`ConfigTypeCorrect`** and **`NamesAreUnique`**
(`Spec => []NamesUnique`) from `ConfigAssumption`. NamesUnique speaks of
cardinalities and is not inductive by itself. The inductive invariant `IInv` is
TypeOK together with `UniqueNames`: two entries of one list with the same name
are equal. The proof has one step per operation:

- `AddFresh`: the duplicate check of add_client/add_server makes a new entry's
  name unused.
- `RemoveSome`: removal keeps names unique.
- `NamedAtMostOne`: uniqueness turns into the cardinality bound, through
  `FS_EmptySet` and `FS_Singleton`.

`ConfigProofs.tla` also proves **`ServerKeysIdentifyService`**
(`Spec => []ServerKeysIdentify`): a client entry that holds the keys of a
server entry belongs to the service the server entry names. An invitation does
not name the client it was issued for (config.rs 518), so it may be loaded by
the wrong peer or after its client entry was removed; the theorem says its keys
never authenticate anyone else. The property is not inductive, since
it says nothing of invitations that are not yet loaded. The strengthening
`KeyInv` (in `ConfigProofs.tla`; TLC checked it on the config_pairing instance
when it was written) states three things:

- no key in use is above the counter of generated keys;
- a client entry holding an invitation's keys belongs to the service that
  wrote it;
- every server entry is a loaded invitation.

`add_client` draws the key `nextKey + 1`, above every key in use, and gives it
to one client entry and one invitation of the same service. The removals and
`add_server` only shrink the client lists or copy an invitation
(`ShrinkKeeps`). The proof uses `IInv` for the types.

`CacheProofs.tla` proves **`CacheStaysBounded`** (`Spec => []CacheBounded`) and
**`CacheTypeCorrect`** from `CacheAssumption`, with `IInv == TypeOK /\ CacheBounded`.
TypeOK is needed because the cardinality facts (`FS_AddElement`,
`FS_RemoveElement`) apply only to finite sets, and a project's dates are finite
because they are a subset of `0..MaxDay`.

- `Insert` adds one date only when the loop condition `>= Cap` is false, so the
  count stays at or below Cap.
- `EvictOldest` never adds a date.
- The clock steps do not touch the reports.

`DispatchProofs` states TypeCorrect through two lemmas, `TypeInit` and
`TypeStep`, which `DispatchRefinement` reuses.

`DispatchRefinement.tla` proves three theorems, from `DispatchAssumption` only:

- **`FabricConsistent`**: `Spec => []IInv`;
- **`DestinationNeverBehind`**: `Spec => []DestinationNotBehind`;
- **`LifecycleRefinement`**: `Spec => LifecycleRefined`.

DestinationNotBehind is not inductive. A snapshot, put or update in flight can
carry any job, as far as TypeOK knows. The strengthening `IInv` (in
`DispatchInv.tla`, checked by the run dispatch_drops) gives every job a
**home**: the board its runner keeps for the agent that put it. It states:

- The home holds the fresh job, nothing, or the fresh job moved on once by its
  runner (`HomeShape`).
- Every other copy of the job is either the fresh job or nothing, or it equals
  the home job and sits on the home's link. This holds on every board, in every
  message on a wire and in every queued message (`BoardsCanon`, `WireCanon`,
  `QueuedCanon`).
- A put carries the fresh job towards its home.
- A runner started by `RecvPut` finds the fresh job at home (`ReadyFresh`).

The proof has one lemma per action (`...Good`), each showing three things:

- the step keeps the boards canonical;
- it only grows them (`Grows`);
- it keeps the wires and queues canonical against the new boards.

`AddStep` and `MergeStep` do this for the board operators, and `StreamsKept` and
`PostCanon` do it for the message sequences. `NextStep` combines the lemmas.

For the refinement, the same invariant gives `LifeStep`: every step moves each
board entry forward, as `JobLifecycle!Advance` requires, or leaves it alone. The
initial boards are the abstract initial state (`LifeInit`). The theorem then
follows by PTL.

`UrlProofs.tla` proves two theorems about the URL pipeline, from
`UrlAssumption` (ports are numbers, a digit string's value and shift are
numbers, the markers `NoHost` and `NoDigits` are no host and no digit string)
and `MarkerAssumption` (`NoUrl` is not a text the operator may type):

- **`UrlTypeCorrect`**: `Spec => []TypeOK`;
- **`DialsOperatorsHost`**: `Spec => []DialsTypedHost`.

DialsTypedHost is not inductive: it speaks of `dialled` and `host` only, and a
step of `Dial` would need to know where `server` came from. The strengthening
`UrlInv` (in `UrlProofs.tla`, proved as the lemma `UrlConsistent`:
`Spec => []UrlInv`) links the chain: `svcUrl` is
`create_websocket_url(host)`, the invitation is `svcUrl` or nothing, `server` is
`create_websocket_url(invite)` when it is an entry, and `dialled` is `server`.
It also keeps TypeOK, since the type of each link comes from the one before.

The argument rests on lemmas about the operators:

- `InputShapes`: every typed input and every websocket text is hierarchical,
  opaque or bare;
- `HierCreate`: `create_websocket_url` of a hierarchical URL fails or gives a
  websocket text with the same host and the scheme `WsScheme` of its scheme;
- `OpaqueCreate` and `BareCreate`: the other forms give a websocket text
  (`wss://localhost:8080digits`) or an error;
- `CreateType` combines the three;
- `WsSchemeIdem`: `WsScheme` is idempotent, so the second conversion in
  `from_invite` keeps the scheme the first chose.

`StepInv` has one step per action. `PortalInit` runs only while `host` is
unset, when the invariant leaves nothing else set (`Empty`). `InvDials` then
derives DialsTypedHost by applying `HierCreate` twice.

`CacheProofs.tla` also proves **`CapturedTodayCoversCache`**
(`Spec => []CachedNotAfterCapturedToday`). `set_report` reads today once
(cache.rs 129), before it waits for the write lock, and the eviction loop
(lines 153-159) starts its search for the oldest date from that captured value.
The property says that, as long as the clock was never set back, every date
cached for the project of a call in progress is at or before the captured
today, so the search always starts above every cached date and the loop ends.
Without the future-date check (line 131), a report dated after today would be
cached and break it. The strengthening `ForwardInv`, under `backs = 0`, states:

- every cached date of every project is at or before the clock's today;
- a call in progress captured a today at or before the clock's, and its date is
  at or before the captured today;
- every date cached for the call's project is at or before the captured today.

`NextForward` has one step per action. `Insert` adds the call's own date, which
the future-date check bounded by the captured today. `Tick` only moves the clock
forward. `ClockBack` sets `backs` above 0, where the invariant says nothing: that
case is finding 2, which TLC shows with cache_clockback.

## Only model-checked

- **Liveness:** `Convergence`, `RemoveUserEventuallyTerminal`,
  `RemoveUserTerminalWithoutDrops`, `SetReportReturns` and
  `SetReportReturnsClockForward`. The two conditional properties are the passing
  halves of findings 1 and 2. A request submitted while no link has dropped
  finishes unless a drop follows. A call made before the clock was ever set back
  returns. TLAPS does not handle liveness under fairness or ENABLED.
- **WebsocketUrl's `ReachesTypedPort`** is violated (findings 5 and 6), so there
  is nothing to prove. The link between a digit string's `shift` and its
  number of digits (a power of ten) is checked by TLC on the instance; the
  provers do not handle `10^k`, and no theorem needs it.
- **The Grammar module** uses sequence folds and `SetToSortSeq`. What they
  compute for every input would need induction over data, which the provers
  cannot instantiate.

## Not modelled

- **Cryptography** (`crypto.rs`).
- **The websocket handshake and TLS.** These are abstracted to a successful
  connect.
- **The portal-svc `client` subcommands.** `main()` parses them but handles only
  `init`, so they change nothing.
- **Configuration file load/save and IP parsing.**
- **`ServerConfig::new`.** No code calls it.
- **The cache's other setters.** They are independent map inserts under the same
  lock.
- **`bridge::status`** (read only).
- **Destination paths longer than one hop**, and handlers other than the three
  runners.

## Findings

1. **control_message.rs:24.** A put lost in flight comes back through resync but
   is never executed, so the request hangs despite spec scenario 3.
   *Run:* dispatch_removeuser_lost.
2. **cache.rs:152.** If the clock is set back below every cached date, the
   eviction loop never ends and holds the write lock.
   *Run:* cache_clockback.
3. **grammar.rs:299.** `update_homedir` silently ignores extra words, contrary to
   spec §6. *Run:* grammar_dropped.
4. **slurm/src/main.rs:97.** With no failure, a request that reaches slurm after
   the account link's handshake, but before the account agent's register message,
   is refused with `NoAccount` and never retried. *Run:* dispatch_noaccount_race
   (8 steps).
5. **config.rs:158.** `port().unwrap_or(8080)` replaces an explicit default port
   by 8080. For example, `--host http://h:80` makes clients dial 8080. A port that
   survives the first conversion (`ftp://h:443` becomes `wss://h:443/`) is lost in
   the second. *Run:* url_typed_port.
6. **portal-svc/src/main.rs:62.** The help text says the protocol is optional.
   But `h:8042` becomes `wss://localhost:80808042`, and every client's
   `add_server` refuses that invitation. *Run:* url_typed_port. TLC prints the
   `http://h:80` trace first. `h:8042` breaks the same invariant in the same
   four steps.

## Hazards without a property

- `init --force` removes the old configuration before it creates the new one.
  When creation fails, no configuration is left. The model reaches this state,
  but no claim in the code or the spec says init is all-or-nothing.
- `add_user` (slurm/src/main.rs 123-144) adds a job to the account board and
  then waits on a job id. Whether that waiter ever resolves depends on the
  account agent updating the awaited id, and the continuation after the waiter
  (lines 145-183) is not modelled, so no property says an add_user request
  completes.
