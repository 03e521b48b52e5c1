# Metro, in TLA+

TLA+ models of the parts of Metro in which processes, messages, timers and
crashes meet, TLC configurations that check them on small instances, and
TLAPS proofs of their central properties for every instance. Paths are
relative to the repository; line numbers are in `PROJECT.json` (`map`).

## 1. The system

Metro is a daemon on the owner's machine that lets one Claude agent talk on
chat networks. Four kinds of process matter here:

```
 chat networks <-> trains (one child process per network)
                     |  stdin/stdout lines: calls, responses, events
                  daemon (apps/daemon): supervisor, MCP session, approvals, voice
                     |  MCP over HTTP: posts from the runner, a stream to it
                  SDK runner (packages/sdk-runner): inbox, automation, calls, approvals
                     |  async iterator in, messages out
                  Agent SDK (external): one conversation, its turns and transcript
 cron, workers --SQLite file--> runner       mcp.metro.box --long poll--> daemon
 metro command line --lock file--> runner store
```

### Inventory

| Component | State | Operations | Interacts with | What is hard | What makes it correct |
|---|---|---|---|---|---|
| **Runner inbox** (`inbox.ts`, `input-queue.ts`, `session-store.ts`, `session-watch.ts`, `recovery.ts`, `runner.ts`) | queue with three lanes, ledger of unanswered chats, session file, the one unconsumed input | accept, dispatch, read lifecycle events, compact, hang up, stop, recover | SDK events, state file, voice calls | crash between any two steps, restarts with a transcript that knows more than the file, limits | an accepted chat is never lost, revived, deduplicated or reordered; each is settled |
| **Train supervisor** (`stations/supervisor.ts`, `supervisor-io.ts`, `core/protocol.ts`) | `TrainState` per network: process, stopped, failures, timers; pending calls | start, reload (debounced), restart, stop, shutdown, exit, call, response, timeout | child processes, file watcher, MCP tools | continuations after an `await` on an exit, timers that outlive their reason | one reachable process per network, no call waits on a dead process, crash loops end, wanted trains run |
| **Local automation** (`core/automation-store.ts`, `sdk-runner/automation.ts`) | SQLite requests, statuses, receipts; staged request, dispatch fence | submit, finish, poll (resolve, coalesce, prune, stage), dispatch, observe, stop, start | cron, workers, inbox | three kinds of process on one file, crash inside a poll, retention edge | a slot runs at most once and in order, one request of a routine at a time, completion is monotonic |
| **Approvals** (`approvals/pending.ts`, `mcp/permission-relay.ts`, `mcp/policy-gate.ts`, `mcp/server-approvals.ts`, runner `approvals.ts`, `link.ts`, `calls.ts`) | prompts, grants, recent answers, live voice call; asks in the runner | ask, cancel, answer, expire, settle, gate, revoke by call or session | runner posts, owner, mcp.metro.box, voice | posts that fail or overtake each other, revocation racing an allow, bounded lists | only the owner's allow lets a call through, once; revoked means revoked; nobody waits for ever |
| **Lock file** (`cli/lock.ts`) | a path, its age, the pid in it | take, judge, take over, wait, release | concurrent `metro` commands | every pair of system calls is a race | one holder, stale locks go |
| **Task recovery** (`sdk-runner/task-recovery.ts`, `task-ledger.ts`, `task-state.ts`) | one row per worker, failed turn and cut-off chat, with its notice; reminders on their way; who acknowledged what | start, end, remind, acknowledge, settle, evict, stop, recover | inbox, SDK tasks and results, state file | reminders crossing restarts, full ledger, results that name no inputs | no failure is forgotten before the agent dealt with it, none is told more often than allowed |
| **MCP sessions and inbound channels** (`core/events.ts`, `mcp/session*.ts`, `event-store.ts`, `raw-get-stream.ts`, `channels/`) | event bus ring, session slot, replay ledger, chain and attachment buffers of each session, bounded store of frames | publish, initialize, adopt, close, attach stream, relay, buffer, replay, resume, switch live events | trains, the agent's client | sessions replaced while a chain waits for the disk, half-open connections, bounded replay | an event is framed once, none is left behind, a resumed stream has no gap |
| Voice (`voice/`) | shared call, sources, speech queue | open, join, speak, hang up | runner calls, approvals | replaced calls, late speech | speech goes to the call it was meant for |
| mcp.metro.box (`apps/mcp`) | pending approvals in a database | ask, answer, use, expire | daemon long poll | answer lost after it was given | an approval is used once |
| Daemon shell, accounts, uploads, gateway, connectors, api.metro.box, stations, app, scripts | files, tables, vendor sessions | request handlers | | I/O and vendor behaviour | not protocol questions |

Every component, with what is and is not modelled of it, is under
`components` in `PROJECT.json`; what is hard to test, at its line, under
`hazards`.

## 2. The modules

| Module | Models | Extended by |
|---|---|---|
| `RunnerInbox` | runner inbox and the Agent SDK it feeds | `MCRunnerInbox` (TLC), `RunnerInboxProofs` |
| `Mailbox` | abstract: what is promised about each accepted chat, implemented by `RunnerInbox` | |
| `TrainSupervisor` | one network's train and its calls | `MCTrainSupervisor`, `TrainSupervisorProofs` |
| `TaskRecovery` | the ledger of failed work and the reminders about it | `MCTaskRecovery`, `TaskRecoveryProofs`, `TaskRecoveryRefinement` |
| `Duties` | abstract: what is promised about failed work, implemented by `TaskRecovery` | |
| `InboundChannel` | event bus, session slot, relay chains, event store, client streams | `MCInboundChannel`, `InboundChannelProofs` |
| `Automation` | scheduled requests in SQLite, the runner that runs them | `MCAutomation`, `AutomationProofs` |
| `Approvals` | runner, daemon, owner and mcp.metro.box around one prompt list | `MCApprovals`, `ApprovalsProofs` |
| `Lists` | the lists of `Approvals` and `InboundChannel`: elements, order, dropping | `ListProofs` |
| `FileLock` | the lock file, one step per system call | `MCFileLock` |

In every module an action is one handler of the code, from its early returns to
its last write. A `Mutant` operator just above a definition is that
definition with a plausible bug; it is not part of the specification.

**RunnerInbox.** `items`, `lane`, `first` are `InputQueue`; `ledger`, `ledgerOrder` (the
insertion order of its `Map`) and `dispatched` the `Inbox`; `awaiting`, `busy`, `hold` the `SessionWatch`;
`saved`, `savedOrder` (the order of its array), `interrupted`, `savedSession` the state file; `session`,
`transcript`, `sdkQueue`, `turn`, `events` the SDK, which is external: it
consumes inputs, drops an input whose uuid its conversation has, ends turns with
or without naming their inputs, may report a completion late or once more
(`SdkRepeat`, with `Repeats = TRUE`), and forgets everything but the transcript in
a crash. `AcceptChat` remembers, saves and queues; `Dispatch` is one pass of
the async iterator; `ReadStarted` and `ReadFinished` are the run loop's handlers
with the write they end in; `Recover` and `Again` are the two halves of a
start, with a possible crash between them. Inputs are numbers in arrival order, but
nothing sorts by them: `Dispatch` takes the first item of a lane, a save writes the
ledger in its own order, and `Again` queues in the order of the file. Six hours pass for a chat by
`Age`. `fate` and `consumed` are history. `Mailbox` knows none of this: a
chat is open, the agent gets it and begins it, and it is answered, interrupted and
then dealt with, expired or cancelled. `RunnerInbox` maps `given` to
what the transcripts hold, `begun` to `consumed`, `late` to `old`, and `box`
to the fate, except that an open chat is interrupted while the file says so, and
expired once neither ledger nor file has it (`BoxOf`).

**TrainSupervisor.** `proc`, `stopped`, `fails`, `handle` are fields of
`TrainState`. `killGracefully` is waited for, so `halt` followed by the rest of its
caller is `HaltThen`: it puts the rest on `waiting[p]`, and the exit of `p`
makes it `ready`. While something is ready nothing else runs, as
microtasks run before the next callback. `timers` counts restart timers that
run, `handle` says whether `restartTimer` holds one: a timer the code no
longer holds can still fire. `TypeOK` says that without a crossing there is none. `crossed` records that a reload, stop or
shutdown met an earlier one that still waited.

**TaskRecovery.** `rows` is `TaskLedger.rows` and the file at once, because
every change is saved before anything else happens; `deliveries`,
`acknowledged` and `reply` are fields of `TaskRecovery`; `queued` is the note
lane of the inbox. The SDK is external again: it consumes reminders and
chats (`SdkBegin`, `ChatStarted`), lets the agent write markers (`Reply`), ends
turns (`EndTurn`) and reports results and completed inputs, which the run loop
reads later, in order (`ReadStarted`, `ReadResult`, `ReadCompleted`,
`ReadIdle`). `Deliver` is the timer's handler. `Rooms`, `WithRow` and
`Interrupted` are the ledger's eviction. The random tokens of notices and uuids
of reminders are names from a small set; one that nothing refers to
is used again. `shown` and `marks` are history: what the agent saw of a notice
and what it wrote in a turn. `Duties` knows nothing of this: a duty is owed, told
up to a limit, agreed to, settled, or gives way. `TaskRecovery` maps
`owed` to the rows with a notice, `told` to `shown`, and `agreed` to the
successful turns whose result waits to be read.

**InboundChannel.** The daemon is one event loop: what a chain of promises
can do without input or output happens before anything else (`Micro`; `Quiet` in
the guard of every other action), so a chain is seen half done only while it waits
for the disk about a saved file. `delivered` and `startAt` are the replay
ledger, shared by all sessions; each session has its `chain`, attachment
buffers (`pending`) and `store` of frames. `Request` is `replace`, by a new client
or an adopted id; `Closed` what it does to the session before; `Handoff` the
continuation that waits for the closed session's chain. The client
holds its connection, the frames on the wire and its last event id; a
connection may break without the daemon knowing (`LinkBreaks`, then
`SinkCloses`). The feed of a behaviour is one of a few sequences of events,
chosen in `Init`. `boot.ts` calls `startInbound` before the first connection
can come, so sessions need `started`.

**Automation.** A request is a routine and a slot (its uuid is their hash).
`Poll` is the whole of `Automation.poll`: resolve by receipts, coalesce,
prune, stage. `Dispatch` writes the fence, `Yield` gives the input to the SDK, and a
crash may come between. `Crash` leaves any part of the writes of one stage of
a poll, start or stop done (`Torn`), because each status is a transaction of
its own.

**Approvals.** `held` and `grants` are the maps of `pending.ts` in
insertion order; `posts` are HTTP posts from the runner in any order, which
may fail before or after the daemon took them; `answers` are on their way to
the askers. `ToolCall` is a call at the gate: matching prompts are dropped
(`settlePrompts`), then the policy asks for a grant. `live` is the daemon's
voice call, `active` the one the runner believes in. Times are ages with a
limit. Which preview matches which call is the constant `Shows`: an elided
preview matches more than one. What drops entries from a list is `Without` and
`CutAt` of `Lists`, defined without recursion so that it can be reasoned
about.

**FileLock.** `openSync('wx')`, write, `statSync`, read, `unlinkSync`, and the
compare-and-remove of the release are separate steps of each process.

## 3. What TLC checks

All runs pass, except the four marked **violated**, which refute something the
repository says of itself (section 5).

| Run | Checks | Instance |
|---|---|---|
| `inbox_crash` | `NothingLost`, `SettledStaysSettled`, `NeverDeduplicated`, `InOrder`, `KeepsMail` | 3 chats, queue for 2, results without ids, late and repeated completions, 2 crashes, stops or refusals |
| `inbox_lanes` | `TypeOK`, `OneUnconsumed`, `EveryChatSettles` | a chat, call words, 2 notes (one may be a compaction), hangup, held turns, 1 crash |
| `inbox_restore` **violated** | `RestartTakesAll` | 3 chats, queue for 2 |
| `train_restarts` | `TypeOK`, `Tracked`, `NoHangingCall`, `GivesUp`, `WantedRuns` | 4 processes, 2 train objects, 3 reloads or stops, give up after 2, 1 refused spawn, a call |
| `train_double` **violated** | `OneProcess` | 2 reloads |
| `automation_crash` | `TypeOK`, `AtMostOnce`, `OneOpen`, `ReceiptsMatch`, `Forward`, `KeptUntilReceipt`, `Monotonic` | a routine, 3 slots, clock to 3, retention 1, 2 crashes or stops |
| `automation_liveness` | `EverySlotSettles` | 2 routines, a slot each, 1 crash or stop |
| `approvals_gate` | `TypeOK`, `OwnerDecides`, `WaitingIsHeld`, `RevokedLetsNothingThrough`, `EveryAskSettles` | room for 2 prompts and 1 grant; three scenarios: 2 requests for one post (one elided) and one for another server's tool; the 2 with a fault; a speech request and one of mcp.metro.box with 2 voice calls and a fault |
| `approvals_settle` **violated** | `SettledWasClosed` | 2 requests for one post |
| `recovery_duty` | `TypeOK`, `FileReadable`, `HandledStays`, `EachAttemptCounts`, `KeepsDuty`, `RemindersBreedNothing`, `EveryDutyTold` | a worker, a chat, a failing turn, a ledger for 2, 1 reminder each, 3 attempts, 1 crash or stop |
| `channel_relay` | `TypeOK`, `OncePerEvent`, `Accounted`, `NothingStranded`, `OffAirUnheard`, `ResumesInStep`, `EveryMessageSettles` | 2 clients, 3 sessions, feeds of 3 or 4 events, a ring and a store of 2, 1 broken connection, 1 time off the air |
| `lock_takeover` **violated** | `OneHolder` | 3 processes, no crash, no delay |

What the less obvious ones mean:

- `NeverDeduplicated`: the SDK answers a uuid it already has with
  "completed" and does nothing. A replay of a chat consumed just before a
  crash would vanish; looking the chats up in the transcript prevents it.
- `InOrder`: an earlier chat never waits in the queue while a later one goes to the
  SDK. The order passes through the ledger's `Map`, the file's array, `again` and the
  queue, with entries removed at each, and any of them could turn it round.
- `SettledStaysSettled` and `KeepsMail` hold although completions come late or twice: a
  settled chat stays as it is, and one that a restart queued again is not taken for
  answered by what is said of its conversation.
- `KeepsMail` is the refinement `RunnerInbox => Mailbox`. The ledger, the file and
  the transcript change at different moments; still every step, a crash between
  any two of them included, moves each chat as `Mailbox` allows: answered or
  called interrupted only if the agent got it, given up only for its age
  and never once begun, or by Stop, and brought back from none of these ends. It
  does not count how often the agent got a chat (section 5).
- `Tracked`: while no reload or stop crosses another, each live process is
  the one in the map, so it can be called, reloaded and stopped.
  `NoHangingCall` holds through crossings too.
- `Forward`: a slot submitted late does not run behind a newer one, even after
  the newer one's record was pruned and the watermark with it.
- `KeptUntilReceipt`: no turn's result, torn write, restart or age of the record takes
  unresolved work out of the file; a worker's receipt does, or the user's Stop while
  the agent was at it.
- `OwnerDecides`: identical and elided requests compete for grants matched by
  arguments; still each allow lets one call through.
- `RevokedLetsNothingThrough`: after a cancel, a hangup or a closed session, an
  earlier allow is void and a later one has no effect.
- `WaitingIsHeld` and `EveryAskSettles`: only a prompt dropped without an answer
  (`lost`: evicted, settled by a call, daemon gone) leaves its asker waiting.

- `KeepsDuty` is the refinement `TaskRecovery => Duties`: through crashes,
  evictions and results read late, a failure stays owed until a marker for
  *this* failure came in a turn that *succeeded*, the user stopped the session,
  or it was told as often as allowed and its place was taken; and no failure
  is shown to the agent once more than its budget, even when the crash comes between
  the SDK consuming a reminder and the count of it being saved.
- `EachAttemptCounts` and `HandledStays`: a late or repeated end of a worker
  neither reopens an attempt that was dealt with nor hides a newer one.
- `FileReadable`: `savedTasks` refuses a file with more rows than the limit,
  at every start; several rows are noted, and several give way, in one recovery.
- `RemindersBreedNothing` rests on results that name their inputs, as those
  of the SDK in use do. With `Unstamped = TRUE` TLC finds the reminder whose failure
  becomes an obligation, by way of the fallback that only asks whether no chat is open
  and some reminder was consumed.
- `Accounted`: the ledger counts a message as delivered before it is
  framed; every one it counts is framed, in a chain, in a buffer, or was
  a text that waited for its files in a buffer that was thrown away.
- `NothingStranded`: once no chain waits, nothing the bus still holds is left for
  some later reconnect. It is the handoff of the closed session that brings what was
  withheld while the new one had already attached.
- `ResumesInStep`: what was written to a dead connection comes again, once, after
  the client's last id, unless the store has dropped that id.

### Bounds

The bounds are constants of the modules, and each limit of the code is one of
them (`BytesMax`, `LedgerMax`, `MaxFails`, `PendingMax`, `GrantsMax`, the
retention and the ages), so a run meets it with two or three
elements. `MaxStops`, `MaxFaults`, `MaxReloads`, `MaxRefused` and `MaxClock`
bound the environment. Two stops give a crash during the recovery from a
crash; three reloads give one more than the two that can cross; a clock of
3 with retention 1 lets a slot be submitted, run, pruned, and come too late.
Identical requests, elided previews, both kinds of asker and a second voice call
are all there is to tell apart in `Approvals`. In `TaskRecovery` three
kinds of task compete for two rows, so rows give way to others noted in the
same step; three attempts (`MaxWork`) let an attempt be dealt with, a second
one fail and its late end come; two unread results (`HeldMax`) let a turn
begin before the result of the one before it is read; with four tokens for each
task a free one exists in every state (`TokensSuffice` of `TaskRecoveryRefinement`
as an invariant of the same configuration; three do not suffice). In `InboundChannel` ring, ledger and store hold two of three or
four events, so each of them drops something; the third session comes when the first one's chain still waits
while the second has a stream; one photo has two files, one of which fails.
`MaxOffs` counts the times live events are off, one from the start
included. No symmetry is used: chats,
slots and processes are ordered.

`CHECK_DEADLOCK FALSE` is set where a run may stop: the inbox once the user
stopped the session and its bound on stops is used up, a train after
shutdown, the automation when its clock ends, task recovery when all is settled
and the attempts are used up, the channel when its feed has been read. `Approvals` and
`FileLock` never stop.

### Fairness

- `RunnerInbox`: the iterator, the run loop and the SDK go on (weak); a held
  turn is released and a turn ends, strongly, since holds come and go; the
  service manager restarts a runner that died, but nobody has to restart a
  stopped one.
- `TrainSupervisor`: timers fire, ready continuations run, a process told to
  die exits (SIGKILL after two seconds). Healthy processes need not exit,
  and calls need not be answered.
- `Automation`: time passes, a dead runner is started, the input is yielded. Polls with
  an empty input queue, and dispatches, are strongly fair: under steady
  chat a routine may wait, and the code promises no more.
- `TaskRecovery`: the reminder timer and the run loop go on, the SDK consumes
  what it is given, ends its turns and reports every input, and the service
  manager starts a runner that died. The agent never has to write a marker,
  and no turn has to succeed.
- `InboundChannel`: the event loop runs what is ready, the disk answers, timers
  fire, a client that finds its stream ended comes back, and some client
  asks for a session when there is none. Live events need not be turned on.
- `Approvals`: posts arrive or fail, answers arrive, the minute sweep runs,
  mcp.metro.box sends again. The owner never has to answer.

## 4. What is proved

TLAPS proves the following for every number of inputs, routines, slots, processes,
calls, tasks, sessions and events and for all limits, from the named assumptions on the constants
only (finite sets, limits in Nat, `None` outside; of the channel, a ledger no
shorter than the ring and feeds in which a file names an earlier photo).

**RunnerInboxProofs.** `TypeCorrect`, `InputInvariant`, `NothingLostAlways`,
`SettledForGood`, `InOrderAlways`, `OneUnconsumedAlways`,
`NeverDeduplicatedAlways`, `ImplementsMailbox`. The safety properties speak of the
file alone, which no step preserves by itself: a chat leaves the file because the
ledger no longer has it. `InputInv` therefore adds that the file agrees
with the ledger while the process is up (`FileMatches`), that nothing of the
memory survives a crash (`MemoryGone`), that an open chat is in the ledger, or in
the file when there is no ledger (`OpenKept`), that a chat is in one place
and only while open (`OneHome`), and that what the SDK holds or has reported
has left the queue (`SdkApart`), without which a late event could settle a
chat that is queued, and that the lists hold what ledger and file hold
(`ListsMatch`). `NotHeld` is proved beside it: what is queued for the SDK is not in
the conversation this process runs, and what recovery leaves in the file is not in
the transcript that may be resumed. `SdkApart` needs it, since the SDK may repeat a
completion of anything its conversation holds. One lemma per group of actions, then
`InvStep`. Two more invariants rest on these. `Waits`: what the SDK holds unconsumed, or has
reported as started in a message not yet read, is the one input the iterator
waits for, and nothing reported before that start names it; without the last
part a late result would let the iterator go on too early. `AllInLine`: queue, ledger and
file each list the chats in the order they arrived; removing keeps that
(`WithoutKeepsOrder`), a new chat is the latest, and recovery takes the file's order
as it is. `InOrder` follows for the first chat of the lane.

The refinement needs one more, `Traced`: the turn and the SDK's messages tell
only of what the conversation holds, so that a result answers chats the agent got;
a chat marked as started, in the ledger or the file, is in some transcript, so that recovery
calls nothing interrupted that the agent never saw; what the file or the SDK has is in
the ledger while there is one, so that a crash can only lose an old chat
and never revive one that was given up. There is one lemma for each kind of step
(`TracedBegin`, `TracedDown`, `TracedRecover`, ...), which proves `Traced'` and the step of `Mailbox`
together; `TracedQuiet` is for the steps that stutter.

**AutomationProofs.** `DeliveryInvariant`, `AutomationTypes`,
`AtMostOnceAlways`, `OneOpenAlways`, `ReceiptsMatchAlways`,
`MonotonicAlways`, `ForwardAlways`, `KeptUntilReceiptAlways`. `AtMostOnce` needs `SpentFenced`: what
was handed over has a status for as long as its slot is valid, so neither
`Submit` nor the staging of a poll can take it again. Everything the
runner writes at once, whole or torn by a crash, is a *move* (`Moves`): a request
keeps its status, an unresolved one changes it, or a pending one that is not
staged is coalesced. The lemmas show that resolve, coalesce, cancel,
interrupt and any torn part of them are moves, and that moves preserve the
invariant; only submit, dispatch and poll need arguments of their own.
`Forward` needs `ForwardInv`, since pruning forgets the watermark: every
pending slot older than one that ran is *shadowed* by a status at least
as new, or by a newer slot that is due and takes precedence (`Shadowed`).
Pruning keeps this because a slot as old as a pruned one is due, and so is
coalesced in the same poll. `KeptUntilReceipt` needs that every write is `Honest`,
torn ones included: unresolved work stays so, or is resolved by a receipt or by the
user's stop, never by the writer's own judgement; and what is pruned was settled
in an earlier poll.

**TrainSupervisorProofs.** `Inductive`, `Types`, `NoCallHangs`,
`ProcessesAreTracked`, `TrainsAreGivenUp`. `NoHangingCall` is inductive beside
the types: a call is pending only on the process of its object, and what makes
that process exit fails the calls of its owner (`Owned`). The two others
hold only until a reload or stop crosses another, so their invariant is
`Steady`: `~crossed => OneAtATime`. `OneAtATime` says that every living process is
the current one (`Known`), that what waits for an exit is one continuation on
a process being killed (`WaitsForExit`), that while a continuation is ready
nothing lives (`NextIsAlone`), that a restart timer that runs is
the only prospect of a process (`TimerIsAlone`), and that an object not yet made has no
failures (`Fresh`). `Types` includes what `Booked` and `TimerIsAlone` say of restart
timers. `HaltSteady` and `SpawnSteady` carry it through the two
operations everything else is made of. `GivesUp` is an action property: a
spawn comes from a timer or a continuation, and `OneAtATime` leaves neither
for a train that reached its limit.

**TaskRecoveryProofs.** `RowsInvariant`, `RecoveryTypes`,
`EachAttemptCountsAlways`, `HandledStaysAlways`, `FileReadableAlways`. A row is
`Sound` when its notice is about an attempt that exists and was not dealt
with, a running attempt was neither noticed nor dealt with, and what is on
offer may still be told; it `Counts` when a failed attempt is dealt with or
noticed. Neither survives a step alone: a notice is replaced only by one
about the current attempt, and that attempt has not been dealt with because
a chat's row is untouched while the chat is open (`Untouched`) and dealing with it
closes it in the same step. `Fits` is the counting argument: `RoomMade` shows
that what gives way leaves as many places as are taken, `InterruptedKept` that it
does so when rows of one list evict each other.

**TaskRecoveryRefinement.** `DutyInvariant`, `ImplementsDuties`,
`TokensAlwaysSuffice`, `DutiesKept`, `BreedsNothingAlways`: the refinement that
`recovery_duty` checks, for any tasks, limits, batches and crashes. The invariant
`Linked` ties the notices to what is on its way about them: what the agent saw
is what the row counted, and one more while the reminder that is on offer is in
the conversation (`Told`); that reminder was either queued in this process or
is unknown to everything but the conversation (`Offers`); a notice is out under
one uuid at a time (`Blocks`); what is queued has not reached the SDK
(`Waiting`); an input belongs to one turn (`Apart`), counts only for what was
written in it (`Marked`), and only what was seen is written (`SeenFirst`). A crash
empties everything but the rows and the conversation, and `Told` and `Offers`
survive because they speak of these two. `Moved` says what any step may do to
the rows: keep a notice, make a new one, settle one that was agreed to, or lose
one that was told in full while the ledger is left full (`RoomFull`).

A new notice must have a token nothing refers to, in the code 128 random bits.
`ImplementsDuties` assumes it of every state (`TokensSuffice`);
`TokensAlwaysSuffice` shows that it holds when `Tokens` is not finite, since a
step names only tokens in use or in the new rows (`InUseStep`), and `DutiesKept`
combines the two. `BreedsNothingAlways` adds that what an unread result worked on
is a chat or a reminder whose delivery is known (`Remembered`), for an SDK
whose results name their inputs (`Unstamped = FALSE`).

**ApprovalsProofs.** `GateTypes`, `AllowIsSpentOnce`, `WithdrawnStaysWithdrawn`,
`NobodyIsForgotten`. `OwnerDecides` counts calls against allows, but a step
sees only lists and messages. `GateInv` therefore follows a request of a runner on its
one way through the daemon (`OneWay`): early, while nothing of it has arrived;
held; allowed; gone; never in two of these places and never back. A grant is
an allow of the owner's, kept once and not taken yet (`GrantsSound`), an allow on its
way was given (`AllowsSound`), and what was withdrawn has left the daemon, or,
while its ask is still on the way, is bound to a voice call that is over and
will be refused (`Withdrawn`). The lemmas say what each operation on the lists
drops (`HoldType`, `CancelType`, `CallTakes`, ...), `FlowStep` that whatever
only drops keeps the invariant, and `AllowStep`, `HoldStep`, `CallStep` and
`EndStep` are the four that do more. `RevokedLetsNothingThrough` is an action
property: only a call spends, and it spends a grant. `WaitingIsHeld` is
inductive beside the types.

**ListProofs.** The lemmas about the operators of `Lists` which those proofs need:
`Ordered` lists the numbers of a finite set, each once and in order
(`OrderedIs`); `Without`, `CutAt`, `Append`, `Tail` and the concatenation of
two lists keep or drop what they say and repeat nothing. They are inductions, and
the library's induction theorems cannot be instantiated; `Induct` obtains
induction for a *set* of numbers from the well-foundedness of the inclusion
of finite sets, which is stated without an operator.

**InboundChannelProofs.** Two invariants, one about streams and one about
events. `StreamInvariant`, `ResumesInStepAlways`: which events are in
the frames plays no part, what counts is where a client
stands in the store of its session. `InStep` says that the wire of a client that listens
holds the newest frames of the store, and that they start after the frame the
client knows, or the store has dropped that frame; and that an open session
somebody listens to has its sink, since a frame stored without one would
leave a gap. `FrameStep` carries it through whatever sends a frame, and the lemmas
on requests, connections, readers, chains, timers and slots reduce to it or change
no store.

`RelayInvariant`, `ChannelTypes`, `FramedOnce`, `NothingUnaccounted`,
`AttachedIsServed`, `OffAirStaysUnheard`: `RelayInv` says where an event is.
An event has four possible places in a session (`HasOf`): its chain, the note of the
file that is looked up, a buffer that keeps its text, a frame. A session is `Tidy`
when no event is in two of its places nor twice in one, and
sessions share none (`Alone`). What a replay may bring, because the
bus has it and the ledger does not, is nowhere (`Fresh`); so is what was
published off the air, and no replay brings it (`Hidden`). What
the ledger counts and would be missed is somewhere, or its text went with a
buffer (`Known`). None of this is inductive without the others: `OncePerEvent`
alone fails when a replay brings what a chain still holds, and `Fresh` needs
`Alone`, since forgetting an event in one session must not leave it in another.
`Served` adds that with a stream attached, what was not replayed is waited for by
a closed session's handoff; it needs that a closed session with a chain has one
(`Slot`). `LocalStep` covers the steps of one session, `Moves` whatever brings
new events, `Drops` whatever throws buffers away, `ReplayStep` the replay of `Connect`
and `Handoff`. The ledger is a recursive function of the list it is given;
`LedgerRun` shows that the recursion has a solution and `LedgerIs` that it adds the list
and prunes only numbers the ring no longer has. That is where
`PendingMax >= BufferMax` is used (2000 and 500 in the code): a shorter ledger
would forget what a replay can still bring.

**Only model-checked.** Liveness (`EveryChatSettles`, `WantedRuns`,
`EverySlotSettles`, `EveryAskSettles`, `EveryDutyTold`,
`EveryMessageSettles`), which is out of the prover's reach. Every invariant and
action property of a passing run is proved. The four runs that refute a
claim need no proof, and `FileLock` has no other.

## 5. Findings

1. **Two processes for one network** (`train_double`). `restart()` waits for
   the old process and then spawns unconditionally. A second reload during
   the wait halts the same process and waits for the same exit; both
   continuations spawn, and the first new process is beyond reach. The README
   promises one subprocess per network.
2. **A runner that cannot start** (`inbox_restore`). The file may hold a
   full queue and the chat that was handed over and not consumed; `again`
   puts them through the limit for new input and throws, at this and
   every later start.
3. **A prompt dropped while its asker waits** (`approvals_settle`). A call
   that arrives drops every prompt it matches, because "Claude Code already
   closed the prompt"; a second worker of the SDK runner with the same request waits on.
4. **Two holders of the lock** (`lock_takeover`). A waiter that found the file
   gone removes whatever is at the path a moment later, which may be
   somebody's new lock.

What the models show besides, without a run of its own:

- **A chat consumed twice.** `recover` looks inputs up in the transcript of the
  saved session. Accept the very first chat, dispatch it, let the SDK consume it, crash
  before the session id is saved: `Again` finds no transcript and hands the
  chat to a second conversation.
- **The text of a photo message lost.** It waits in the memory of one
  session for the files; if that session is replaced or live events are
  switched off meanwhile, the ledger counts the message as delivered and no frame
  has its text (`gone`).
- **Resume across incarnations.** Event ids start again when a session id is adopted, so a
  client's last id may name a later frame of the new store, and the frames up to
  it are skipped. A client without a last id, or one whose last id the store
  has dropped, gets nothing from the store.
- **Order.** A handoff puts what a closed session withheld behind what the new one
  already got.
- **Ledger full.** `room()` drops a row whose reminders were all told, as
  `docs/HISTORY.md` (11-17) decides in place of an earlier rule, and `Duties` allows
  it. A chat that was cut off and gave way is noted again when room comes, with a
  new budget.

## 6. Not modelled, and why

Stations and the web app (vendor SDKs and user interface), api.metro.box, gateway,
connectors and accounts (request handlers over files and tables, with no protocol
between processes), wording, attachments, formatting, token and digest
computation, file permissions. The matching of previews and the policy's
computation are constants. Backoff times are left out: a timer fires at any time
after it was set.

## 7. Plan

1. The server side of mcp.metro.box approvals composed with `Approvals`: an
   approval is used once although answers are sent again.
2. Voice calls: shared call, replacement, the deduplication of speech actions.
3. An abstract channel that `InboundChannel` refines.
4. Liveness of `FileLock`: a lock left by a dead process, with or without its
   pid, is taken over.
5. Proofs: the abstract channel of 3, as a refinement on top of `RelayInv`.

## 8. Running it

```sh
cd tla
tlc -workers 2 -config RunnerInbox_crash.cfg MCRunnerInbox   # likewise for the other runs
tlapm RunnerInboxProofs.tla
tlapm AutomationProofs.tla
tlapm TrainSupervisorProofs.tla
tlapm TaskRecoveryProofs.tla
tlapm TaskRecoveryRefinement.tla
tlapm ListProofs.tla
tlapm ApprovalsProofs.tla
tlapm InboundChannelProofs.tla
```
