# A TLA+ verification of the OpenRouter rotation proxy

The program is a local proxy that speaks the Anthropic API to Claude clients and
forwards each request to one of several model providers (OpenRouter first of all,
with a pool of API keys that rotates), plus a chat bot that runs the `claude`
command line tool on behalf of Telegram and Discord users.  Both halves are
single-process asyncio programs (one worker thread writes the session file).

This directory holds TLA+ modules translated from that source, TLC configurations
that check them on small instances, and TLAPS proofs for every instance.

- [1. Inventory](#1-inventory)
- [2. Plan](#2-plan)
- [3. The modules](#3-the-modules)
- [4. The runs](#4-the-runs)
- [5. Fairness](#5-fairness)
- [6. The proofs](#6-the-proofs)
- [7. Where the code and its documentation disagree](#7-where-the-code-and-its-documentation-disagree)
- [8. What is not modelled](#8-what-is-not-modelled)

## 1. Inventory

| Component | Source | State | Operations | Hard behaviour |
|---|---|---|---|---|
| Conversation tree queue | `messaging/trees/` | per tree: nodes, queue, busy flag, current node, task | create, add, enqueue, process next, cancel (node, branch, tree, all), remove branch, restore | cancellation of a task that has not started or not ended; removal during processing |
| Message handler, commands, CLI events | `messaging/handler.py`, `commands.py`, `node_event_pipeline.py`, `event_parser.py` | locals of each handler and turn | handle message, process node, `/stop`, `/clear` | everything read before a network call and used after it |
| Session store | `messaging/session.py` | trees, node map, message log, dirty flag, timer | save, remove, clear, flush | debounce timer in another thread, write outside the lock, crash |
| CLI session manager | `cli/manager.py`, `cli/session.py` | sessions by temporary and real id, subprocess | get or create, register, remove, stop all | the lock is held while a process dies; ids of a session that is pending, registered or gone; cancellation at every wait |
| Outgoing message limiter | `messaging/limiter.py` | compacting queue, worker, flood-wait pause | enqueue, fire and forget, shutdown | replaced edits, retries of stale edits, abandoned futures |
| OpenRouter key pool | `providers/open_router/` | key list, current index, health and exhaustion per key | get, rotate, mark exhausted; the send loops | several requests share the index; the answer arrives later than the send |
| Provider limiter | `providers/rate_limit.py`, `core/rate_limit.py` | window of call times, block, semaphore | acquire, wait if blocked, execute with retry, slot | boundary of the window, check before sleep, cancellation of a woken waiter |
| Stream transports | `providers/anthropic_messages.py`, `openai_compat.py`, `core/anthropic/stream_recovery.py` | holdback buffer, emitted blocks, retry counters | stream, early reopen, mid-stream recovery, error tail | a stream that breaks before or after output was committed |
| SSE builder and trackers | `core/anthropic/sse.py`, `emitted_sse_tracker.py`, `native_sse_block_policy.py` | open blocks, indices | start, delta, stop, close | well-formedness under every failure |
| Provider registry | `providers/registry.py`, `api/dependencies.py` | provider and model caches, refresh task | get, refresh, validate, cleanup | cleanup while requests stream |
| Application runtime | `api/runtime.py` | references to all of the above | startup, shutdown, restore | order of shutdown |
| Admin configuration | `api/admin_*.py` | managed env file, pending fields | validate, apply, restart | replaces the registry under running requests |
| Others | API routes, web tools, parsers and conversions, transcript and rendering, platforms, voice, settings | little or none | | sequential data processing |

How they interact.  A platform adapter calls `handle_message`; the handler creates
or extends a tree, saves it in the store and enqueues the node; a processor task
gets a CLI session, reads the events of the `claude` subprocess, writes states to
the tree and saves it; its `finally` clause starts the next node.  Commands reach
into trees, tasks, CLI sessions and the store at the same time.  The `claude`
subprocess calls the proxy; the proxy resolves a provider from the registry; its
transport takes a concurrency slot of the provider's limiter, passes the reactive
block and the rolling window before every upstream call, and for OpenRouter sends
with the current key of the pool, rotating on refusals.

What makes them correct:

- tree queue: one turn of a conversation at a time, in order, every message gets
  its turn or is cancelled, the repository is closed under parents, finished turns
  are on record;
- key pool: a refusal is charged to the key that was refused, dead keys are not
  used while there are others, a request ends;
- limiter: never more than the limit in any window whoever calls, no slot lost,
  no deadlock between slot, window and block;
- session store: what is on disk is the newest state saved, or will be;
- message limiter: the newest edit of a message is the one shown; every waiter is
  answered;
- CLI sessions: no turn uses the session of another one, the maps of ids agree, no
  process outlives the turn or the stop that should end it;
- transports: the client sees one well-formed message that ends, the content of one
  attempt only, and whole tool calls.

`PROJECT.json` lists the components and, under `hazards`, the places where each
of these can go wrong.

## 2. Plan

The order was: what is most central first, and of each component first the
interleavings, then what it shows to the outside.

1. `TreeQueue`: the heart of the bot, with its handlers and commands.
2. `KeyRotation`: the key pool and the send loops.
3. `RequestQuota`, `SlidingWindow`, `ProviderLimiter`: the abstract quota, the
   window that implements it, and the limiter that composes window, block, slots
   and retries.
4. `SessionStore`: debounce timer, writer thread, flush, failed write, crash.
5. `MessageQueue`: merging of edits, retries, floods and shutdown.
6. `CliSessions`: ids, cancellation and `stop_all`, with the turns that use them.
7. `StreamContract`, `Downstream`, `ChatStream`, `NativeStream`: the abstract view
   of a client, what both transports share, and one streamed answer of each.

All of it is there.  What could be added, and why it was not, is in section 8.

## 3. The modules

| Module | Models | Proofs |
|---|---|---|
| `TreeQueue` | trees, processor tasks, handlers, commands, restart | `TreeQueueProofs` |
| `SessionStore` | the store in memory, its timer thread, its file | `SessionStoreProofs` |
| `CliSessions` | `CLISessionManager`, `CLISession`, turns, processes, stops | `CliSessionsProofs` |
| `MessageQueue` | `MessagingRateLimiter` and the callers of its queue | `MessageQueueProofs` |
| `KeyRotation` | key pool, send loops, attempts | `KeyRotationProofs` |
| `RequestQuota` | abstract rolling quota | |
| `SlidingWindow` | `StrictSlidingWindowLimiter`, implements `RequestQuota` | `SlidingWindowProofs` |
| `ProviderLimiter` | `GlobalRateLimiter` with the streams that use it; uses `SlidingWindow`, implements `RequestQuota` | `ProviderLimiterProofs` |
| `StreamContract` | abstract: what the client of a stream may see | |
| `Downstream` | generator, holdback buffer and client, shared by the two transports | |
| `ChatStream` | an answer of an OpenAI-compatible provider; implements `StreamContract` | `StreamProofs` |
| `NativeStream` | an answer of a provider that speaks the Anthropic API | `StreamProofs` |
| `MC...` | constants, symmetry and views for TLC | |

The grain of every module is the same: asyncio switches tasks at an `await` that
really suspends and nowhere else, so one action is the code between two of those.
An `asyncio.Lock` whose critical sections never suspend is never contended and
does not appear (the tree lock, the repository lock, the lock of the sliding
window, the condition of the message queue).  The lock of the CLI session manager
is held across a suspension, and is a queue in the model.  Variables carry the
names of the attributes they stand for.

**TreeQueue.**  A node is the message that created it, a tree is its root.
`known` is what the repository maps, `member` what the tree object contains: the
two part when a tree is dropped while a task still holds it.  `task[n]` follows
`process_node` (`created`, `running`, `closing` while the CLI session is freed,
`done`), `cancel` holds the tasks on which `cancel()` was called, `captured` and
`held` are the turn's locals.  `saved` is what the store holds.  A task cancelled
before its first step never runs its body (`Dropped`).  Suspending commands
(`/stop` and `/clear` outside a reply, `/clear` in a reply) are records in `cmd`
with the nodes they remember.  `Restart` is a shutdown that flushes the store
followed by a restore with `cleanup_stale_nodes`.  Left out: the `RuntimeError`
path of `get_or_create_session`, which no code raises.

**SessionStore.**  The callers run on the event loop, a fired timer in a thread of
its own.  What happens under `_lock` is one action; writing the file is another
one, so a timer can stand between its snapshot and its write (`snapshot`, stage
"writing") while the loop saves, flushes or clears.  `cancel()` stops a timer that
is "armed" and cannot call back one that is "waiting" for the lock.  A content is
its trees, its log and the number of the change it came from (`at`).  `Restart` is
possible in every state: a process that dies, by a signal or because it is done,
and a new one that loads the file.  `taken`, `written`, `failed` and `promised` are
history variables with the newest content that was copied, stored, lost in a
failed write, or flushed with no timer writing beside.

**CliSessions.**  A turn runs through `stage`: it "wants" the lock, is "spawning",
"reading", "registers" its real id, "kills" and "drains" its process when it is
cancelled, "leaves" and is "removing" its session in the `finally` clause.  A
session and a process bear the name of the turn that made them.  `pending`,
`sessions`, `temp_to_real` and `real_to_temp` are the four maps; `lock` is the lock
of the manager and its waiters; `cli_lock[s]` is `_cli_lock` of a session, which a
generator that was paused keeps until it is closed (`GeneratorCloses`).
A tree has the turn it thinks it runs (`current`), the task it started last
(`task`), and is gone after a `/clear` of its root (`cleared`).  `Start` begins a
turn when `current` is free, that is when the last one is over or was freed by a
global `/stop`; such turns run beside each other (`beside`), and the properties
except them where the code promises nothing.  A cancellation reaches a turn in
every stage, and more than once: `/stop` in a reply asks whether the node is over
(`Cancel`), while a global `/stop` and the `/clear` of a root do not
(`CancelTrees`).  A second one interrupts the wait for the process
(`CancelledReading`), and one that comes in the `finally` clause gives up
`remove_session` where it stands (`CancelledLeaving`): in the line for the lock,
so that the session stays in its map (`unremoved`), or behind the session that was
taken out, so that the mapping of the ids stays (`unmapped`).  A turn whose
process said no session id and ended well is not over for `/stop`, so it can be
cancelled there as well.  `Raises` is an exception of the turn while its process
lives: nobody stops the process but the removal of the session.  `StopAll` is
called by the global commands and by the shutdown (`up`), which gives it up after
five seconds (`GivesUp`).  Who waits for the end of a process waits for the one
that was there when it asked (`killing`, `removing`).

**MessageQueue.**  An edit is its screen (a chat message) and a number; its key is
the screen.  Sends and deletions are awaited jobs with keys of their own, and two
deletions of the same messages share one.  `futures[k]` is the set of those who
wait for key `k`, `hand` the entry the worker took.  `_wrapped` sleeps `1, 2, ...`
seconds, so `sleepers` wake in the order they fell asleep unless a later one sleeps
less.  A failure may be a flood, a broken connection, or a text that reads as both;
after a broken connection the chat may show the edit all the same.  `Calls` waits
for the rolling window, which `SlidingWindow` models.

**KeyRotation.**  `current` counts from 1.  A request takes the current key when it
is sent (`sent`) and blames whichever key is current when the answer arrives.  A
message request suspends to close a refused response (`closing`); the model-list
request does not.  `refusals` is a history variable of the current loop, and
`disturbed` has the requests in whose loop another request changed the pool.  A
loop that ran out of sends ends the request (`GivesUp`): the response is closed
before its body is read, so the error is `httpx.StreamClosed`, which
`execute_with_retry` does not retry.

**SlidingWindow, RequestQuota.**  Time is a number of ticks, the window is
`RateWindow` ticks.  `Pass` is one pass of the loop of `acquire`: pop what expired,
then take a place or sleep.  `granted` is the history that the quota speaks of.
`Pass` has the next stage as a parameter so that the limiter below can use it as it
is.

**ProviderLimiter.**  `stage[r]` is where a call of `stream_response` stands;
`slot[r]` its claim on the semaphore.  The semaphore is asyncio's: `release` hands
the slot to the oldest waiter, which stays in line until it resumes, and a
cancelled waiter that had been handed the slot passes it on.  `blocked_until` is
the reactive block, `leaks` counts the calls that begin during the block set last.
A broken stream is reopened (`Breaks`, `Reopen`) or recovered (`Recover`,
`RecoverAgain`) under the slot it holds.  `MaxReopens` stands for
`EARLY_TRANSPARENT_MAX_RETRIES` and for `MIDSTREAM_RECOVERY_ATTEMPTS - 1`; the
recovery of a tool call repeats the same calls per block and is one recovery here.
A request is made once: a client that comes back is a new request.  (With an
unbounded supply of newcomers a sleeper of the window can starve, since nothing
orders the callers; that is a fact of the code and outside this bound.)

**StreamContract, Downstream.**  `StreamContract` is the abstract specification:
`Allowed` says which event may follow which, as `assert_anthropic_stream_contract`
demands of a recorded stream, and with the order of `message_start`,
`message_delta` and `message_stop`.  `Downstream` is the lower half of both
transports: a generator hands out one event at a time (`outbox`) and does nothing
before the last one was taken; the holdback buffer (`held`, `committed`) lets go
when its time or its size is reached, which is a choice in the model; the client
takes events or leaves.

**ChatStream.**  Operators take an `SSEBuilder` to the one after it and append the
events it makes.  A chunk is reasoning, text, a part of a native call, or a finish
reason; `kept` and `calling` are what the think-tag parser and the parser of tool
calls written as text hold back between chunks.  A break or a stream without finish
reason leads to `Retry` (nothing shown), to `RecoverTools` or `RecoverText`
(something built), or to `ErrorTail`.

**NativeStream.**  `upstream` is what the provider has sent; its blocks may overlap,
lack a start or a stop, be stopped twice, and go on after their stop or after
`message_delta`.  `message_delta` and `message_stop` are passed on when they come,
whatever blocks are open, and one without the other.  What is assumed of the
provider: `message_start` is first, no index is started twice or stopped without
ever being used, a `message_delta` has a stop reason, and nothing follows
`message_stop`; the transport passes such events as they are.  `segment`, `dropped` and `suppressed` are the state of the
block policy, `blocks` that of the tracker.  Arguments whose first piece went into
another block are "rest": no recovery can complete them.

Definitions under a comment with the word *mutant* are not part of a specification.
Each is the same definition with a plausible bug, and `PROJECT.json` names the
property that has to fail when the bug is put in.

## 4. The runs

| Run | Instance | States | Shows |
|---|---|---|---|
| `TreeQueueSafety` | 3 messages, all commands, 1 suspended command, 1 restart | 2,349,240 | `QueueSound`, `NoOrphans`, `StoreCurrent`, `StartsInOrder`, `NeverRevived` |
| `TreeQueueOrdered` | 3 messages, 2 suspended commands, `/stop` and `/clear` in replies, 1 restart | 287,736 | `OneTurnPerTree` |
| `TreeQueueLive` | 3 messages of one tree, all of `/stop` and `/clear`, fair | 452,949 | `QueuedGetsTurn` |
| `KeyRotation` | 2 requests, 0 to 3 keys, one file with a repeated key, 2 attempts, fair | 530,383 | `AllKeysTried`, `RefusedAreBlamed`, `RotationSound`, `RequestEnds` |
| `SlidingWindow` | 4 calls, 2 per 3 ticks, fair | 2,200 | `QuotaSpec`, `AllGetThrough` |
| `ProviderLimiter` | 3 streams, 2 slots, 2 per 3 ticks, 1 retry, 1 reopen | 1,394,587 | `TypeOK`, `SlotsConserved`, `LeaksBounded`, `QuotaSpec` |
| `ProviderLimiterLive` | 3 streams, 1 slot, 1 per 2 ticks, fair | 72,934 | `RequestEnds` |
| `SessionStore` | 1 tree, 2 messages in a log of 1, 3 timers, 3 changes, 1 failed write, fair | 239,114 | `NothingForgotten`, `FlushAloneIsDurable`, `ChangesAreWritten` |
| `CliSessions` | a message and 2 replies to it, a message of another tree, 2 calls of `stop_all`, fair | 543,424 | `TypeOK`, `StopAllKills`, `MapsAgree`, `SessionsUnshared`, `CancelledEnds`, `StopAllReturns` |
| `MessageQueue` | 1 screen with 2 edits, 2 deletions with one key, 2 retries, fair | 63,564 | `TypeOK`, `NoWaiterLost`, `NewestShown`, `Answered` |
| `ChatStream` | 2 native calls, 1 of them buffered, 3 chunks per attempt, 1 early retry, fair | 227,646 | `OneAttempt`, `SalvagedWhole`, `StreamContract`, `MessageEnds` |
| `NativeStream` | 2 blocks, 4 block events per attempt, 1 early retry, fair | 3,230,802 | `TypeOK`, `ThinkingHidden`, `OneWholeAnswer`, `WellFormed`, `MessageEnds` |

The type invariants of `TreeQueue`, `KeyRotation`, `SlidingWindow`, `SessionStore`
and `ChatStream` are theorems (section 6) and not repeated in their runs.

*Why the bounds are enough.*  Three messages give a tree with a running turn, a
queued one and one being attached, a chain, a fork and two trees; `TreeQueueOrdered`
has two commands half-way at once.  A second restart would begin in a state
the first one can produce.  Three keys let a rotation skip a key and come to rest
on a third; two requests are what it takes to blame the wrong key.  Four calls fill
a window of two twice.  Three streams and two slots have one stream waiting for a
slot while another sleeps in the window and a third is blocked, and let a client
leave in the moment its slot is handed over.  `MaxIdle` and the guard of
`ProviderLimiter!Tick` stop the clock when its passing makes no difference any
more.  Three timers are one that writes, one that waits for the lock and one that
is armed; three changes are one for each of them.  The number of a change is part of
the content, so a new process has those left that its file does not have.  A
message and two replies are a turn, one that resumes its session and one that forks
beside it; a second `stop_all` is one that waits for the first, and the turn of
another tree is one that holds the lock without either.
Two edits are one that is retried and one that overtakes it.  Three chunks in each
of two attempts are enough for a call whose name, whose arguments and whose
neighbour arrive separately, and four block events for two blocks that overlap,
are started again and lose their stop, with the end of the message in between.
The numbers of retries, the delays and the windows are smaller than the program's
constants, but not zero.

*Reductions.*  The messages of the safety runs and the streams of `ProviderLimiter`
are interchangeable, so these runs use symmetry; runs with liveness do not.
`MCProviderLimiter!RelativeTime` replaces absolute times by differences, which is
all that actions and properties look at.  Three runs have a constraint.  `OneTree` has
the messages of `TreeQueueLive` arrive in one order and in one tree, since a queue
knows nothing of other trees; a restart, which empties all queues, is left to the
safety runs.  `Bounded` makes the first reply of `CliSessions` begin before the
second, and allows two of these: the second reply, the other tree, and the calls of
`stop_all`; the other tree and the calls exclude each other, both being there to
keep others waiting for the lock.  `Watched` checks the states of `NativeStream` after the
client has left and does not go on from them: nothing happens there.  None of them
cuts a step that has to be taken, only arrivals, calls and what comes after the
end, so they hide no behaviour that waits for ever.

*Deadlock* is checked where the system never comes to rest (`KeyRotation`,
`SessionStore`).  The others stop when all messages are handled, all calls are
through or the answer has ended.

## 5. Fairness

`TreeQueue`: the event loop runs every task that is ready, and a `claude`
subprocess ends.  The second is an assumption on a program outside this
repository; without it the code promises nothing, since a turn has no timeout.
`CliSessions` does not make it: a process need not end by itself, and what is
promised is that one that is told to end does, and that tasks that are ready run.
It is killed after five seconds, unless who waits for it is cancelled in the
meantime (`CancelledLeaving`, `GivesUp`): then it has been told and is assumed to
obey.  The stop of a turn that reads is shielded from this.  One condition
covers all these steps: none of them comes back for ever, so a step that stays
enabled is taken in the end.  `KeyRotation` and `ProviderLimiter`: the HTTP client
has connect, read and write timeouts, so a call is answered or fails, and streams
end; sleeps end.  `SlidingWindow`: time passes and due timers fire.
`SessionStore`: timers fire, a thread that waits for the lock gets it, and a write
ends.  `MessageQueue`: the worker is scheduled, a call of the chat library ends,
sleeps end.  `ChatStream` and `NativeStream`: a stream brings an event, ends or
times out, a recovery does too, and a client takes what it is handed or leaves.  No
user is obliged to send, stop, retry or disconnect, and no process to be shut down.

## 6. The proofs

The theorems hold for all values of the constants under the named assumptions of
the modules: positive limits and bounds in `Nat`, markers such as `None` that are
none of the messages, timers or turns, back-off times in `Nat`
(`BackoffAssumption`), and a reply that is in the tree of its parent
(`ReplyAssumption`).  The sets of messages, keys, turns, timers and block
indexes are arbitrary, finite or not; the jobs of `MessageQueue` and the requests of `ProviderLimiter`
are finitely many, since slots and waiters are counted.

**TreeQueue.**  `TypeCorrect` proves `TypeOK` from `TypeInv`, which adds that a
message has no tree before its handler ends (without it a root could be `None`
where a queue is indexed).  `QueueCorrect` proves `QueueSound`, inductive relative
to `TypeInv`: there are four ways to touch a queue, each with a lemma.
`OrderCorrect` proves that nobody overtakes, from `QueueSound`: an idle tree has an
empty queue.  `NoOrphansCorrect` needs `ShapeInv`: a restart rebuilds the
repository from the store, so the store and the tree objects have to be closed
under roots and parents as well.  `StoreCorrect` proves `StoreCurrent`, which is
not inductive either: a turn that starts rewrites its node without a save, and a
restart takes the states from the store.  Neither undoes a completed turn, because
a turn that is not over is completed neither in memory nor in the store
(`AheadNotDone`).  `NeverRevivedCorrect` is an action property over the same
invariant.  `OneTurnCorrect` proves `OneTurnPerTree` under
the assumption that no command cancels whole trees, from the invariant that a tree
with a live task is busy as long as the repository can reach it.  The assumption is
needed: section 7 has the counterexample.

**KeyRotation.**  `PoolTypeCorrect` (the index stays in the pool; a back-off has an
attempt left), `StatusDisjointCorrect`, `RotationCorrect`, `BlameCorrect` and
`AllKeysTriedCorrect`, for any number of requests.  The invariant behind
`BlameCorrect` is that the key in flight is the current key as long as nobody
disturbed the loop, and that whatever was refused so far in such a loop is blamed.
`AllKeysTriedCorrect` counts: as many places of the pool behind the current one as
the loop has made sends are covered, which means refused in this loop or
exhausted before (`LoopCovers`).  A rotation may skip places, but only exhausted
ones; the last send makes the covered places all of them.

**SlidingWindow, ProviderLimiter.**  The invariant is `WindowOK`: the deque is
exactly the suffix of the history that is not expired, and the history is in
order.  `QuotaCorrect` proves that the window implements `RequestQuota`, by a
refinement mapping that is the identity on `now` and `granted`; `DequeCorrect` and
`StrictCorrect` follow from the same invariant.  `UpstreamQuotaCorrect` takes
these lemmas through an instance of `SlidingWindowProofs` and proves that the
provider limiter implements the same quota with all its retries and recoveries.
`SlotsCorrect` rests on `SemaphoreSound`: whoever has a claim that is queued or
handed over stands in the line exactly once, and a slot is free while somebody
queues only if another one has been handed a slot and will pass it on.
`LeaksCorrect` rests on `LeaksSound`: the calls that slipped by the block, together
with those that still may (asleep in the window, or until the end of an older
block), are fewer than the slots, since all of them hold one and the request that
set the block holds another.  `LimiterTypeCorrect` takes all three parts.

**SessionStore.**  `StoreTypeCorrect`; `LogCorrect` (the set of ids and the log
agree and the log respects its cap, because cutting it keeps its entries distinct,
and because a restart builds the set from a file that was once the log).
`NothingForgottenCorrect` needs that a content is never newer than the memory and
that the timer the store knows of is armed or waiting.  `FlushAloneCorrect` needs
more: no snapshot that is still to be written, in a thread or in the loop, is older
than the last promise.

**MessageQueue.**  `QueueTypeCorrect` and `NoWaiterLostCorrect` are proved together:
that a caller is never in two entries depends on who sleeps (each sleeper once, and
asleep), on sends having no retries, and on the worker's hand being empty unless it
is busy.  `NewestShownCorrect` follows the newest edit of a screen: it owns the
function of the entry it waits in, and while the worker holds it nothing of its
screen is queued behind it (`NewestInv`).

**CliSessions.**  `SessionsTypeCorrect`, `UnsharedCorrect`, `MapsAgreeCorrect` and
`StopAllKillsCorrect` come from one inductive invariant, `Inv`, for any turns, any
shape of the trees and any number of calls of `stop_all`.  That no two turns share
a session is true for a reason that spans four components.  `Owned`: an id that
the manager still knows is that of a turn which has not left yet, or its removal
was cancelled.  `TurnSound`, `MapsSound`: ids never pass from tree to tree, and
every entry of the maps goes back to a turn.  `Alone`: a turn that is to get a
session, and began beside no other, is the only one of its tree unless a
cancellation is on its way to it.  So whatever it finds was left behind by a
cancelled removal.  `MapsSound` also has what the maps of ids need between the two
halves of a removal: an id is registered or being removed (`Mapped`), or its
removal was cancelled.

For `StopAllKills`, a process that runs must be where `stop_all` looks.  `ProcSound`
ties a process to its session; `Guarded` says that this session is where the
`finally` clause of its turn looks for it, and that no other turn of the tree can
take it away before: they wait behind a call of `stop_all` in the lock, or there
are none.  That a process which outlives its turn is not forgotten by a second
cancellation rests on `EndSound`: the node of its turn is over, and no `/stop`
cancels it again.  `StopSound`: a turn that stood in front of a call of a command
was cancelled by it, so a session it finds too late has no process.  `LockSound` and
`StopsInOrder`: the line for the lock names everybody once, who is in it is told by
the stage, and calls of `stop_all` stand in it in the order they were made.

**NativeStream.**  `StreamTypeCorrect`, `ThinkingHiddenCorrect`,
`OneWholeAnswerCorrect` and `WellFormedCorrect` come from one inductive invariant,
`Inv`.  What a client goes through is a relation: `Reaches(rule, c, s, d)` says
that the events `s` take a client from `c` to `d`, each of them in order by a rule
(`Proper`), and it composes (`ReachesConcat`, `ReachesTail`).  A rule is a set of
liberties: none for the contract itself; for this transport those `WellFormed`
names, "repairs" once a recovery vouched for its tools, "delta" and "stop" once the
provider ended its message itself.  Liberties only grow while an attempt lasts
(`ReachesFreely`).  The heart of `Inv` is `ClientSound`: the events
that are handed out and held take the client from what it saw to what the tracker
has (`View`), or, once the generator has returned, to the end of the message.  The
program cannot see this, because the tracker records a block when its events are
made and the client sees them when the buffer lets go.  Each step of the generator
then has a lemma that says which events it makes of the tracker's blocks: the stops
of the blocks of the other indexes (`OthersStopped`), a block that is started again
(`Reopened`), the closing of what is open in the order of the indexes, the repairs
and the tail of a success (`SuccessSent`), the error text (`ErrorTextSent`).
`PolicySound` says that an index of the provider goes into a block of its kind, no
two into the same one.  `StageSound` says that a client in the content of the message
is one whose tracker has seen no `message_delta`, so that the end which the transport
adds comes after its own closing of the blocks.  `HandedOut`
says that what is held and handed out is of the attempt that runs and hides
thoughts from those who do not want them, and that nothing was seen before the
buffer let go, which is why a retry may forget everything.  `RepairedWhole` needs
`Pending` for the events after the repairs: a client that took all of them has what
they lead to, and that has no tool without arguments.  `WellFormedCorrect` is an
action property: only a delivery changes what the client saw, and it takes the
first event of a proper sequence.

**ChatStream.**  `ChatTypeCorrect`, `ChatOneAttemptCorrect`,
`ChatSalvagedWholeCorrect` and `ChatImplementsContract` are proved for any set of
native calls, finite or not, any part of it buffered, and any number of chunks and
retries, under `BoundAssumption`.  The last one is the refinement: every behaviour
of the stream is one of `StreamContract`, step by step, with `wire` and `gone`
mapped to themselves; this is stricter than what is true of the native transport.
The argument is the one above with the rule that has no liberties.  `Showing(b)` is what a
client will see of the builder `b`, and `Builds(n, c, b)` says that the events it
made in this step take the client from `c` to there.  Every operator of the builder
has a lemma that it keeps `Builds`, so the lemma of an action chains those of the
operators it calls.  Closing the blocks takes the builder out of `Showing` (the
program does not record that they are closed), and from there on `Leads(n, c, b, d)`
names the client that is reached, up to the one that saw the end (`EndingLeads`,
`ErrorEndingLeads`).  Several calls are closed, flushed and repaired in some order of
the set (`EmitEach`), and the client they lead to is given in one expression
(`Argued`), without an induction.  The inductive invariant `ChatInv` has three parts.
`ChatTyped` has `Building`: open blocks have different indexes, all of them given
out; text and thinking are not open together; what counts as whole belongs to a
block that was started.  `ChatHanded`: what is held and handed out is of the attempt
that runs, and before the buffer lets go the client has seen `message_start` at
most, so a retry may forget the builder.  `ChatClient`: the events on their way take
the client to `Showing(sse)`, or, once the generator has returned, to an ended
message, which has no broken tool when a recovery vouched for it.  `SalvagedWhole`
is then inductive because nothing follows the end (`NothingAfter`): a client that saw
it is the client the sequence leads to.

*Only model-checked.*  Liveness (`QueuedGetsTurn`, `RequestEnds`, `AllGetThrough`,
`ChangesAreWritten`, `CancelledEnds`, `StopAllReturns`, `Answered`, `MessageEnds`) is
out of the prover's reach.  Every safety property of the runs is a theorem
(`OneTurnPerTree` under the assumption named above).

## 7. Where the code and its documentation disagree

None of these has a run of its own: the properties of the runs say what does hold,
with the exception named in their comments.  Each follows from the actions named
here.

*Trees and commands*

- `trees/queue_manager.py:568`: a global `/stop` marks trees as free at once.  A new
  message starts a turn (`StopAll`, `EnqueueAndStart`), then the `finally` of the
  cancelled turn starts the next queued one (`Finish`): two turns of one
  conversation run side by side.  `handler.py:47` says "Per-tree queue ensures
  ordered processing".
- `trees/queue_manager.py:599`: `/stop` in reply to a message whose task was created
  but not scheduled (`StopNode`, `Dropped`): the task never runs, so its `finally`
  never frees the tree, and the other messages wait for ever.  Line 581 says
  "without affecting other nodes".  `QueuedGetsTurn` excepts such trees (`CutShort`);
  a removal of branches can do the same.
- `trees/data.py:62` says that COMPLETED means success, but a failed `claude` exit
  is parsed to an error and a completion, and the node of a turn that captured its
  session id ends COMPLETED (`Exit(n, FALSE)`).
- `commands.py:233` says that no work runs after the first step of a global
  `/clear`, but a message that arrives while the CLI sessions stop starts a turn
  (`StopAll`, `CreateTree`, `StopAllReturns`), and such a turn later writes its tree
  back into the cleared store (`ReplaceManager`, `SessionInfo`).
- `trees/data.py:456`: a removed branch leaves a queue entry behind when the node
  was ERROR already (`ErrorEvent`, `ClearBranch`, `RemoveBranch`).  When its turn
  comes, the tree is marked as busy and no task is made for it
  (`trees/queue_manager.py:291`), so the messages behind it wait for ever
  (`HandedToNobody`, the other exception of `QueuedGetsTurn`).

*Store*

- `session.py:165` and `:227`: a timer that took its snapshot before a flush or a
  `/clear` may write it afterwards (`TimerLocks`, `ClearAll`, `FlushWrites`,
  `TimerWrites`), and the file has what was cleared.  Nothing is scheduled to put it
  right.
- `api/runtime.py:145`: the shutdown flushes first and stops the platform and the
  turns afterwards; what they save then has a daemon timer and is lost with the
  process.
- `session.py:279`: `remove_tree` removes the ids of the nodes the stored tree has,
  not those that `register_node` added since.
- `session.py:153`: a failed write is not tried again before the next change.

*CLI sessions*

- `cli/manager.py:22` says that replies reuse the `CLISession` of their
  conversation.  They do not, in general (`SessionsUnshared`): the parent's session
  is removed when its turn ends.  They do by accident, as the next entry says.
- `handler.py:547`: a turn that is cancelled while it removes its session gives the
  removal up, since `CancelledError` is not an `Exception`.  In the line for the lock,
  its session stays in the maps, its process may run on, and the next reply finds
  both (`cli/manager.py:74`); behind `session.stop()`, the mapping of its ids stays
  (`cli/manager.py:123`).  It takes a second cancellation, by a global `/stop` or by
  the `/clear` of a root, which do not ask for the state of the node
  (`trees/data.py:350`), or a first one of a turn that ended well without a session
  id (`CancelledLeaving`; the exceptions of `SessionsUnshared`, `MapsAgree` and
  `CancelledEnds`).
- `api/runtime.py:163`: the shutdown gives `stop_all` up after five seconds, as long
  as one process has before it is killed (`cli/session.py:338`), so the sessions
  behind one that does not obey are not stopped (`GivesUp`); `StopAllReturns` has it
  as its other end.
- A reply that starts after a global `/stop` asks for its parent's id and is pending
  under it.  When the cancelled parent reaches its `finally` clause
  (`handler.py:546`), it removes that id, and with it the reply's session and process
  (`StopAllTasks`, `Start`, `Leaves`).

*Outgoing messages*

- `limiter.py:25` promises "only the latest version of a message update", but a
  retry of an older edit that slept replaces a newer one (`Wake`).
- `limiter.py:187`: a shutdown answers nobody; an awaited edit (`handler.py:180`)
  then waits for ever.
- A text with both "wait" and "timeout" pauses the worker and is retried (`Fails`).

*Keys and limits*

- `open_router/key_manager.py:82`: a late refusal condemns the key another request
  has just rotated to (`Refuse`), where the program's `README.md:167` says "It throws
  away the dead key".
- `README.md:166` says that a 402 makes the proxy grab a fresh key.
  `mark_key_exhausted` does not move the pool on, and the next send repeats the dead
  key (`BlameKey`).  No key recovers before the provider is rebuilt.
- `rate_limit.py:165`: the reactive block is checked once, before a sleep; a request
  that wakes goes out during another one's back-off, where line 59 says "pauses all
  requests".  `LeaksBounded` says how many do.
- `rate_limit.py:238` says that a 429 is backed off and retried; with OpenRouter the
  refused response is closed before its body is read, so what leaves the loop is
  `httpx.StreamClosed`, which is not retried (`GivesUp`).
- A test (`tests/providers/test_provider_rate_limit.py:14`) expects five attempts
  in all where `rate_limit.py:19` has two.
- One acquisition of the window covers all sends of an OpenRouter loop, one per
  key: the quota that `UpstreamQuotaCorrect` proves is one of loops there, and up to
  as many sends as there are keys fall into one place of the window.

*OpenAI-compatible streams*

- A recovery shows reasoning although thinking is disabled
  (`openai_compat.py:570`, `RecoverText`), where
  `tests/providers/test_streaming_errors.py:443` says of a stream "reasoning deltas
  are stripped while normal text still streams".
- At the end of a stream `HeuristicToolParser.flush` (`tools.py:188`) gives out an
  unfinished tool call and drops other text it still buffers.
- A tool name that arrives in pieces starts the block with its first piece
  (`ProcessToolCall`).
- A call written as text does not count as output: a stream that breaks after
  nothing else ends with an error instead of a recovery (`HasOutput`), and a recovery
  after one ends the message with `end_turn`.
- When the second of two tools cannot be repaired, the state of the first one says
  that its arguments were sent, but the events are dropped; nothing reads that
  state any more.

*Native streams*

- A recovery completes the arguments of a tool whose block the provider had closed:
  a delta for a closed block (`RecoverTools`, the exception in `WellFormed`).
- `message_delta` and `message_stop` of the provider go out as they come
  (`emitted_sse_tracker.py:140`): with blocks open, without a block, or the second
  without the first.  The tests take that for good: `tests/providers/test_open_router.py:302`
  has a text without start or stop, `tests/providers/test_anthropic_messages.py:175`
  a message of two events.  The client then has an end with a block open
  (`MessageDelta`, `MessageStop`; the exceptions in `WellFormed`).
- A delta after the provider's own stop of its block starts the block again
  (`native_sse_block_policy.py:235`), and nobody closes it but the provider, or the
  tail of a recovery (`DeltaPassed`).
- A stream that breaks between `message_delta` and `message_stop` gets a text or a
  second `message_delta` behind the first one; one that breaks after `message_stop`
  gets events after the end, a `message_delta` among them if it had none (`Breaks`,
  `ErrorTail`, `Succeed`).
- A provider's error before `message_start` is followed by a tail without one
  (`ErrorArrives`, `ErrorTail`).
- A message that consists of hidden thinking has no block at all (`StartDropped`),
  which the contract does not allow.
- Two tools whose deltas alternate are split into several blocks, and no recovery
  can complete them (`Repairable`).
- A thinking delta without a start is passed on as it is, and the line mode of the
  transport also passes what follows `message_stop`.

*Configuration*

- After the administrator applied a change, requests that still stream use clients
  that are being closed (`admin_routes.py:131`); old and new limiters exist side by
  side (`rate_limit.py:142`); and the shutdown cleans up the registry it created, not
  the one in use (`runtime.py:168`).

## 8. What is not modelled

- *Provider registry and admin configuration.*  Caches that are replaced as a whole,
  without a promise about requests in progress: the facts above are visible in
  the lines and a property would restate them.
- *Request and response conversion, token counting, the exact cuts of the parsers.*
  Sequential functions on text.  `ChatStream` has what they hold back and give out.
- *Usage counts, stop reasons, server tools, ids of messages.*  Data that no
  property tells apart.
- *Process registry.*  The list of process ids that is killed at interpreter exit,
  behind everything `CliSessions` shows.
- *Rendering, transcript, platform libraries, speech, web tools, settings, start-up
  scripts.*  Code without concurrent state, or adapters of other libraries.
- *HTTP API.*  Stateless handlers in front of the transports.
- *`wheel_extract/`.*  An older packaged copy of the same program; `tests/` and
  `smoke/` were read as documentation.
