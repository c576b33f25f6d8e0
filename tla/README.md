# uni-chat-sdk: TLA+ models and proofs

This directory specifies the parts of the SDK in which order, failure and time
decide whether it is right, checks them with TLC on small instances, and proves
the properties that matter most with TLAPS for all instances. File and line
references are to the repository's `state/`, `pkg/` and `keychain/` directories.

## The system

A *daemon* (the consumer of this SDK) serves clients on a Unix socket and starts
one *engine* process per request and chat platform. The SDK gives both their
transport and gives the engines their storage.

| component | code | state it keeps | operations | how it interacts |
|---|---|---|---|---|
| cursors | `state/state.go` `RecordCursor`, `AdvanceCursor` | per channel the acknowledged post, proven successors, versions | a check records an edge, an ack advances | in `state.json`, changed under the lock |
| pending projection | `ApplyPending`, `MergePending`, `LoadState` | per channel one unanswered request or the time of the last answer; revisions | apply one post, merge a check's posts, normalise an old file | as above; checks overlap, their posts arrive in any order |
| activity index | `RecordActivity` | newest post time per channel | record | as above |
| checks and acks | the comments on `RecordCursor`, `MergePending`, `CheckData`, `AckArgs` | a check's base cursor, its posts, its reply | load, fetch, save, reply; notify, acknowledge | ties cursors, projection and activity together, over the transports below |
| JSON files | `writeJSON`, `SaveConfig`, `SaveState`, `LoadConfig` | `config.json`, `state.json`, temporary files | save, read | processes share the directory; `SaveConfig` takes no lock |
| state lock | `Lock`, `LockContext` | `state.lock` and its flock | lock with a deadline, release | around load, change, save |
| daemon server | `ServeContext`, `serveConn`, `writeBusyResponse` | slots, the map of active connections, the WaitGroup | accept, serve, refuse, shut down | a goroutine per connection; the handler is the daemon's |
| socket client | `Call` | one connection | dial, send, wait, hang up | peer of the server |
| engine call | `CallStdio`, `runBoundedCommand` (Unix, elsewhere), `boundedBuffer` | a process group, two bounded buffers | start, wait, SIGTERM, SIGKILL | os/exec, the kernel, the engine's descendants |
| engine side | `ServeStdio`, `ServeStdioContext` | none | one request, one response | child of the engine call |
| decoding | `decodeBoundedRequest`, `rejectSocketTrailingData` | a limited reader, the decoder's buffer | decode one request | read side of both servers |
| wire types | `pkg/protocol` argument types, `MarshalArgs`, `OK`, `UnmarshalJSONObject` | none | validate, encode, decode | both sides of every request |
| socket file | `Listen` | the file at the socket path | clear, bind, close | every daemon of the user |
| capabilities | `pkg/capability` | static tables | overlay of restrictions | pure |
| keychain | `keychain/` | an item per engine | get, set, delete | Security framework; processes share the item |

What is hard to test here, and what would make each part correct:

- *Cursors.* Post ids are opaque; order is only what checks have proven. Checks
  run from stale cursors and acks repeat. Correct: the recorded order has no
  cycle and no merge, and a cursor never goes back.
- *Pending.* Posts arrive late, twice, unordered, with equal, missing or garbled
  stamps. Correct: the projection ends at the latest post whatever the order,
  no post is notified twice, and the frontier never moves back.
- *Checks.* A check works on a cursor it read before it asked the platform; others
  save meanwhile, its reply and its acknowledgement can be lost. Correct: nothing
  is acknowledged that was not notified, the order proven on opaque ids is the
  platform's, and the cursor catches up.
- *Files and lock.* Processes are killed between any two system calls, saves
  overlap, the lock's holder hangs. Correct: no torn or mixed file, no lost
  update, an error means no effect, a waiting caller gets an answer.
- *Server.* Goroutines take and give back slots while the shutdown walks the
  same map. Correct: bounded handlers, answers that tell whether the request was
  handled, nothing left behind, a shutdown that ends.
- *Decoding.* The bytes arrive in pieces, end at the limit or one behind it, and
  what follows the value may already be buffered or not have arrived. Correct: the
  verdict does not depend on it, and both sides mean the same arguments.
- *Engine call.* The deadline races the end of the engine, children are born
  between signals and leave the group. Correct: a cut response never passes for
  a whole one, the right cause is reported, the signal misses nobody, the call
  returns.
- *Keychain.* A set is two calls of the framework beside other processes. Correct:
  every answer is true of some moment of the call; a token is never missing
  while it is replaced.
- *Socket file.* It outlives a crash and is removed by whoever starts or stops.
  Correct: a daemon that runs alone can be reached.

`PROJECT.json` lists each hazard at its line with the properties that cover it.

## The modules

**`Cursors`** The three maps of `State` that concern cursors. `RecordCursor` and
`AdvanceCursor` are the functions when they change something; base and candidate
are arbitrary, so a caller's knowledge can be as stale as it likes. Go's absent
map entries are the values `NoCursor` and `Unknown`. `Init` is a file of an
earlier version: any cursor, no order yet. `left` is history.

**`Pending`** `ApplyPending` on one item; `MergePending` as `BeginMerge` (group
and sort) and one `MergeStep` per item, with nothing in between, since the call
runs under the lock; `LoadState` with what it repairs. A stamp is the instant it
parses to, `Blank` or `Garbled`; a post id is its rank in text order. `due`,
`notified` and `seen` are history.

**`JSONFile`** `writeJSON` call by call on inodes and names: `CreateTemp`,
`WriteTemp`, `CloseTemp`, `Rename`, a failure of any of them with the deferred
removal, whose own error the code does not look at, and the death of the writer. A reader opens the inode the name has now
and reads it later.

**`StateStore`** extends `JSONFile` with the flock polled by `LockContext`, its
deadline, and requests that load, change and save the state. **`AtomicState`** is
what that promises: each request is one atomic update or nothing, and its answer
says which. `OneAtomicUpdate` is `StateStore`'s refinement of it; a request that
is killed has or has not made its update.

**`Serve`** `ServeContext` with its clients. `stage` says where the goroutine of
each connection is; the semaphore, the map of active connections and the
WaitGroup are variables of their own because different statements change them
(the order of the deferred functions is the order of `LeaveActive`, `FreeSlot`,
`Finish`). Decoding succeeds or fails in one step. Deadlines may pass whenever
the code can be waiting for them. A request chooses what its handler does: it is
`working` and ends, `observing` its context until that is done, or `stuck` for good.

**`EngineCall`** `CallStdio` with the processes it starts: descendants are born
into their parent's group; processes may leave it (`Escapees`), keep or close the
call's pipes and write to them, ignore SIGTERM (`Ignoring`) or be out of the caller's
reach (`Denied`). The engine may leave its group too: `configureProcessGroup` makes it
the leader of a group, and only the leader of a session has to stay. `stdout` is the
bounded buffer, counted in bytes. `platform` is the file that is
compiled: on `"unix"` signals go to the group, `"elsewhere"` to the engine alone
(`InReach`), where an interrupt may not be supported and errors are not looked at.
Signals go to a group, not to a number: that the number of a group that is gone
may name another group is left out.

**`EngineChecks`** composes `Cursors` (`C == INSTANCE`), the projection and the
activity index into checks of several clients on one channel: `Begin` loads the base
without the lock, `Fetch` is the platform's answer, `Commit` the check's one update
of `state.json`, `Deliver` and `Ack` the client's part; `Die`, `LoseReply` and
`LoseAck` are the failures, `ApplySent` an own post that the engine applies when it
has sent it. That `Commit` is one step rests on `OneAtomicUpdate`, that the
projection is the one number `frontier` on `LatestUnansweredWins`. Posts are numbered
in the platform's order, which `Cursors` sees as opaque ids. The engine's code is
not in this repository: the sequence is the one the SDK's comments prescribe.
`delivered`, `missed` and `lost` are history. It implements `Cursors`.

**`Requests`** follows one request byte by byte: `Read` returns any part of what has
arrived, the `LimitedReader`'s `Budget` is one byte more than the limit, `Linger` is
`rejectSocketTrailingData`, on a pipe the rest is read (`drain`). It extends
**`WireArgs`**, operators for the requests that have an encoding of their own and for
`MarshalArgs`, `OK` and `UnmarshalJSONObject`; `Meaning` is the reference the
encodings are held against.

**`Keychain`** The item of one engine and the calls of several processes: `Update`
and `Add` are `SecItemUpdate` and `SecItemAdd`, each atomic in the framework, with
anything in between. Where the build has no Keychain every call fails. `held` is
history: what the item was since a call began.

**`Listen`** The socket file and the daemons that start, stop and crash on it. A
listener that is closed removes what is at its path, whoever bound it. `met` is
history: who ran beside another daemon.

Each `MC...` module only supplies instances; each `...Proofs` module only
theorems. Operators introduced by a comment "Slip:" are deliberately wrong variants
of the definition below them; with one of them in its place the property it
is named for fails (the list is in `PROJECT.json` under `mutants`).

## The runs

| run | instance | shows |
|---|---|---|
| `cursors` | 1 channel, 5 posts, symmetric | the order is a set of chains, no return |
| `pending` | 2 channels, 7 posts, batches of 3, legacy revisions up to 1 | convergence, one notification, nothing skipped, frontier, fresh revisions |
| `jsonfile` | 3 writers, 2 readers, 2 values | no torn, mixed or left-over files |
| `statestore` | 3 requests, 1 reader | no lost update, refinement of `AtomicState`, the lock's caller comes back |
| `serve` | 2 connections, 1 slot, each handler ends, waits for its context or never ends | bounded handlers, honest answers, nothing left behind, shutdown ends, slots come back unless the handler never ends |
| `engine_call` | both platforms; engine and 2 descendants, of which the engine and one ignore SIGTERM, the engine and the other can leave the group, and that other may not be signalled; buffer of 2, at most 3 bytes written | whole responses, right cause, group reached; the call returns unless a process out of reach holds a pipe for ever or is the engine |
| `engine_checks` | 2 clients, 4 posts (a request that is answered, a watched post, the answer, another request), 2 losses | the proven order is the platform's, acknowledged posts were notified, activity covers them; the cursor catches up or is blocked by a loss |
| `requests` | limit of 2 bytes, values of 1 to 4, tails of up to 3 in three kinds of bytes; every request of the four types with an encoding of their own | verdicts independent of how bytes arrive, both sides mean the same |
| `keychain` | 3 processes, 2 tokens, one with a newline, symmetric | answers explained, no gap in a replacement |
| `listen` | 3 daemons | a daemon that runs alone is reachable |

Why the bounds suffice: channels never meet in `Cursors` and share only the
revision counter in `Pending`, so one and two are enough; five posts close any
cycle an edge from a stale base could make; three writers are the least with which
a third could act between two; one slot and two connections give a busy reply
beside a handler, and a slot that is taken again after its handler has ended; a response that exactly fits the
buffer and one byte more are its boundary, as are a value of the limit, one and two
bytes more, with a tail that the limited reader cuts. Two overlapping checks and a loss are the
least that can block a cursor, and four posts hold each kind and its answer. Three
processes are the least in which a duplicate meets a deletion, three daemons the
least in which one starts behind two that met. The theorems remove the bounds for
all safety properties of the passing runs. `MaxBatch`, `MaxLegacy`, `Clock`, `MaxWritten`, `MaxPosts`, `MaxLost`
and `MaxTail` bound the data. The other bounds follow from finite sets: a
connection, a writer and a request act once.

Runs switch deadlock checking off because every model may legitimately stop: all
posts delivered, all writers done, the server or the call returned.

### Disagreements between the documentation and the code

Two runs state what a comment says and end in a counterexample:

- `serve_hang_up`: a handler's context does not end when the client closes the
  connection, only at shutdown (`pkg/protocol/protocol.go:883`). Note that the
  sentence can also be read as speaking of the server's own close.
- `engine_call_escape`: after SIGKILL `CallStdio` waits without a bound for pipes that
  a descendant outside the group holds (`pkg/protocol/process_unix.go:40`). An engine
  that has left its group has the same effect.

More cases are stated as exceptions in the properties themselves:

- A request at the very instant of the user's own post is dropped even with a larger
  id, since only the instant of a resolution is kept (`state/state.go:134`). An own
  post whose `created_at`, which is optional, is missing or does not parse leaves a
  pending request with a valid stamp open, against "always" (`state/state.go:101`),
  and where nothing is pending a missing stamp is replaced by the local clock, while
  one that does not parse leaves a resolution that turns away every later post
  (`state/state.go:126`). `WellStamped` leaves these out of `LatestUnansweredWins`.
- After a reply or an ack was lost and another post came, the cursor may stand still
  for good: no later check can replace the one successor that is proven, and nobody
  will acknowledge it (`state/state.go:244`). `CatchesUpOrBlocked` says that this is
  the only way.
- A request whose reply was lost has been accepted, so later checks do not report it,
  and its post is acknowledged without a notification (`state/state.go:172`).
  `AckedWasNotified` says that this is all a lost reply can cost.
- Two daemons on one path take it from each other, and can both end up unreachable
  (`pkg/protocol/protocol.go:795`). `AloneIsReachable` speaks of the others.
- A `boundedBuffer` is "always accessed from exactly one goroutine"
  (`pkg/protocol/protocol.go:932`). After a signal that was not permitted `CallStdio`
  reads what stderr holds while the goroutines of `cmd.Wait` may still be writing
  (`pkg/protocol/process_unix.go:28`). `BuffersQuiet` holds for every other result.
- A request that cannot be encoded goes out without arguments, and the handler is
  called without (`pkg/protocol/protocol.go:724`). `SidesAgree` speaks of arguments that
  arrive; a handler that takes none for the defaults is free to.
- Busy replies are not waited for (`pkg/protocol/protocol.go:900`): `NothingLeftBehind`
  leaves their goroutines out, which run no handler. A client that closes its side
  within 10 ms of a whole request is refused (`pkg/protocol/protocol.go:1073`), which
  `VerdictIsRight` allows.

## Fairness

`StateStore`: a caller waiting for the lock is scheduled and its deadline comes
(`Lock` gives 30 s). Nothing is assumed of the holder. `Serve`: the server's
goroutines are scheduled, its timer fires, a handler that works ends, and one that
observes its context ends once that is done; clients need not do anything, nobody needs to shut down,
and the listener is closed if the context is cancelled (the watching goroutine).
`EngineCall`: goroutines are scheduled, the deadline and the grace timer fire, and a
process that was sent a signal it cannot survive ends; nothing makes the engine end
by itself. `EngineChecks`: clients keep checking and deliver and acknowledge what they
get; an engine that is started again and again saves once (strong fairness of
`Commit`, as `Die` competes with it); no more than `MaxLost` replies and acks are lost.

## The proofs

All statements hold for every value of the constants that meets the named
assumptions of the module. Each proof module has the shape: an inductive
strengthening, one case per action, and a last step by propositional temporal
logic.

- `CursorsProofs`: `TypeOK`, `Chains` (`ProvenOrder`, `OnePredecessor`), `NoReturn`,
  `CursorClimbs`. Edges climb by exactly one version and a post gets its version
  once. What a cursor has left lies below it: the invariant adds that every value in
  `left` has a proven successor and a smaller version than the cursor.
- `PendingProofs`: `TypeOK`, `NotifyOnce`, `TurnedAwayForGood`, `RevisionFresh` for
  arbitrary posts, and `LatestUnansweredWins` and `NothingSkipped` for posts that meet
  `WellStamped` (own posts carry a stamp that parses, and share no instant with
  another post of their channel); the first of the exceptions above is what it
  excludes. The invariant ties the frontier to the latest post seen.
- `StateStoreProofs`, first part, `JSONFile`: `NeverTorn`, `FailedLeavesNothing`,
  `EachSaveItsOwn`. The name and every renamed inode are whole; temporary names and
  inodes correspond. Second part: `TypeOK`, `NoLostUpdate`, `ReadsGoForward` and the refinement
  `OneAtomicUpdate`. While a request holds the lock, what it loaded is what the name
  still refers to, because every save is made under the lock.
- `ServeProofs`: `TypeOK`, `HandlersBounded`, `AnswerTellsHandled`, `NothingLeftBehind`.
  Type correctness carries the core of it: semaphore, map and WaitGroup are functions of
  where the goroutines are. The slots are bounded by cardinality; the shutdown
  invariant says that once the active connections were closed all that are left of
  them are cancelled and severed, since none is accepted any more. Its last part is
  `AloneIsReachable` of `Listen`: while a daemon has met no other it is the only one
  that runs, and the path is empty from its removal to its bind and its own after
  that. The definitions of `Listen` have names of their own (`SocketInit`,
  `SocketNext`) so that one module can speak of both.
- `EngineCallProofs`: `TypeOK`, `ResponseIsWhole`, `BlameIsRight`, `BuffersQuiet`,
  `KillReachesGroup`, for any set of processes on both platforms. The invariant: the
  buffer counts what was written unless it is cut; once `cmd.Wait` is past the process
  or the pipes the engine is gone or nobody holds a pipe, and neither comes back;
  signals follow the deadline; a result, but for the two early ones, was taken from
  `cmd.Wait`; a group has only processes that were born.
- `EngineChecksProofs`: `ProvenIsPlatformOrder`, `ActivityCoversAcked`,
  `AckedWasNotified`, for any clients, posts and losses. A base is at or below the
  cursor and a check has seen more than its base, so its edge climbs; what is new to
  the cursor is therefore within some reply. The invariant speaks of the posts that
  are *saved* (acknowledged, or in a reply that can be): the activity covers them, a
  saved request was notified, missed, answered or is on its way, and a watched one is
  in every reply that saves it. `ImplementsCursors`: every step is one of `Cursors` or
  leaves the cursors alone, so that what `CursorsProofs` shows holds here
  (`ChecksNeverReturn`). `TypeOK` needs one more invariant, `WithinPosted`: nothing that
  is kept is ahead of the platform. `BlockedByLoss` and `BlockedForGood` are the safety
  half of `CatchesUpOrBlocked`: edges are recorded at the present cursor only and until
  a loss some check holds the successor, so a cursor stands still only after a loss;
  and then for good, since a base that has a successor is not recorded again.
- `RequestsProofs`: `TypeOK`, `VerdictIsRight`, `SidesAgree`, for any limit, stream, tail
  and delivery of the bytes. The invariant says of each phase what has been read and
  found so far (`ReadSoFar`), and of a rejected request that one of the reasons
  holds (`RejectedFor`). `RoundTrip` goes through the four types and carries `SidesAgree`.
- `KeychainProofs`: `TypeOK`, `AnswersExplained`, `NeverAGap`, for any processes and
  tokens. A set carries its token and, past an update that found nothing, the memory
  of that.

Only model-checked: the liveness properties (`LockReturns`, `ServeReturns`,
`SlotsComeBack`, `CallReturns`, `CatchesUpOrBlocked`), which are beyond the prover
(fairness and ENABLED).

## What is not modelled

File modes and directory creation; loss of power (no `fsync` before the rename: the
models lose processes, not what the system has buffered); transient errors of
`Accept`, which change nothing; the number of a process group that is reused; what
handlers compute; the types that are encoded field by field and the validations of
one line (`GetPostArgs`, `DeleteJobState`); `SocketPath`, `EnginesPath` and
`EngineDir`, functions of the environment; the capability tables and `Apply`, an
overlay of a map over a slice; the file that stands in for the Keychain in tests;
scripts and build files. Of the check protocol, `ack_batch` and the answers of
`check_cursors` are left out. `PROJECT.json` gives the reason for each component.

## Plan

In the order of importance; done: `Cursors`, `Pending`, `JSONFile`, `AtomicState` and
`StateStore`, `Serve`, `EngineCall`, `EngineChecks`, `WireArgs` and `Requests`,
`Keychain`, `Listen`; proofs of every safety property of the passing runs.

1. `Conversation`: `Call` against `serveConn` with the deadlines of both: which answers
   a client that retries can get.
2. The other operations that touch cursors (`ack_batch`, `check_cursors`), if more of
   their protocol is written down than their arguments.
