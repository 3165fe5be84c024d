# Outboard in TLA+

Outboard lets a Rust host find, inspect, resolve and run plugin executables, once per
command or as persistent workers that speak framed JSON over their stdin and stdout.
This directory models the parts of it that have state, concurrency or failure, checks
them with TLC on small instances, and proves what matters most with TLAPS.

File names below are relative to `src/crates/`. `lib.rs` is `outboard-tokio/src/lib.rs`,
`worker.rs` is `outboard/src/worker.rs`; `cache.rs`, `registry.rs`, `discovery.rs`,
`process.rs`, `manifest.rs` and `doctor.rs` are in `outboard-core/src/`.

## Inventory

| Component | State | Operations | Interacts by | What is hard | Correct when |
|---|---|---|---|---|---|
| frames and framing (`outboard-protocol`, `lib.rs` 30-108) | two pipes | read, write | pipes of the child | half-written, malformed and oversize frames, full pipes | readers and writers never wait for each other for ever |
| tokio client (`lib.rs` 137-427) | `pending`, `next_id`, `global_rx`, reader task, child | spawn, invoke, cancel, next_event, finish, ping, shutdown, Drop | frames; channels from the reader task | concurrent invokes, replies racing registration, futures dropped half way, shutdown racing replies | each caller gets the outcome of its own request, or learns that the stream ended; shutdown loses nothing; no orphan |
| tokio server (`lib.rs` 436-655) | `pending` tokens, `JoinSet`, writer task, read loop | one arm per host frame, handler tasks | frames; unbounded channel to the writer | id reuse, cancel racing completion, panics, writer failure, drain | one session per id at a time; acknowledgement last; ends with its host |
| synchronous client (`worker.rs` 60-285) | reader thread, channel, child | spawn, invoke, cancel, ping, shutdown, Drop | frames | stale frames in the one channel, no timeout in invoke, errors of spawn | calls get their own answers, every call returns, nothing is leaked |
| synchronous server (`worker.rs` 287-442) | the loop | one arm per host frame | frames | blocked writes, panics | strictly one invocation at a time |
| process capture (`process.rs`) | three threads, child | `run_capture` | pipes, signals | pipe pressure, timeout racing exit, descendants | complete output, child reaped, returns |
| manifest cache (`cache.rs`, `registry.rs` 166-187, 299-330) | map per host, cache file, temporary file | load, get, insert, invalidate, clear, persist | the shared file | several hosts, crashes, executables replaced | never a manifest the executable would not print; a crash never tears the file |
| discovery and resolution (`discovery.rs`, `registry.rs`) | candidates, shadowed, precedence | discover, inspect, resolve_best | file system, cache, capture | duplicates, links, lying executables, files that move | documented precedence |
| manifest and compatibility (`manifest.rs`) | none | validate, compatibility_issues; `validate_hello` of the servers | used by resolve_best and the handshake | two checks of one contract, lists with an entry twice | what resolves is accepted at the handshake, and satisfies the requirement |
| control plane of a plugin (`outboard/src/control.rs`, `doctor.rs`) | none | detect_control_request, dispatch | argv, stdout | executables that answer as they like | |
| conformance tests (`outboard-testing`) and `plugins doctor` (`outboard-clap/src/management.rs`) | the report so far, a worker session | check_plugin; select, doctor `--deep` | captures, sessions, the cache | the executable changes between checks, silent or chatty workers | healthy exactly if well made; healthy is usable; they end unless held |
| ToArgv (`outboard-clap-derive`, `outboard-clap/src/lib.rs`) with `WireOsString` | none | append_argv, command_typed, validate_args | argv of a process, args of an invoke frame, clap | hyphens, delimiters, separators, order of fields, bytes that are not UTF-8 | clap parses back the value that was written |
| identifiers, schemas, the other management commands, examples | none | | | | |

The hazards, each at its line with the properties that cover it, are listed in
`PROJECT.json`.

## Modules

```
WorkerTransport            frames and the two pipes
  AsyncClient              tokio WorkerClient, Invocation
  AsyncServer              tokio serve_worker
  SyncClient, SyncServer   the outboard crate's
  AnyHost                  a host that keeps no rule
AsyncWorker       = AsyncClient x AsyncServer     implements WorkerService  (AsyncWorkerProofs)
SyncWorker        = SyncClient  x SyncServer      implements WorkerService  (SyncWorkerProofs)
ServerAnyHost     = AnyHost x AsyncServer         (ServerAnyHostProofs)
SyncServerAnyHost = AnyHost x SyncServer          (SyncServerAnyHostProofs)
ProcessCapture                                    (ProcessCaptureProofs)
ManifestCache                                     (ManifestCacheProofs)
Registry                                          (RegistryProofs)
Manifests
  ControlPlane             detect, dispatch, doctor reports
    Conformance            harness, doctor, host  (ConformanceProofs)
Argv                       ToArgv, WireOsString, clap
```

`MC*.tla` give constants that a `.cfg` cannot write down. Operators introduced by
"Mutant of ..." are wrong forms of the definition after them; they are not used by any
specification and exist to show that the properties can fail.

**WorkerTransport.** A pipe is a FIFO of at most `PipeCapacity` whole frames. A frame is
its type, its request id and its nonce; Progress and Output are one type, `event`, since
every reader treats them alike. `torn` is what a write given up half way leaves behind:
the reader waits for the missing bytes, and the bytes of the next frames end up in them.
`malformed` is anything on stdout that is no frame. Exit of the child leaves what it wrote
in the pipe. A grandchild that holds the worker's stdout open is not modelled here (it is
for captures).

**AsyncServer.** One action per arm of the loop (`LoopPing`, `LoopCancel`, ...). Where the
code awaits, the action is split: `LoopCancel` cancels the token and `CancelReturns` is the
hook's return; `LoopShutdown` cancels all tokens and `DrainDone` follows the last join;
`TaskReturn` sends the terminal frame and `TaskRemove` takes the lock and removes the id.
The writer task has its own actions, and `WriterFails` closes the channel. The handler is
free: events, Ok or Err at any time; `HandlerFaults` adds panics, errors of its cancel
hook, prints to stdout and crashes of the process, `OversizeResults` results that may be
over the frame limit, `Leaky` a context that outlives its handler. `validate_hello` is the Boolean
`accepts` of the plugin.

**AsyncClient.** `InvokeRegister` is lines 281-290, `InvokeWrite` the write, `InvokeFails`
its error; `InvokeDropped` a future dropped between them. The reader task routes in one
step and removes a finished id in the next (`ReaderRoute`, `ReaderRemove`), as the two
locks do. `FinishRecv` is one turn of `finish()`. `NextEvent` hands a frame to the caller;
when it was the terminal frame the invocation is `drained`, and a `finish()` on it ends as
`spent`, with `ChannelClosed` and without the events taken before. `Unborrowed` is what the borrow checker
guarantees: ping, shutdown and Drop do not overlap an unfinished invoke, but invocations
and their cancels outlive them all. `ClientDropped` is Drop. The control timeout may
elapse at any moment it is armed. The nonce of a ping is the caller's: any, one used before
included.

**SyncClient, SyncServer.** One thread per side and the client's reader thread. A call
writes (`WriteFrame`, which waits for room) and then reads; `WriteError` is the `?` of
each call, with what it drops. Every end goes through kill, wait and join, which are three
steps. `leaked` is a spawn whose hello could not be written. Cancels are of requests that
were made. The caller chooses the nonce of a ping (the harness and the doctor pass constants)
and may repeat it; `pinged` is a history variable that tells for each nonce whether its last
ping returned Ok and whether one has ever failed.

**WorkerService.** What callers may rely on, without frames or processes: a call is
resolved with the outcome of its own work, is told `closed` only when the link is lost,
and a shutdown leaves no work undone and no caller without an answer.

**ProcessCapture.** The plugin is any program, with at most one descendant that inherits
its streams; output is counted in units. `expires` is chosen once: whether the timeout is
short enough to elapse. `PollExpired` is kill and wait.

**ManifestCache.** Hosts share one file. `persist` is snapshot, create, write, rename,
and where the rename fails remove and rename again, each a step that may fail, and at which a
host may crash or another act. A rename fails for want of the temporary file, which another
host may have taken, or of itself, which the history variable `failed` remembers; any error of
it leads to the remove. A file that is open follows its inode through a rename, so one host's
bytes can land in the cache file another has just put in place. `Aliased` paths are found
under an identity their manifest denies.

**Registry.** Names are ordered as the alphabet orders them; `disk` says which executable
is at each path, so two paths may be one file. The steps are one override, one `read_dir`,
the test of one directory entry, its insertion, which compares files, one inspection, the
choice; a file may move between any two of them (`MaxChanges`). A manifest is the name it declares and one number for compatibility and
score.

**Manifests.** A version requirement is the set of the versions it matches, an `Option` a
set of at most one element, and the lists are sequences, since `interface()` and
`capability()` take the first entry. Each part of `compatibility_issues` is an operator
that gives the issues it finds. `Satisfies` says what a requirement means without an order
of entries; it is not code, and what the code is compared with.

**ControlPlane.** An executable is the manifest it prints, the one it serves, and what its
closures and its worker do. A request whose `answers` is `"library"` it dispatches as
`control.rs` does; to another it prints something else, exits or hangs, each request by itself,
so a plugin may fail in its control ping alone. `keeps` are the requests whose run leaves a
process behind that keeps the output streams open.

**Conformance.** Drivers act one after another on one path: the harness or the doctor, then
a host that resolves and spawns. Each call of `check_plugin` starts a report of its own. Each run of the executable is a step, between any two of
which the executable is replaced or removed; `cached` is the manifest cache, whose entry may
outlive the executable it is of (the fingerprint is the one of `ManifestCache`), or be of an
inspection under another name, which is denied and evicted. A capture of a run whose streams
are kept (`CaptureHeld`), and the end of a client of such a worker, which joins its reader
thread (`JoinHeld`), hold the driver for ever: timeout and kill do not reach who keeps them. A worker
session is that of the synchronous client by what each call awaits; its frames and threads
are those of `SyncWorker`. `Waits` is a call that goes on waiting: each frame that is not the
awaited one starts the timeout anew.

**Argv.** A field is its attributes and the shape of its type, a string a sequence of atoms.
`Emit` writes one field, `SendFrame` and `RunProcess` are the two ways to the plugin, and
clap parses one argument per step. In a frame a string is its encoding and its units: text as
text, in which an atom that is not UTF-8 would become the replacement character, and anything
else in the units of the platform; units of another platform are refused. clap is external: a parser with no settings of its own,
modelled from what the generated code and `validate_args` rely on: flags, `=`, delimiters,
`--`, the order of positionals, `last`, `trailing_var_arg`, subcommands.

## What the runs check

| Run | Shows |
|---|---|
| `server_any_host` | tokio server against a host that writes five arbitrary frames: tokens match tasks, acknowledgement last, sessions of a reused id apart |
| `worker_concurrent` | two concurrent invocations with cancels, a worker that crashes, callers that give up: no reply lost, one terminal frame, `ChannelClosed` only at the end of the stream, shutdown delivers; refinement of `WorkerService` |
| `worker_live` | one request and a ping with every fault of plugin and stream, and a caller that takes events itself: orderly transcripts; `finish()` returns, after `cancel()` also for handlers that otherwise never come back, and after `next_event()` took the terminal frame; a full stdin gets room again; spawn, ping, shutdown return; the worker ends with its client or its host |
| `sync_server` | one invocation at a time on the wire; a worker whose host closed both pipes ends |
| `sync_worker` | own answers, complete transcripts, fresh pongs, nothing left behind, every call returns; refinement of `WorkerService` |
| `capture` | complete output, child reaped; returns by the timeout, and without one under pipe pressure |
| `cache_hosts` | the cache tells the truth with two hosts; a host that is alone never tears its file, and loses it only after a failed rename |
| `registry` | the documented answer and nothing hidden; order and uniqueness while files move, between any two of the steps |
| `conformance` | harness, deep doctor and host over executables with one thing wrong, replaced on the way, through a stale cache: reports are right, healthy is usable, sessions fit, what resolves is accepted, everybody ends who is not held |
| `argv` | 11 kinds of flag and 9 of positional, alone, in pairs, with subcommands and groups: exactly the regular values come back, also if they are not UTF-8; a command of flags alone never changes silently |

Two runs show the code doing other than the documents say (`findings` in `PROJECT.json`):
`handler_panic`, an invocation that never gets a terminal frame from the tokio server, and
`cache_replaced`, a stale manifest cached under a new fingerprint.

Some properties name the cases in which the code does not keep them; each is a hazard in
`PROJECT.json`:

* `Silenced` (`ResolvesUnlessSilenced`, `CancelResolves`): besides a panic, a result over
  the frame limit ends the tokio writer task and with it every answer; an invoke made
  after the reader task gave up on a malformed frame, or written after half a frame, is
  never answered. The synchronous server has neither of the first two: a panic or an
  unwritable result ends its process, and with it the call (`sync_worker` has both
  switched on).
* `HookMayFail` (`OneTerminal`, `RepliesHaveRecipients`, `ShutdownDelivers`): an error of the
  cancel hook is sent as a second terminal frame for the cancelled request. The properties
  except that request and no other; the last two except a request whose context outlives its
  handler (`Leaky`) in the same way, and `ShutdownDelivers` one whose handler panicked.
  `worker_concurrent` has none of these faults; that a fault of one request takes nothing
  from its neighbours is what the three theorems of `AsyncWorkerProofs` show, for all of them.
  `KeepsPromise` has no such exception, and `worker_concurrent` checks it with hooks that
  succeed: a failing one is its mutant `CancelAnswers`.
* `StreamsReleased` (`TimeoutReturns`, `PressureReturns`): a descendant that keeps the
  plugin's stdout open holds `run_capture` beyond its timeout.
* `ChildReaped` is about the two ways out of the loop of `run_capture`, exit and timeout; the
  `?` of `try_wait` (`process.rs` 105) would return with the child neither killed nor reaped,
  and is not modelled.
* `PingIsFresh` excepts a nonce of which a ping has failed, by a timeout or by the error of a
  cancel: the late pong of that ping is taken for the answer to the next ping with the same
  nonce, in the tokio client too. Nonces whose pings returned Ok may be repeated.
* `CacheFileSurvives` excepts a rename that fails with its file in place: `persist` then removes
  the cache file before it tries again (`cache.rs` 147-150), and a crash or a second error
  between the two leaves none. The next load starts empty.
* `NoOrphan` excepts a host that dies while its worker waits, after a shutdown, for a
  context that outlived its handler (`WriterHeld`).
* `NothingLeft` excepts a spawn whose hello cannot be written.
* `DriversEnd` excepts a worker that acknowledges a shutdown and stays (`child.wait()` has no
  timeout), one that floods a ping or shutdown with other frames, and an executable that leaves
  its output streams to a process that outlives it: `check_plugin`, doctor and resolve then wait
  in the joins of `run_capture` (`process.rs` 111-121, 139-146), or in that of the client's
  reader thread, which no timeout bounds: `Held`.
* `HealthyIsUsable` is about hosts that ask for worker execution. The harness never looks at
  `framework`; for a worker the handshake does, but a plugin without worker mode that accepts
  no such framework is reported healthy and rejected by every host. `plugins doctor` prints a
  failing report and returns `Ok`.
* `Regular` (`InverseOfParse`) is the exact set of values for which ToArgv is the "inverse
  serializer" of ARCHITECTURE.md:28. Outside it are: `Some` of an empty `Vec`, a skipped field
  that is not its default, a delimiter inside a delimited string, a string that begins with a
  hyphen without `=` or a separator, a positional after one that is absent, anything written
  after a separator, a subcommand that is not the last thing written or comes after a `Vec` of
  positionals, a positional with the name of a subcommand, an optional group that writes
  nothing. One irregular value comes back by luck: `--` as the string before trailing arguments
  (`ReadsEscapeTwice`). A process whose first argument is `__outboard` goes to the control plane
  (`diverted`). `validate_args` refuses some of these, not those that parse to another value.

### Bounds

Two requests are the fewest that can be confused with one another, and they are used
wherever a property relates requests. `worker_live` has one: with two and every fault
TLC does not finish its liveness properties in five minutes, and callers give up in
`worker_concurrent` only. `ResolvesUnlessSilenced` and
`CancelResolves` were also checked with two requests for panics with oversize results and
for torn writes, each alone. `PipeCapacity = 1` makes every writer block at the earliest
moment; larger pipes only add slack, except where the property is about the order of
frames on the wire (`sync_server` has 3). Against an arbitrary host five frames allow
hello, invoke, cancel, a second invoke of the same id and shutdown. One event per task is
enough to come before or after each other frame; the runs with the tokio client have none,
as its reader task treats an event as it treats `Started`. Captures write three units through pipes
of two, so a writer fills a pipe and still has more. Two names, two executables, two
directories and one of them listed twice give every case of overriding, shadowing, linking
and repetition. In `registry` executables are symmetric; nothing else uses symmetry. In `conformance` one
replacement and one operation too slow are enough, as a driver compares what it learnt before
with what it meets after; executables differ from a good one in one respect, over three
manifests, among them each request that alone fails and each that alone leaves its streams kept.
Two pings of `sync_worker` have equal or different nonces; `worker_live` has one ping, and the
theorems of `AsyncWorkerProofs` hold for any number with any nonces. `argv` has one string for each way in which clap treats a string; pairs of fields
show every rule, which are all about one field or the order of two, and a third separates a
`Vec` from the subcommand or the escape that follows it.

Deadlock is checked except where the system really stops: a host that has closed its pipes
or sent all its frames (`server_any_host`, `sync_server`), and invocations that are
silenced (`worker_live`, `handler_panic`).

### Fairness

Tokio runs ready tasks and the operating system ready threads and processes; a kill signal
is delivered; an armed timer fires; a caller polls what it awaits. Nobody is obliged to
call anything, plugins are not obliged to write or exit, and handlers return only once
cancelled (`i \in cancelled /\ TaskReturn(i)`), except in `SpecHandlersReturn` (`handler_panic`) and in the
synchronous specifications, where a handler cannot be cancelled and `CallsReturn` assumes
that it comes back. Where a property needs more of the plugin it says so itself: `HandlersReturn` in
`ResolvesUnlessSilenced`, `PluginWorks` (it reads its input, writes its output and exits)
in `PressureReturns`. In `conformance` the driver goes on whenever it can (`WF_vars(Step)`): a
capture and `recv_control` have their timeouts, and where the code waits without one the
worker's kind (`chatters`, `lingers`) or the kept streams disable the step.

## What is proved

For every value of the constants, from the named assumptions of the modules and, where it is
said, from one hypothesis more. TLC checked each inductive invariant on the module's run
before it was proved. 28 of the runs' properties are theorems.

**`ServerAnyHostProofs`: `TypeCorrect`, `PendingCorrect`, `AckCorrect`, `SessionsCorrect`.**
`PendingMatchesTasks` is inductive over `TypeOK`. `AckIsLast` speaks about positions in
`stdout \o outq` and is not inductive: nothing in it says that a server still in its loop has
not acknowledged. `AckInv` adds that, and keeps the two queues apart so that a step that moves
a frame from one to the other is local; `AckInvImplies` puts them together again.
`SessionsSeparate` relates neighbouring frames of one id, so an appended frame can be judged
only by the last one of its id: `LastFits` says that this one fits the state of the id's task.

**`SyncServerAnyHostProofs`: `SequentialCorrect`.** `OneJob` is the same idea for the server
that writes itself: neighbours fit (`Paired`), the last frame fits what the thread is doing,
and an answer that leaves an invocation open is about the job.

**`SyncWorkerProofs`: `TypeCorrect`, `CleanEnd`, `PingAnswered`, `PromiseKept`,
`TranscriptsWhole`.** Of the parts of `Inv`, the hard one is `ComingHonest`: a terminal frame
anywhere between the server and the owner says what the handler came to. It needs that an id is
invoked once (`InvokeOnce`), that no cancel is of a call still under way (`CancelIsLate`),
since the error of a failed hook carries the id of the request, and that the owner is in the
call its frame was written for (`FrameOfCall`). For `PingAnswered` the invariant is `NoncesOnce`:
a nonce of which no ping has failed is under way in one place at most, being written, in `stdin`,
being answered, in `stdout` or in `rx`, and in none when its last ping has returned. It needs
`OpenOfCall`, that only the ping the owner is in is open: a caller may repeat a nonce, but not
while a ping of it is under way.

`TranscriptsWhole` is about a transcript as a whole, so its invariant is about a request's
whole stream: what its call has collected, what is in `rx`, in `stdout` and being written, in
this order. `Streams` says that the stream is one `started`, events and at most one end in
that order (`InOrder`), that nothing of it is lost while the call lasts (`Complete`: as many
frames as the handler has sent, counted with `Cardinality` over positions, so that no
recursion is needed), and that a call that has returned leaves nothing of it behind
(`NoneLeft`), hence no later transcript holds any (`OnlyProper`). Three lemmas say what one
step does to a stream: a frame moves on (`Shift`), is lost with a pipe or a channel (`Loss`),
or is of no request (`Noise`). `Frames` is the part about frames of no request: hello is the
first frame and taken before any method is called, no acknowledgement is said before the last
method is, and the error that ends the stream is the last in the channel.

**`AsyncWorkerProofs`: `TypeCorrect`, `ClosedCorrect`, `TranscriptCorrect`,
`OneTerminalCorrect`, `RecipientsCorrect`, `ShutdownCorrect`, `PromiseKept`.** All but the
last hold whatever fails, for any number of concurrent requests; what a request's own handler
does to it is in the properties, and what others do is not an exception. `Core` says for each
id where it can be: in the client's books, asked for in `stdin`, taken by the server, and that
nothing was heard of it before. A consequence is that the duplicate-id branch of the server is
not reached with this client. `Course` adds what each channel and transcript holds at each
stage. `Ordered` (a terminal frame is the last of its id, on the wire and in the channel) holds
of each id whose hook does not fail. That a failing hook touches its own request alone needs
`Wanted`: whose cancel is in `stdin` or being served was cancelled by its caller. `Shutting` (a
shutdown is asked for by a client that invokes no more; a result that exists is on the wire, in
the channel or with the caller, and the acknowledgement behind it) holds of each id whose
handler has not panicked.

`PromiseKept` is for handlers that neither panic nor fail in their cancel hook, since
`WorkerService` knows neither: a panicked task leaves no terminal frame, and a failed hook
sends a second one. Contexts that outlive their handler are allowed.

**The refinements.** `PromiseKept` of both worker modules is `Spec => KeepsPromise`, that is,
`Init` implies the abstract `Init` and each step is a step of `WorkerService` or changes
nothing in it. One lemma is about the server's steps (only the start and the end of a job are
visible), one about the client's (only calls, returns and the end of the link are).

**`ProcessCaptureProofs`: `CaptureComplete`, `CaptureReaps`.** `CaptureInv` adds that what was
captured and what is in the pipe is what was written, and that a drain thread is done only
when its pipe is empty and nobody holds the other end.

**`ManifestCacheProofs`: `CacheTruthful`, `CacheSurvives`.** The first is under `Quiet`:
nothing is replaced between its run and its fingerprint, and fingerprints differ. Without
either it is false (`cache_replaced`). `CacheInv` says that every map anywhere, in memory, in
a snapshot, in the file or the temporary file, pairs versions with their own fingerprints, so
no torn or overwritten file can introduce a lie. The second is the action property
`CacheFileSurvives` for any number of hosts of which one is up; it rests on `Single`: this
host renames only a file it has written whole, the cache file is whole or not there, and the
host comes to the branch that removes it only if a rename has failed of itself.

**`RegistryProofs`: `FirstWinsAlways`, `NothingHiddenAlways`, `ResolvesRightAlways`, and the
types.** `Kept` holds however files change: ranks are given once, and there is one candidate
at most for a place that was searched. `AtRest` holds until the first change: what was searched
is reported, each name is selected where the documents say to look for it (`Placed`), ranks
follow those places (`Ordered`), and what was weighed is what the files are worth.

**`ConformanceProofs`.** `CompatibilityExact`: `compatibility_issues` of a valid manifest is
empty exactly if `Satisfies` holds, as the first entry of an identifier is then its only one
(`FirstIsEntry`, `EntryIsFirst`). `SessionFitsAlways` and `ResolvedIsAcceptedAlways`, for
every set of executables and scenarios: `Inv` adds what each driver knows at each step
(`Informed`: a host that spawns goes by a valid manifest without issues), what the client has
compared (`Connected`) and that the host comes last (`Order`). `ReportRightAlways` and
`HealthyIsUsableAlways`: `Harness` says what the report so far tells about the executable at
each step of `check_plugin` (`Judged`), `Host` that a host that asks for no more than the
harness did has met nothing it was not told of. A driver that is held gives no verdict
(`HarnessHeld`). That these two are about runs in which nothing
was replaced or too slow is in the properties themselves.

Only model-checked:

* everything under fairness: `ResolvesUnlessSilenced`, `CancelResolves`, `OwnerReturns`,
  `DrainedReturns`, `NoOrphan`, `HostGoneWorkerGone`, `CallsReturn`, `TimeoutReturns`,
  `PressureReturns`, `DriversEnd`, which the prover cannot treat;
* `InverseOfParse` and `FlagsFailLoudly` of `Argv`, inductions over the strings and the fields
  of a command.

## Not modelled

The text of frames and names: JSON, the character tests of identifiers, executable names. Of
the derive, the names of flags and variants (`rename`, `words`; a raw identifier such as
`r#type` gives `--r#type`), value enums, defaults, which clap fills in for what is not
written, and clap settings such as `allow_hyphen_values`. `flatten` and `subcommand` over a
`Vec`, which clap has no use for. `plugins list`, `inspect`, `path` and the CLI schema, which
print what other parts computed. The examples and scripts. A message between
platforms (`PlatformMismatch`), and platforms other than Unix and Windows, where an argument
that is not UTF-8 is sent lossily. A cancel hook that never returns, a plugin that
lingers after `serve_worker` has returned in `SyncWorker` and `AsyncWorker` (`Conformance` has
it), errors of `try_wait`. The synchronous client with a tokio worker, and the reverse, are
not composed: each server is checked against a host that keeps no rule. Counters do not
overflow: ids are `u64`.

Known limits of what holds, each noted at its hazard: the cases listed above; two hosts can lose or garble the cache file between them
(never its truth), and one host alone can lose it by a rename that fails; discovery takes no snapshot of the file system.

## What could come next

`FlagsFailLoudly` and `InverseOfParse` for commands of one field, where no induction over the
command is needed, and a `WorkerService` in which work may fail silently, which the tokio
worker would implement with panics too.
