# Verification of botUserAgent

botUserAgent runs SIP *bots*: one process registers several user agents at a SIP
registrar and lets JavaScript behaviours answer, place and end their calls.  This
directory holds TLA+ models of the parts of the process that run concurrently, the
TLC configurations that check them on small instances, and TLAPS proofs, for every
size, of their types and of their safety properties, all but three about what the
combinators of q.js answer.

Paths below are relative to the repository: `BotAgent.java` and `BotsManager.java`
are in `botRunner/src/main/java/net/sourceforge/peers/botUserAgent/`, the scripts and
their libraries (`libs/`) in `botRunner/src/main/resources/scripts/`, `ExecutorRouter.java` and
`PluginsManager.java` in `botRunner-api/`, the front-ends and `SoundTTSPlugin.java`
in the `plugin-*` directories.

## The system

| part | state | operations | threads |
|---|---|---|---|
| **Bot agents** (`BotAgent`) | a peers user agent with its dialogs | acceptCallByCallId, terminateByCallId, busyByCallId, pickupByCallId, invite, call; handlers incomingCall, remoteHangup, ringing, ... | handlers on the receiver thread of the user agent, operations on any thread, their effect on the pool |
| **Request store** (`BotsManager.sipRequests`) | one map from Call-IDs to SIP requests for all the bots | storeSipRequest, getSipRequest, removeSipRequest | all of the above |
| **Behaviours** (`behaviours/*.js`) | the timers they set | incomingCall, remoteHangup, functions given to setTimeout | receiver threads, the timer thread |
| **Event loop** (`libs/context.ext.js`) | a `Timer`, a `Phaser`, one `canceled` flag per call | setTimeout, setInterval, their cancel functions, main, shutdown | any script thread, the timer thread |
| **Life of the process** (`BotsManager.run`, `run.js`, plugins) | loaded scripts, agents, router, front-ends | load, build, register, launch, attach, shutdown hook | main, pool, receivers, hook |
| **Command router** (`ExecutorRouter`) | maps of routes, lastCommand | attachRoutes, executeCommand, execute | main, console, network clients, web requests, scripts |
| **Voice download** (`SoundTTSPlugin.dwn`) | isDownloading, table of codes, files | getdwns, getdwnstxt, dwn | every thread that runs commands |
| **Speech playback** (sayWords, `SoundUtils`, `BotUserAgent.sendAudioFile`) | one marytts object, sound files, the RTP session of a bot | sayWords, setVoice | a Timer thread per call of sayWords, a sender thread |
| **Promises** (`libs/promises.js`) | promises with their deferreds, a queue of handlers | new Promise, resolve, reject, then, all, race, done, flush | any script thread, the timer thread |
| **Q promises** (`libs/q.js`) | deferreds, the queue of nextTick, the list of unhandled rejections, timers | defer, then, done, notify and some thirty combinators, flush | any script thread, the timer thread |
| Configuration, resources, sound manager, jsLib, logging | — | read once, pure I/O, or unused | — |

How they interact: a SIP event reaches a `BotAgent` handler, which calls the script
(`JSCallback`); the script calls operations of the same `BotAgent` or sets timers
whose functions do; an operation looks the request up in the store **at once** and
submits the SIP operation to a cached thread pool, which runs it **later, in any
order**.  Commands reach the agents through the router.  A
script may also use one of the two promise libraries, which put every handler into a
queue of their own and ask the event loop for a flush.

What is hard: the store is shared by bots that know nothing of each other; what was
read before a submission is used after it; a handler calls a script in the middle of
its own work; timers test and act in two steps; main, pool, receivers and shutdown
hook are never joined; the phaser of the event loop has anonymous parties; the queue of
promises.js is shared by threads without a lock; promises settle in any order while
handlers are given, called, and settle others.
`PROJECT.json` lists each hazard at its line with the properties that would catch it.

What makes each part correct:

- *agents and store*: the request of a live call is found, that of a call that is
  over does not come back, a submitted answer is not lost;
- *behaviours*: one conversation at a time, an answered call ends, a ringing call is
  decided;
- *event loop*: the phaser counts what is outstanding, main waits for its function and
  returns, the timer thread survives, a flush happens and happens once;
- *queue of handlers*: a handler is called, once, and in its turn;
- *speech*: what is played is what was asked, in the call it is for, and no file stays;
- *promises*: a promise settles once, its handlers are called once, later and in order,
  and a combination of promises comes to what its items make it;
- *life*: no agent before its script, no event lost once started, the start
  completes, the hook reaches every bot;
- *router*: the agent's own commands win, a thread executes what it was given, a
  declared command is found;
- *download*: the flag is not stuck, a command is answered, a code stands for one
  component.

## The modules

| module | models | extends |
|---|---|---|
| `CallControl` | BotAgent's operations, tasks and handlers; the store; the pool | |
| `Behaviours` | the scripts and the timer thread over it | `CallControl` |
| `SpeechPlayback` | sayWords and what plays it, over the scripts | `Behaviours` |
| `EventLoop` | context.ext.js with the phaser, and the flush of promises.js | |
| `Lifecycle` | BotsManager.run, registration, shutdown | |
| `CommandRouter` | ExecutorRouter and the threads that use it | |
| `VoiceDownload` | dwn and the table of codes | |
| `TaskQueue` | the unlocked queue of promises.js, access by access | |
| `PromiseSpec` | what any promise library promises: the abstract specification | |
| `Promises` | promises.js, which implements it | (`PromiseSpec` by INSTANCE) |
| `QPromises` | q.js: nextTick, deferreds, messages, then, rejections | |
| `QCombinators` | q.js: all, any, race, timeout, async, ... and the callbacks they give | `QPromises` |
| `QScripts` | scripts that use q.js, which implements `PromiseSpec` | `QCombinators` |
| `*Proofs` | theorems about the modules they are named after, and below | them, TLAPS |
| `MC*` | constants for TLC | |

`SpeechPlaybackProofs` holds the theorems about `CallControl` and `Behaviours` too, which
`SpeechPlayback` extends, `CommandRouterProofs` those about `VoiceDownload`, the one
command with a state of its own, `PromisesProofs` and `QScriptsProofs` the refinements of
`PromiseSpec`; `QCountsProofs` goes on from `QScriptsProofs` with what all and any of q.js
count.

Operators named `Name_Something` and commented *Seeded fault* are no part of a
specification: they are mutated forms of the definition that follows them, and show
that a property can be broken by a plausible mistake in that code.

### CallControl

`sipRequests[c]` is the bot whose request the store holds under Call-ID `c`.
`role[b][c]` says whether bot `b` received or placed the call; `dialog[b][c]` is the
peers dialog (external): *hungup* and *ended* are both peers' TERMINATED, apart by
who ended the call.  `executor` counts the tasks submitted and not finished: it is a
bag, since one operation may be asked for twice.  `callback[b]` is the handler the
receiver thread of `b` is inside.

An operation (`AcceptCallByCallId`, ...) is one step: lookup and submission, with the
request captured in the task as the code's closure does.  The run() of a task is one
step, except those of invite and call, which are two: the INVITE goes out before the
request is stored, and the far end may answer between.  A handler is two steps around
its script.  `RunAccept` answers a call only when the request it was given is its own
bot's: peers finds the dialog by Call-ID but the server transaction by the request.

pickupByCallId does what acceptCallByCallId does.  register, unregister and close do
not touch calls (the first two are in `Lifecycle`); dtmf and the answer media settings
only set the media of the user agent.  `lastStatus` is only printed by the command
*list*, and `lastCallId` is never read: neither is in the model.  The ticks call an
empty function.  The store is a HashMap that nobody locks; each put, get and remove is
one step here, as if it were atomic: an entry that a get misses while the map is being
resized is in `CommandRouter`, not here.

### Behaviours

Adds `timers` (set and not fired), `loop` (what the single timer thread is doing) and
two histories: `gaveUp`, the answers that were cancelled for another conversation, and
`blind`, the timers that fired while an answer they go by was still in the pool.  Delays
are random in the scripts and the pool may take its time, so a timer fires at any time,
before or after the tasks that were submitted earlier.  answerHangup's answer is two
steps, because it tests getActiveCall and acts after.  The call back of theHeavyOne
always throws (it passes a string where `call` takes `CommandArgs`).  No command is
given in these runs, so the bots place no calls.

The code does answer two calls when the timer of the second looks before the pool has
answered the first.  `OneConversation` says that there is no other way: of two calls a
bot is in, the timer of one is in `blind`.  In the same way `AnsweredCallEnds` leaves
out a call whose hangup was asked for while its answer waited, because the pool may run
the hangup first.

`SharedCallIds` says whether one Call-ID may reach two bots of the process, as it does
with a ring group behind a proxy that keeps Call-IDs.

### EventLoop

The phaser is a record of parties, unarrived parties, phase and termination, with the
operations of `java.util.concurrent.Phaser` the code uses (external).  `main` is a
program counter through the function of that name, one step per phaser operation,
because functions of the loop arrive between them.  main has no caller in the
repository: it is modelled as the API the scripts are given, and may be called while
any functions are outstanding or being set.

A cancel function asks nothing of its task and is two steps: it counts the task off
(`CancelArrives`), then marks it canceled (`CancelSets`), and the timer thread may take
the task in between.  Whoever holds it may call it at any time and again (`Clears`),
also when the task runs, has run or was canceled, as q.js does with a timer that has
fired (q.js:1831).  Register and schedule of setTimeout are one step: between the two
the function is counted and has not run, as it is until its timer fires.

The only caller of setInterval is `promises.js`, which asks for a flush of its queue
with a timeout of 0 ms and an interval of 50 ms that call one function, `handleTimer`;
that function cancels both, from inside one of them, and flushes.  `request[f]` is the
place of the thread that asks.  Its timeout may fire before the variables that hold the
cancel functions are assigned, and the loop of the interval may run between the
scheduling of its first task and the assignment of `cancel` (`RequestInterval`,
`AssignCancel`), which then overwrites the cancel function of the task that is to come.
The tasks of an interval are modelled by two that take turns: a task sets the next one
before it calls the function, and is then gone for good.

What goes wrong is told by histories: `stray`, a task was counted off that was not
waiting, or ran although it was counted off; `orphaned`, main replaced a phaser that had
come to its end while functions could still run; `timeouts`, the mains that timed out;
`overwritten`, setInterval overwrote the cancel of a loop under way.  The properties
hold up to these: parties never exceed what is outstanding, and are just that until one
goes missing; no arrival throws unless main gave up a phaser; a flush happens twice only
after an overwritten cancel.

### SpeechPlayback

Extends `Behaviours` so that the answer of answerHangup also asks for its words, as it
does in the script.  `saying[s]` is the task of sayWords, one step per access to a
shared thing: the sound is generated, the file opened (created or emptied), written
buffer by buffer, played, deleted.  `sender[s]` is the peers thread that reads the file
meanwhile; an open stream outlives the deletion of its file.  Files are told apart by
the words that created them, so two streams into one file, and a reader of a file that
is being emptied, are in the model.  `session` (external) is the RTP session a bot has:
the one of the call answered last.  The synthesis takes any time, so words may be ready
long after the hangup of their call: they are then sent in another call of the bot, or
nowhere, since the bot's own hangup leaves the request in the store.  `SentInItsCall` is
about the moment the sender starts: while the call lasts it is the session of that call.

### Lifecycle

`run` is the place of BotsManager.run; building an agent is four steps (user agent,
init with its submitted registration, entry in the scripts' `bots`, entry in
`botAgents`) because events interleave with them.  Scripts may fail to load, init may
throw, a socket may fail.  `hook` is the shutdown hook, which may begin at any time
and captures the agents it iterates over; the router's own work is one step per
`attachRouteForExtension`.  An event is *lost* when botCb finds no entry, or when the
script needs the router before it is set.  The latter is a NullPointerException of
`execute`, which JSCallback does not catch: it leaves the handler on the receiver thread
of the user agent.  Whether that thread survives is up to peers, so both are allowed;
a bot whose receiver thread ended is in `deaf`, and every later event of it is lost.

### CommandRouter

One step per annotated method that is attached, and one per access to a shared field
in executeCommand and execute.  The maps are plain HashMaps: until all is attached, a
lookup may miss any entry (a put may be resizing the table).  A line is abstracted to
its command and its `from`, `r`, or the empty line.  A stale read of lastCommand (it
is not volatile) is not modelled.

### VoiceDownload

One step per read or write of the static flag and of the files.  A download may fail
or end with a file of the wrong size.  Codes are translated as numbered: by two for
the voices, by one and again from 0 for the languages.  When the site of the voices
cannot be read there is no installation configuration: the command throws before it has
changed anything, so that path has no step.

### TaskQueue

`asap` is `asap/raw` in core.js (promises.js:27, 166), that is, the function rawAsap: it
keeps the handlers of settled promises, the bare functions that handle makes, in an array
`queue`.  Any thread that runs a script calls it; only the timer thread flushes.  (The
other `asap` of the file, with its RawTask wrapper, is not on the path: nothing calls
it.)  Every read or write of the array and of its length is a step (`Asap`,
`ReadsLength`, `WritesSlot`, ..., `CallsSlot`, `CallReturns`, `ReadsSlot`, `MovesSlot`,
`Shortens`, `Cuts`, `Empties`).  A slot that is written beyond the end of an array that
was shortened meanwhile leaves holes, and flush throws in a hole.

A task may throw: not what the scripts throw, which handle catches, but handle itself,
when it pushes to the handlers of a promise that another thread settles meanwhile.  The
exception leaves flush with `index` beyond the first slot and the queue not empty, so
that rawAsap never asks for a flush again, and the rest is only called if a flush was
asked for before.

Three histories tell what happened: `overlapped`, a thread came in between two accesses
of another that belong together; `torn`, the array grew while flush moved its slots;
`threw`, a task threw.  Each property names what it does not survive, and TLC refutes it
without:

- `CalledAtMostOnce`, without `~torn`: a and b are called, flush counts the slots to
  move, c is appended, the length that is set counts c again, and a is still in the
  first slot and is called again;
- `ServedInOrder`, without `~overlapped`: a handler is lost or overtaken, when two
  threads read one length and the second writes over the first, or when one is written
  between the end of flush's loop and `queue.length = 0`;
- `EveryTaskIsCalled`, also without `~threw`: the rest is stuck, as told above.

requestFlush, which fails once the timer is shut down, always succeeds here.

### PromiseSpec, Promises

`PromiseSpec` has three variables: the `outcome` of each promise, the handlers
`waiting` on it, and the `answer` each handler was called with.  A step may settle
promises, for good, and either gives handlers to promises or calls the first handler of
one promise that was settled **before** the step.

`Promises` is the library with one thread in it at a time.  Its memory is one record
`m`, and its functions (`HandleAll`, `Resolve`, `NewResolver`, `Then`, `All`, ...) are
operators from memory to memory, because they call one another within one call of a
script.  A script makes the calls of `script`, and may call the resolve or reject it
holds at any time, as often as it likes and with a value, a promise or a foreign
thenable.  `Flush` runs the queue, one task a step.  The refinement mapping takes the
outcome from the promise at the end of the chain of those it follows; `waiting` and
`answer` are history kept in `m`.

`m.hung` is the loop `while (self._37 === 3)` that has no end: resolve refuses a promise
that is resolved with itself, but two that are resolved with each other are followed
round and round.  The library goes no further, and neither does the model.

### QPromises, QCombinators, QScripts

The same, for q.js.  A promise is a deferred (a number), a fulfilled value or a
rejection; what q.js does by a message (`promiseDispatch` with *when*, *get*, ...) is a
task of its queue that carries a record.  A callback is a tagged tuple of what it has
captured, and `Call` says what it does; so a combinator is written as in the code, as a
call of `When` with the tuples of its functions.  An action runs a task (`RunTask`),
fires a timer of *timeout* or *delay* (`TimerFires`), or is a turn of a script.

Scripts resolve a source with a value or a later source, never in a ring: with one,
q.js passes its messages round for ever, and the flush never ends.  There is no
`process`, `setImmediate` or `MessageChannel` in this virtual machine, so `nextTick`
asks for its flush with setTimeout, `runAfter` and `laterQueue` are out of reach, and a
task that throws does not end the flush.  Left out: *master*, *passByCopy*, the
deprecated *valueOf*, stack traces, *noConflict*, and that *all* writes its values into
the array of the caller.

Two comments of q.js say something else than the code does.  *race* (q.js:733) answers
"the first promise to be settled": of two that settle in one turn it may answer the
other one, since the handlers of a promise that follows come a turn later; the property
says "the outcome of one of them".  And the method `any` of a promise for an array
(q.js:1645) passes the promise itself to the function *any*, which finds no `length`
and counts nothing: its answer stays pending for ever.  The model has the function only.

## The runs

| run | configuration | checks | bounds |
|---|---|---|---|
| `call_control` | 2 bots, 1 Call-ID, fairness | LiveCallIsStored, HungUpCallIsForgotten, AcceptTakesEffect, HungUpCallIsCleaned, PlacedCallIsStored | `MaxPending` 2 distinct tasks, `MaxCopies` 2 of one |
| `behaviours` | a bot of each behaviour, 2 calls, fairness | OneConversation, AnsweredCallEnds, RingingCallIsDecided | none needed |
| `behaviours_shared` | 2 answerHangup bots, 1 call, fairness, SharedCallIds | AnsweredCallEnds is **violated** | none needed |
| `speech_playback` | 1 answerHangup bot, 2 calls, symmetry | SaidAsAsked, SentInItsCall, FileIsDeleted | `Chunks` 2 |
| `event_loop` | 2 functions, 1 cancel, 2 mains, 1 flush, fairness | PartiesAreOutstanding, MainWaitsWhenCounted, TimerThreadSurvives, FlushedOnce, FlushHappens, MainReturnsUnlessTimedOut | `MaxMains` 2 |
| `event_loop_flush` | 1 function, 1 main, 1 flush | MainWaitsForFn is **violated** | `MaxMains` 1 |
| `lifecycle` | 2 bots with one script, 2 front-ends, fairness | HookReachesEveryBot, EventsAfterStartAreHeard, StartupCompletes | none needed |
| `command_router` | 2 line threads, 1 web thread, 4 attachRoutes calls | OwnCommandWins, ExecutesWhatWasTyped, DeclaredCommandIsFound | none needed |
| `voice_download` | 2 threads, 3 voices, 2 languages, fairness | FlagIsNotStuck, DwnIsAnswered | none needed |
| `task_queue` | 2 script threads and the timer thread, 5 tasks of which one may throw and one asks for another, fairness | CalledAtMostOnce, ServedInOrder, EveryTaskIsCalled | `Capacity` 1 |
| `promises` | 5 scripts on 2 promises of their own, fairness | AllAnswersItsItems, AllSettlesWithItsItems, KeepsItsPromises, HandlersAreCalled | `MaxPromises` 7, `MaxResolvers` 4 |
| `q_promises` | 26 scripts on 2 deferreds, fairness | TypeOK, AnswersAsPromised, SettlesWithItsInputs, UnhandledIsUnobserved, NoProgressAfterAnswer, NothingIsSwallowed, KeepsItsPromises, QueueDrains | `Notifying` one deferred, once |

The type invariants are theorems (the next section).

The store is one entry per Call-ID, and every operation touches one entry: a second
Call-ID adds no interaction, while the second bot is what makes the entry contended.
`MaxPending` and `MaxCopies` bound what waits when an operation is asked for; a task
that stores a request, or an answer asked for twice, waits beside a hangup.  The
theorems remove these bounds.  Two mains are one after another; two functions leave
one for a script beside a main's, and a cancel function is called for it at any time.
`speech_playback` has one bot: what two bots share below the scripts is the store, which
`call_control` has, and the file of a shared Call-ID, which its properties leave out; the
theorems about speech are for any number of bots.  Two buffers make a file that can be
half written and half read.  The queue is compacted beyond 1024 in the code and beyond 1
in the run, so that it happens with three tasks of one thread, with one of the other
thread, and the one that asks for, to come in between.

Two sources are what a combinator needs to wait for one while it has the other, and
each is resolved, rejected or resolved with the other, before, between or after the
calls of the script, in every order with the flush.  There is a script for every
combinator, and a second call (`See`) that looks at what many of them answer.
`AnswersAsPromised` compares with a reference: `ComesTo` says, from the present outcome
of the inputs alone, which outcomes are allowed, and `SettlesWithItsInputs` that one of
them is there once nothing is due.

Deadlock is not checked where the system may rest (no call comes, nothing is due, the
machine has halted).

Two runs show a behaviour of the code that differs from what its messages or comments
say:

- `behaviours_shared`: one call rings at two bots; the CANCEL of one removes the
  request of both, and the bot that answered never hangs up.
- `event_loop_flush`: `handleTimer` of promises.js clears the timeout it runs in, which
  counts that task off, and its end counts it off again.  In the trace main is called
  between the two: the first ends the phaser, main replaces it and registers, the second
  takes main's own party, main's arrival ends the phase at once, and main returns before
  its function has run.

More is visible in the models and has no run of its own:

- without `blind` TLC refutes OneConversation: the test of answerHangup's timer sees no
  conversation while the first answer still waits in the pool, and two calls are answered;
- the shutdown hook only submits the unregistrations, and in `Lifecycle` the machine may
  halt before the pool ran any of them: the bots stay registered;
- voices are numbered by two and languages again from 0, so the code printed beside a
  voice may install a language (`LanguageEntries` win in `DownloadableList`);
- without `orphaned` TLC refutes TimerThreadSurvives: a phaser comes to its end with
  functions still to run, main replaces it, and they arrive on the new one, the last of
  them with no party left, which throws in the finally and ends the timer thread;
- without `stray` it refutes MainWaitsWhenCounted, which is what `event_loop_flush`
  shows, and a cancel function that is called late does the same; without `orphaned` too;
- without `overwritten` it refutes FlushedOnce: a queue is flushed twice when setInterval
  assigns its cancel after the loop has run;
- a main that timed out leaves its party registered, and the following main waits for
  it as long as it is allowed to: MainReturnsUnlessTimedOut excludes it, and
  PartiesAreOutstanding counts the party;
- words that are ready after the hangup are sent in the next call the bot has answered,
  since the bot's own hangup leaves the request in the store (`SentInItsCall` is about
  calls that last);
- an early call may end the receiver thread of a bot for good (`deaf` in `Lifecycle`);
- two bots that speak on one Call-ID share a file, and one may play the words of the
  other (SaidAsAsked is about a bot that is alone in its call);
- two dwn commands may both find the flag down and both download, as `voice_download`
  allows;
- threads that overlap in the queue of promises.js lose handlers, or have one called
  twice, and a task that throws stops the queue (see TaskQueue).

### Refinement

`Promises` and `QScripts` both have the property `KeepsItsPromises`, which is
`PromiseSpec` under a refinement mapping (INSTANCE ... WITH): every step of either
library is a step of `PromiseSpec` or stutters.  It says at once that promises settle
once, that handlers are called at most once, with the outcome, in a later turn than
the one that gave them, and in order, through every chain of promises that follow one
another.  That they are called in the end is separate: `HandlersAreCalled`,
`SettlesWithItsInputs` and `QueueDrains`.

### Fairness

Every thread that has something to run goes on, and nothing is assumed of the world:

- the pool is a cached thread pool without a bound, so each task is weakly fair;
- a handler returns, because no script blocks (`HandlerReturns`);
- the timer thread is weakly fair as a whole, in `Behaviours` (`TimerStep`) and in
  `EventLoop` (`TimerThread`): it runs something while something is due, in any order;
- a thread that asked for a flush, and a main that was called, go on (`EventLoop`);
- in `Promises` and `QScripts` a flush that was asked for goes on, which is what
  `FlushHappens` shows of `EventLoop` for promises.js, and a timeout of 0 ms for q.js;
  the fairness of `QScripts` is on `beat`, a bit that the steps of the flush turn,
  because TLC compares it faster than the whole memory;
- in `TaskQueue` a thread inside rawAsap goes on, and so does the timer thread;
- scripts need not settle, or call, anything;
- the main thread goes on until the machine halts;
- callers, callees, the registrar, the people at the console, and the signal that
  begins a shutdown need not do anything.

## What is proved

Every theorem is for any value of the constants, under the named assumptions of the
module (`NoRequest` is no bot, `Idle` no handler and no timer, bounds are numbers, and
the like); an assumption about use is part of the statement.

| module | theorems | under |
|---|---|---|
| `SpeechPlaybackProofs` | `TypeCorrect`, `StoreInvHolds`, `LiveCallStored`, `HungUpCallForgotten` of `CallControl`; `TypesCorrect`, `OneAtATime`, `ScriptsKeepStore` of `Behaviours`; `SpeechTypesCorrect`, `FileDeleted`, `WordsSaidAsAsked`, `WordsSentInTheirCall` | no shared Call-ID for the last |
| `EventLoopProofs` | `TypeCorrect`, `FlushedAtMostOnce`, `TimerSurvives`, `PartiesCounted`, `MainWaitsForItsFunction` | |
| `LifecycleProofs` | `TypeCorrect`, `ScriptsFirst`, `EveryBotIsAsked`, `HeardAfterStart` | |
| `CommandRouterProofs` | `TypeCorrect`, `ExecutesItsCommand`, `RepeatIsReplaced`, `FirstClassWins`, `DeclaredFound`; `DwnTypeCorrect`, `NeverStuck` of `VoiceDownload` | |
| `TaskQueueProofs` | `TypeCorrect`, `CalledOnce`, `CalledInOrder` | |
| `PromisesProofs` | `MemoryIsSound`, `GathersAnswer`, `GathersSettle`, `PromisesAreKept` | |
| `QScriptsProofs` | `QInvariant`, `QUnhandledIsUnobserved`, `QNoProgressAfterAnswer`, `QKeepsItsPromises`, `QNoHandlerIsForgotten` | `[]Within` for `QKeepsItsPromises` |
| `QCountsProofs` | `QCountInvariant`, `QTypeOK`, `QNoCountIsMissed` | `Within` for `QTypeOK` |

The assumptions of the third column are those of the runs that check the property.  A
property that holds up to a history says so in its statement, and what goes wrong
without is told under the runs and in the sections on the modules.

Three assumptions deserve a word.  `WorkAssumption` and `FollowsAssumption` of
`TaskQueue` say that no task is asked for twice: handle makes a new function for every
call of asap.  `AttachmentsAssumption` of `CommandRouter` says that some class is
attached.  `TasksAssumption` of `EventLoop` keeps the tasks of flushes apart from those
of scripts, since both are in one table of the model.

*The request store.*  The two properties are not inductive: nothing in them says that a
request in the store belongs to a call its bot takes part in, that the receiver thread
is in remoteHangup only for a call that is over, or that a task still in the pool
stores only placed calls.  `StoreInv` adds these (`StoredIsReal`, `DialogIsReal`,
`HangupIsReal`, `StoreTasksArePlaced`).  LiveCallIsStored can then only be disturbed
by the removal at the end of remoteHangup, which by `HangupIsReal` is of a call of
that same bot that is over, so by `Alone` not of another live call; and
HungUpCallIsForgotten only by a store, which happens when a call is received (its
dialog is then early) or by a store task (its role is then *out*).  The proof has one
lemma per group of steps, and treats the steps that only touch the pool at once
(`CallsUnchanged`, `NoNewTask`).
`ScriptsKeepStore` carries both properties over to the composition with the scripts:
their turns, and the timers that fire, are steps of `CallControl` or leave it alone.

*One conversation.*  A bot is `Engaged` in a call from the moment its answer timer has
seen no other conversation: while the timer thread is about to submit the answer, while
the answer waits in the pool, while the dialog is confirmed.  `OneEngagement` says that
of two such calls one has its timer in `blind`.  It is inductive because a timer that is
not blind has looked when no answer of the bot was in the pool, so that the
conversations it looks for are all there is, and nothing leaves `blind`.

*Files of speech.*  `SayInv` says that the words of a call are asked for once
(`AskedOnce`: the report of the call, the timer of its answer, the answer and the words
come one after another, and there is only one of each), that a stream is at the start
of its file until it writes (`OutputInv`), and whose file is whose (`FileInv`).

*What is said.*  `Whole` follows the file of a bot that is alone in its call: it is its
own from the moment it is opened, holds the buffers written so far and nothing else, is
complete when it is saved, and is what the sender was given; the deletion of the file
comes when the sender has it.  The other bots do not reach it, because a stream writes
a file of its own call (`StreamInv`) and the words of a bot that is alone are the only
ones of that call.

*Where it is said.*  `SessionInv` says of a bot whose answers saw one another that its
session is that of its one conversation.  `Heard` says of words that were asked for and
whose dialog is still early that the answer is in the pool: then there is no session
of that call, and by `OneEngagement` none of another.  `OneEngagement` is also what keeps
another call from taking the session of one that lasts.  A call that is over is out of
reach of the property, and `StoreInv` keeps dialogs from coming back.

*The flush.*  `OnceInv` says, of each flush, that its interval has one task to come, that
none runs before the timeout has fired, and that a task of it at work has the next one in
`cancel`, unless setInterval overwrote that, which it can do once and only before the
first flush (`IntervalInv`).  A flush ends the interval, and if it did not then the cancel
was overwritten and the next one does (`FlushedInv`).  One function runs at a time
(`OneRuns`).

*The timer thread.*  `PhaserInv`: a phaser that refuses an arrival is one that nobody has
registered with yet, and no function can run then, unless main gave up the phaser before
it for that one.  Late cancels do not matter here: the arrival that leaves a phaser
without a party ends it, and a phaser that is over takes any arrival.

*The parties.*  `CountInv` adds to PartiesAreOutstanding that a phaser is not without
unarrived parties while there are any.  Each step counts a function up (`PartyMore`), off
(`PartyLess`), counts one off that was not there or was counted off already
(`PartyAstray`), or leaves the phaser and what is outstanding alone (`PartiesSame`), and the
theorems on cardinalities give what that adds to or takes from the set of functions.

*The return of main.*  `FnInv` says that the function of main is set and not canceled
until it has run (nobody has its cancel function), and that the phase main arrived in is
not over before.  It rests on `ExpectedInv`: as long as no party has gone missing, the
functions still to run, and main unless it has arrived, are among the parties the phase
still waits for.  Other functions may be set, run and be canceled meanwhile.

*Start and shutdown.*  `RunInv` ties the place of BotsManager.run to what is loaded,
built and launched, and `HookInv` the place of a hook that began after the launch to
the bots it iterates over and has asked.  `HeardInv` adds that the agents that are kept are
those whose script was created or failed, and that the router is set before the
front-ends are launched, so that after run nothing gets lost but what a bot that was made
deaf before would have heard, and no bot becomes deaf any more.

*The router.*  `ClientInv` follows a command from the line to its execution: it is the
one that was typed, unless that was `r`.  `RoutesInv` says of the attachments done so
far that each route belongs to the first class that declares it.  When all is attached
every class has had its turn, so a declared route is there, and none is ever removed
(`DeclaredIsThere`); a thread that looks for it then goes on (`StaysOrFinds`).

*The download.*  `HasChosen`: a command that goes on has a component with a location.
The flag is raised by a command that then downloads, and lowered by the first that
ends.

*The queue.*  `Waiting` is what is still to be called: the slots from `index` on, seen
through a compaction under way, in which the first of them have been moved to the front
and one is being moved (`At`).  A step of the compaction leaves it as it is, unless the
array grew meanwhile.  `OnceInv` says where a task may be as long as that did not happen:
not asked for yet, in the hands of one thread, in one slot of `Waiting`, or called
(`Apart`), whatever threads overlap.  `OrderInv` does use `overlapped`: while no thread came
between the accesses of another, only one of them is busy (`Alone`), and what was asked
for is what was called, then `Waiting`, then what that thread has in hand (`InOrder`).

*The promises.*  `PromisesAreKept` is the refinement of `PromiseSpec` by `Promises`, for
any number of promises and any scripts.  `MemoryInv` is its inductive invariant, a
conjunction:

- `StateInv`: a promise only follows promises that were made, and one that is no longer
  pending has given its deferreds away;
- `WaitingInv`: the handlers that wait for a promise are handlers of it, not yet
  answered, in the order of their numbers;
- `DeferredInv`, `QueueInv`: the deferreds of a promise, and the tasks of asap, are
  waiting handlers of promises whose chain ends at that promise, in that order for each;
- `OwnerInv`, `CallbackInv`: a promise may still be settled by one pair of resolve and
  reject that was not called, or by the one handler of its number, never by both;
- `PlacedInv`: unless the library is in its loop, each waiting handler is a deferred or
  in a task;
- `FlushInv`, `PairsInv`: a flush was asked for while there are tasks, and each pair of
  resolve and reject has its record of what all gathers.

Each function of the library is a lemma about memories (`HandleAllInv`, `SettleInv`,
`ResolveInv`, `ThenInv`, `GatherInv`, `AllInv`, ...): the memory it leaves is sound and
`Extends` the one it was given, that is, no outcome changes and no waiting handler is
lost or moved.  In between, the handlers that finale has taken from a promise are in no
place: `Loose` says where they go, and `HandleAllInv` puts them back.  all and race make
any number of calls: they are functions over the items, and `AllInv` and `RaceInv` are
inductions over the naturals.  A task answers the first handler in the queue;
`FirstWaits` shows from the orders above that it is also the first that waits for its
promise, which is the heart of *in order*.

The chains need an argument of their own.  `Root` takes `MaxPromises` steps, and the
proof has to know that a promise that is not reached by then is never reached.  `Basin`
is the least set of promises that holds one and all that follow members of it; the
steps of a chain that goes on inside it are different promises, so by the pigeonhole
theorem of `FiniteSetTheorems` there are not more of them than promises (`BasinRoot`):
everything in the basin of a promise that does not follow ends there.  With it, settling
a promise changes the end of the chains that ended there and of no others
(`SettledRoots`), and what an item of all comes to can be read off the handler that
waits further down its chain (`BasinEnd`).

*The answers of all.*  `GathersAnswer` and `GathersSettle` need to know what all has in
hand.  `GathersInv` says of every call of all whose items are no thenables: its pair is
the library's alone, and either it was called and its promise has the outcome of the
items (`AnswersItems`), or the items fall into two sets (`IsCollecting`): those that
came, whose values are kept at their own places and are not counted any more, and the
others, for each of which exactly one waiting handler has the callbacks of that item and
hangs from a promise its chain passes (`IsFor`).  Inside the loop of all, and inside a
task whose handler is already taken out, one item is in neither set: `GatherAt(h, r, M)`
is the same with the items M in hand, and each function that all calls is a lemma that
puts one of them back (`GatherStep`, `ThenStep`, `RejectStep`).  What every other
function does to a call of all is nothing: the lemmas of the functions say so of the
pairs they do not call (`Leaves`).  An answer with the items of the state before is one
with those of the state after, because outcomes are kept (`Extends`).  That all settles
follows: with the queue empty, the handler of an item that is missing is by `PlacedInv`
a deferred of a pending promise, so that item has not settled (`MissingItem`).

*The promises of q.js.*  `QKeepsItsPromises` is the refinement of `PromiseSpec` by
`QScripts`, for any scripts of the calls of `ScriptCall` and any number of sources.
PromiseSpec has a fixed set of promises and handlers, so the theorem speaks of behaviors
that stay within `MaxDeferreds` of them (`[]Within`); no action looks at that bound, and
it may be any number.  The other theorems do without.

Nothing in the library follows a chain of promises, as `Root` does for promises.js: a
message walks along it, one task for each promise, while others are resolved before and
behind it.  So the invariant, `CoreInv` in `MemoryInv`, is about chains (`Along`, the
least relation closed under *is resolved with*) and about where messages are on them:

- `ShapeInv`, `KnownInv`: the fields, and that everything kept in them refers to
  deferreds that exist: targets, callbacks, timers, what scripts hold.  The deferreds
  that a callback may settle are not those of a call of then: these are only settled by
  their own handler (`Plain`, `Own`);
- `TargetsInv`: a deferred is resolved with a source or with one made later, a source
  with a later source (`Before`).  `Rank` goes down along it: no ring, so every chain ends;
- `FlatInv`: what *join* compares, and answers, is no promise it could close a ring
  with, because *all* has taken its items apart;
- `QueueInv`, `KeptInv`: what tasks and kept messages may be; a flush was asked for while
  there are tasks; a resolved deferred keeps neither messages nor listeners;
- `OrderInv`: of two calls of then on one promise, the message of the earlier *leads*: it
  is further along the chain, or in the same place and before in the queue;
- `WaitingInv`: the history `waiting` is the calls that are not done, by their numbers;
- `ListenInv`: a listener is dropped, and its progress task run, before the message of its
  call has gone past: progress tasks stand before the message that calls the handlers;
- `DoneInv`: a rejection is off the list of unhandled ones exactly when a call that is
  done sees it at the end of its chain;
- and `MemoryInv` adds that no call `IsLost`: one that is not done has its message in the
  queue or in a deferred (`IsPlaced`).

Each function of the library has a lemma about memories: what it leaves is sound and
`Grows` from what it was given, which says what may not change (`Widens`) and that
nothing more is lost; `Goes` is both.  The lemmas are chained by `GoesTrans`, so that a
combinator is as easy as the calls it makes.  A task is the one step in which a message is in
no place: `Takes` removes it, and `Handle` must answer it or `Send` put it somewhere
else.  `Answers` is the heart of *in order*: by `OrderInv` the message that has come to
the end is that of the first call that waits.  `QNoHandlerIsForgotten` follows from the
invariant at once: with an empty queue a message is kept by the end of its chain, which
is then pending.

*The counts of q.js.*  *all* and *any* keep a number, pendingCount, and nothing that says
whom they wait for: the callbacks that will count are in the calls of then, which may be
anywhere in the library.  `CountInv` ties the two: the count of a promise that is not
resolved is the cardinality of `Counting`, the calls that are not done and whose callback
counts for it, and it is not 0; once *all* was rejected the count may be more than that,
never less.  `IsPair` says that the two callbacks of an item go together, so that the
call whose *gather* was not called has called the *reject* of the same promise, and the
count does not matter any more.  Within a step the count of one promise may be ahead of
its calls, when *all* counts an item before it calls then, or behind, when a call is done
and its callback has not run: `CountsBut(h, e, k)` is the invariant with `e` excepted and
off by `k`, and each function that counts is a lemma from one of these to another
(`DoneCounts`, `GatherCounts`, `MissCounts`, `WhenCounts`).  Everything else is `Steady`:
what was counted is, and nothing more.  `QNoCountIsMissed` draws the conclusion:
between two flushes an unresolved promise of *all* or *any* has an item that is pending.

Only model-checked: liveness, which needs fairness (`QueueDrains` too), and of `QScripts`
the comparisons with `ComesTo`: `AnswersAsPromised`, `SettlesWithItsInputs` and
`NothingIsSwallowed`.  The three compare each answer with a reference that is different for each of the twenty-six calls,
and would need for each what `GathersInv` is for the one `all` of promises.js: where its
intermediate promises and callbacks are between the turns.

## What is not modelled

- The **voice and locale** of marytts (setVoice): what they do to one another is inside
  marytts.  The running flag of `ManagedThread`, which only the end of the process
  lowers.
- **Configuration** (`PeerConfig`, `GlobalConfig`, plugin properties), **resources and
  class path**, **SipUtils**, **CliLogger**: read once or stateless.
- **BotSoundManager**: reads and writes audio lines.
- **jsLib** (HTTP client, processes): no behaviour uses it.
- **extnd.js**, **console.js**, **sandbox.js**, **underscore**, the **web pages**:
  copying of properties, formatting and stateless functions.
- In the promise libraries: sub-classes of Promise, denodeify and nodeify of
  promises.js, and of q.js what is listed above.
- **peers**, **pf4j**, **marytts**, **NanoHTTPD**, **Nashorn**: libraries, modelled
  only where their effect matters, and marked external in the map.
- The growth of the store: terminate, busy and error leave the request in it, so it
  grows with every call a bot ends itself.  Nothing in the repository promises
  otherwise, and a Call-ID is not used again.

## The plan

Done: the modules above.  What could follow:

1. Theorems: from the counts of *all* and *any* of q.js, their part of
   `AnswersAsPromised` and `SettlesWithItsInputs`.
2. The media settings (setAnswerFile, setAnswerNone, ...), which the pool applies in any
   order, and the list of bots of the configuration feeding `Lifecycle`.
